--------------------------- MODULE ServicesProofs ---------------------------
(***************************************************************************)
(* What TLAPS proves of the modules about a whole service: Routes          *)
(* (codegen/http.go, versioning.go, grpc.go), EventVersions                *)
(* (codegen/event_version.go over rtsrc/eventstore.go.txt), Wiring         *)
(* (codegen/codegen.go, decl_policy.go), RateLimit (codegen/ratelimit.go,  *)
(* rtsrc/ratelimit.go.txt, redisrt/ratelimit.go.txt) and Reads             *)
(* (codegen/decl_query.go, lower/, rtsrc/collection.go.txt,                *)
(* sqlrt/collection.go.txt), each for any number of its requests,          *)
(* versions, tenants, keys, releases, streams, programs, replicas,         *)
(* queries and rows.                                                       *)
(***************************************************************************)
EXTENDS Routes, EventVersions, Wiring, RateLimit, Reads, SequenceTheorems, FiniteSetTheorems, TLAPS

-----------------------------------------------------------------------------
(* Routes: any Interface, number of requests, versions, tenants and keys.   *)

RouteFields == {"at", "input", "route", "target", "version", "tenant", "cmd", "loaded", "answer", "status", "arrived",
                "replay", "notice"}
Shaped ==
    /\ DOMAIN req = Requests
    /\ \A r \in Requests : DOMAIN req[r] = RouteFields /\ (req[r].at = "new" => req[r] = NoRequest)
    /\ \A k \in DOMAIN keyed : DOMAIN keyed[k] = {"print", "end"}

\* What a request that waits for its decode, or for its answer, brings along.
ReadyToRead(q) ==
    /\ q.at \in {"limit", "decode"} /\ Versioned =>
        /\ q.version = ResolvedVersion(q.input)
        /\ q.version \in DOMAIN http.versions => q.route.path \notin DOMAIN http.versions[q.version].routes
    /\ q.at \notin {"new", "answered"} =>
        q.version = IF Versioned /\ q.route.path # Blank THEN ResolvedVersion(q.input) ELSE Blank

\* A body in the shape its version says, one request at a time.
ReadRightly(q) ==
    LET v == ResolvedVersion(q.input) IN
    (q.cmd # <<>> /\ q.cmd.shape \notin {Blank, "zero"}) =>
        q.cmd.shape =
            IF /\ Versioned /\ v \in DOMAIN http.versions
               /\ q.route.path \notin DOMAIN http.versions[v].routes
               /\ UseCases[q.target].command \in http.versions[v].upcasts
            THEN v ELSE "current"

\* The key of a run is held by it alone, and an end that is known stays known.
Holds(r) == req[r].at \in {"load", "append"} /\ Claims(r)
KeysAreHeld ==
    /\ \A r \in Requests : Holds(r) => req[r].input.key \in DOMAIN keyed /\ keyed[req[r].input.key].end = Running
    /\ \A r, o \in Requests : Holds(r) /\ Holds(o) /\ req[r].input.key = req[o].input.key => r = o
    /\ \A r \in Requests : req[r].replay # Running => KnownEnd(req[r]) = req[r].replay

\* Who appended is done, and who is about to append may see what it loaded.
StreamsAreWritten ==
    /\ \A s \in DOMAIN streams : \A e \in streams[s].events : e \in Requests /\ req[e].at = "answered"
    /\ \A r \in Requests : req[r].at = "append" /\ req[r].loaded # {} =>
          req[r].cmd.id \in DOMAIN streams /\ TenantVisible(r, streams[req[r].cmd.id].tag)

RoutesInv ==
    /\ Shaped /\ RoutesTypeOK /\ LifecyclesAreKept /\ BodyIsReadInItsVersion /\ AnswersSpeakTheirVersion
    /\ \A r \in Requests : ReadyToRead(req[r])
    /\ KeysAreHeld /\ StreamsAreWritten /\ TaggedStreamsAreOwned

\* What the gates of a handler leave of a request.
LEMMA GatesKeep ==
    ASSUME NEW q, DOMAIN q = RouteFields
    PROVE  LET g == Tenanted(Overridden(Gated(q))) IN
           /\ DOMAIN g = RouteFields
           /\ g.input = q.input /\ g.route = q.route /\ g.arrived = q.arrived /\ g.replay = q.replay
           /\ g.loaded = q.loaded /\ g.answer = q.answer
<1> DEFINE Same(g) == /\ DOMAIN g = RouteFields
                      /\ g.input = q.input /\ g.route = q.route /\ g.arrived = q.arrived /\ g.replay = q.replay
                      /\ g.loaded = q.loaded /\ g.answer = q.answer
<1>1. Same(Gated(q))
  BY DEF Gated, Refused, RouteFields
<1>2. ASSUME NEW g, Same(g) PROVE Same(Overridden(g))
  BY <1>2 DEF Overridden, Refused, RouteFields
<1>3. ASSUME NEW g, Same(g) PROVE Same(Tenanted(g))
  BY <1>3 DEF Tenanted, Refused, RouteFields
<1> HIDE DEF Same
<1>4. Same(Tenanted(Overridden(Gated(q))))
  BY <1>1, <1>2, <1>3
<1> QED BY <1>4 DEF Same

\* The gates answer, or let through to the route of the version or to the one of the Interface.
LEMMA GatesDecide ==
    ASSUME NEW q, DOMAIN q = RouteFields, q.at = "caller", q.status = 0, q.cmd = <<>>, q.version = Blank, q.notice = FALSE
    PROVE  LET g == Tenanted(Overridden(Gated(q)))
               v == ResolvedVersion(q.input)
           IN  /\ g.at \in {"answered", "dispatch", "limit"} /\ g.status \in {0, 400, 410}
               /\ (g.at = "answered") <=> (g.status # 0)
               /\ (g.status = 410) <=> (Versioned /\ Reached(v, "sunset"))
               /\ g.notice <=> (Versioned /\ Reached(v, "deprecated") /\ ~Reached(v, "sunset"))
               /\ g.at = "answered" => g.cmd = <<>>
               /\ g.at = "limit" => g.cmd = <<>>
               /\ g.at # "answered" => g.version = IF Versioned THEN v ELSE Blank
               /\ g.at = "limit" /\ Versioned /\ v \in DOMAIN http.versions =>
                     q.route.path \notin DOMAIN http.versions[v].routes
               /\ g.at = "dispatch" => /\ Versioned /\ v \in DOMAIN http.versions
                                       /\ q.route.path \in DOMAIN http.versions[v].routes
                                       /\ g.cmd = BodyDecoded("current", q.input)
<1> DEFINE v == ResolvedVersion(q.input)
           a == Gated(q)
           b == Overridden(a)
<1>1. /\ DOMAIN a = RouteFields /\ a.cmd = <<>> /\ a.route = q.route /\ a.input = q.input
      /\ a.at \in {"answered", "caller"} /\ ((a.at = "answered") <=> (a.status # 0)) /\ a.status \in {0, 410}
      /\ (a.status = 410) <=> (Versioned /\ Reached(v, "sunset"))
      /\ a.notice <=> (Versioned /\ Reached(v, "deprecated") /\ ~Reached(v, "sunset"))
      /\ a.at # "answered" => a.version = IF Versioned THEN v ELSE Blank
  <2>1. CASE ~Versioned
    <3>1. a = q
      BY <2>1 DEF Gated
    <3> QED BY <2>1, <3>1 DEF a
  <2>2. CASE Versioned /\ Reached(v, "sunset")
    <3>1. a = [q EXCEPT !.at = "answered", !.status = 410]
      BY <2>2 DEF Gated, Refused
    <3> HIDE DEF a
    <3> QED BY <2>2, <3>1 DEF RouteFields
  <2>3. CASE Versioned /\ ~Reached(v, "sunset")
    <3>1. a = [q EXCEPT !.version = v, !.notice = Reached(v, "deprecated")]
      BY <2>3 DEF Gated
    <3>2. Reached(v, "deprecated") \in BOOLEAN
      BY DEF Reached
    <3> HIDE DEF a
    <3> QED BY <2>3, <3>1, <3>2 DEF RouteFields
  <2> QED BY <2>1, <2>2, <2>3
<1> HIDE DEF a
<1>2. /\ DOMAIN b = RouteFields /\ b.route = q.route /\ b.input = q.input
      /\ b.at \in {"answered", "caller", "dispatch"} /\ ((b.at = "answered") <=> (b.status # 0))
      /\ b.status \in {0, 400, 410}
      /\ (b.status = 410) <=> (Versioned /\ Reached(v, "sunset"))
      /\ b.notice <=> (Versioned /\ Reached(v, "deprecated") /\ ~Reached(v, "sunset"))
      /\ b.at # "answered" => b.version = IF Versioned THEN v ELSE Blank
      /\ b.at # "dispatch" => b.cmd = <<>>
      /\ b.at = "caller" /\ Versioned /\ v \in DOMAIN http.versions => q.route.path \notin DOMAIN http.versions[v].routes
      /\ b.at = "dispatch" => /\ Versioned /\ v \in DOMAIN http.versions
                              /\ q.route.path \in DOMAIN http.versions[v].routes
                              /\ b.cmd = BodyDecoded("current", q.input)
  BY <1>1 DEF Overridden, OverriddenPaths, Refused, RouteFields
<1> HIDE DEF b
<1>3. /\ Tenanted(b).at \in {"answered", "dispatch", "limit"} /\ Tenanted(b).status \in {0, 400, 410}
      /\ (Tenanted(b).at = "answered") <=> (Tenanted(b).status # 0)
      /\ Tenanted(b).version = b.version /\ Tenanted(b).cmd = b.cmd /\ Tenanted(b).notice = b.notice
      /\ (Tenanted(b).status = 410) <=> (b.status = 410)
      /\ Tenanted(b).at = "dispatch" <=> b.at = "dispatch"
      /\ b.at # "caller" => Tenanted(b).status = b.status
      /\ Tenanted(b).at # "answered" => b.at # "answered"
      /\ Tenanted(b).at = "limit" => b.at = "caller"
  BY <1>2 DEF Tenanted, Refused, RouteFields
<1> QED BY <1>2, <1>3 DEF a, b

\* What a request keeps once it has arrived, and what every step of it leaves to the others.
LEMMA StepKeeps ==
    ASSUME RoutesInv, NEW r \in Requests, RouteStep(r)
    PROVE  /\ UNCHANGED <<http, day>> /\ req[r].at \notin {"new", "answered"}
           /\ DOMAIN req' = Requests /\ \A o \in Requests : o # r => req'[o] = req[o]
           /\ DOMAIN req'[r] = RouteFields
           /\ req'[r].at \in {"decode", "peek", "dispatch", "load", "append", "answered"}
           /\ req'[r].input = req[r].input /\ req'[r].route = req[r].route /\ req'[r].target = req[r].target
           /\ req'[r].version = req[r].version /\ req'[r].tenant = req[r].tenant
           /\ req'[r].arrived = req[r].arrived /\ req'[r].notice = req[r].notice
           /\ req'[r].replay \in {req[r].replay, KnownEnd(req[r])}
           /\ Load(r) \/ req'[r].answer = req[r].answer
<1>1. DOMAIN req = Requests /\ DOMAIN req[r] = RouteFields
  BY DEF RoutesInv, Shaped
<1>2. CASE LimitFirst(r)
  BY <1>1, <1>2 DEF LimitFirst, Charge, Goes, Responds, RouteFields
<1>3. CASE DecodeBody(r)
  BY <1>1, <1>3 DEF DecodeBody, Goes, Responds, RouteFields
<1>4. CASE LimitUnlessReplay(r)
  BY <1>1, <1>4 DEF LimitUnlessReplay, Charge, Goes, Responds, RouteFields
<1>5. CASE Dispatch(r)
  BY <1>1, <1>5 DEF Dispatch, Goes, Responds, RouteFields
<1>6. CASE Load(r)
  BY <1>1, <1>6 DEF Load, Ends, Responds, RouteFields
<1>7. CASE CommitAppend(r)
  BY <1>1, <1>7 DEF CommitAppend, Ends, Responds, RouteFields
<1>8. CASE \E code \in {403, 422, 503} : BodyFails(r, code)
  BY <1>1, <1>8 DEF BodyFails, Ends, Responds, RouteFields
<1> QED BY <1>2, <1>3, <1>4, <1>5, <1>6, <1>7, <1>8 DEF RouteStep

\* What a request is when it has passed the gates.
Arrived(q) ==
    /\ DOMAIN q = RouteFields
    /\ q.at \in {"answered", "dispatch", "limit"} /\ q.loaded = {} /\ q.answer = Blank
    /\ q.status \in {0, 400, 410} /\ ((q.at = "answered") <=> (q.status # 0))
    /\ q.replay = KnownEnd(q)
    /\ (q.status = 410) <=> Due(q, "sunset")
    /\ q.notice <=> (Due(q, "deprecated") /\ ~Due(q, "sunset"))
    /\ ReadyToRead(q)
    /\ \/ q.cmd = <<>> \/ q.cmd.shape \in {Blank, "zero"}
       \/ /\ q.cmd.shape = "current" /\ ResolvedVersion(q.input) \in DOMAIN http.versions
          /\ q.route.path \in DOMAIN http.versions[ResolvedVersion(q.input)].routes

LEMMA GatesPass ==
    ASSUME NEW q, DOMAIN q = RouteFields, q.at = "caller", q.status = 0, q.cmd = <<>>, q.loaded = {},
           q.version = Blank, q.notice = FALSE, q.answer = Blank, q.arrived = day, q.route.path # Blank
    PROVE  Arrived(Recognized(Tenanted(Overridden(Gated(q)))))
<1> DEFINE g == Tenanted(Overridden(Gated(q)))
           v == ResolvedVersion(q.input)
           a == Recognized(g)
<1>1. /\ DOMAIN g = RouteFields
      /\ g.input = q.input /\ g.route = q.route /\ g.arrived = q.arrived
      /\ g.loaded = q.loaded /\ g.answer = q.answer
  BY GatesKeep
<1>2. /\ g.at \in {"answered", "dispatch", "limit"} /\ g.status \in {0, 400, 410}
      /\ (g.at = "answered") <=> (g.status # 0)
      /\ (g.status = 410) <=> (Versioned /\ Reached(v, "sunset"))
      /\ g.notice <=> (Versioned /\ Reached(v, "deprecated") /\ ~Reached(v, "sunset"))
      /\ g.at = "answered" => g.cmd = <<>>
      /\ g.at = "limit" => g.cmd = <<>>
      /\ g.at # "answered" => g.version = IF Versioned THEN v ELSE Blank
      /\ g.at = "limit" /\ Versioned /\ v \in DOMAIN http.versions =>
            q.route.path \notin DOMAIN http.versions[v].routes
      /\ g.at = "dispatch" => /\ Versioned /\ v \in DOMAIN http.versions
                              /\ q.route.path \in DOMAIN http.versions[v].routes
                              /\ g.cmd = BodyDecoded("current", q.input)
  BY GatesDecide
<1>3. BodyDecoded("current", q.input).shape \in {"zero", "current"}
  BY DEF BodyDecoded
<1> HIDE DEF g
<1>4. /\ DOMAIN a = RouteFields /\ a.at = g.at /\ a.status = g.status /\ a.notice = g.notice /\ a.cmd = g.cmd
      /\ a.version = g.version /\ a.input = q.input /\ a.route = q.route /\ a.arrived = day /\ a.loaded = {}
      /\ a.answer = Blank /\ a.target = g.target /\ a.replay = KnownEnd(g)
  BY <1>1 DEF Recognized, RouteFields
<1>5. KnownEnd(a) = KnownEnd(g)
  BY <1>1, <1>4 DEF KnownEnd, Fingerprint
<1> HIDE DEF a
<1>6. \A field \in {"sunset", "deprecated"} : Due(a, field) <=> (Versioned /\ Reached(v, field))
  BY <1>4 DEF Due, OfAVersion, Reached
<1>7. ReadyToRead(a)
  BY <1>2, <1>4 DEF ReadyToRead
<1>8. (a.status = 410) <=> Due(a, "sunset")
  BY <1>2, <1>4, <1>6
<1>9. a.notice <=> (Due(a, "deprecated") /\ ~Due(a, "sunset"))
  BY <1>2, <1>4, <1>6
<1>10. \/ a.cmd = <<>> \/ a.cmd.shape \in {Blank, "zero"}
       \/ /\ a.cmd.shape = "current" /\ ResolvedVersion(a.input) \in DOMAIN http.versions
          /\ a.route.path \in DOMAIN http.versions[ResolvedVersion(a.input)].routes
  <2>1. CASE g.at = "dispatch"
    BY <1>2, <1>3, <1>4, <2>1
  <2>2. CASE g.at # "dispatch"
    BY <1>2, <1>4, <2>2
  <2> QED BY <2>1, <2>2
<1>11. /\ a.at \in {"answered", "dispatch", "limit"} /\ a.status \in {0, 400, 410}
       /\ (a.at = "answered") <=> (a.status # 0)
  BY <1>2, <1>4
<1>12. /\ DOMAIN a = RouteFields /\ a.loaded = {} /\ a.answer = Blank /\ a.replay = KnownEnd(a)
  BY <1>4, <1>5
<1>13. Arrived(a)
  BY <1>7, <1>8, <1>9, <1>10, <1>11, <1>12 DEF Arrived
<1> QED BY <1>13 DEF a, g

\* A request that arrives: a clean record with what the mux matched, through the gates.
LEMMA ArriveKeeps ==
    ASSUME RoutesInv, NEW r \in Requests,
           \/ \E route \in http.routes, input \in Inputs : ArriveHTTP(r, route, input)
           \/ \E name \in RPCs, input \in Inputs : ArriveRPC(r, name, input)
    PROVE  /\ UNCHANGED <<http, day, streams, spent, keyed>> /\ req[r] = NoRequest
           /\ DOMAIN req' = Requests /\ \A o \in Requests : o # r => req'[o] = req[o]
           /\ Arrived(req'[r])
<1>1. DOMAIN req = Requests /\ DOMAIN req[r] = RouteFields
  BY DEF RoutesInv, Shaped
<1>5. ASSUME NEW name \in RPCs, NEW input \in Inputs, ArriveRPC(r, name, input)
      PROVE  /\ UNCHANGED <<http, day, streams, spent, keyed>> /\ req[r] = NoRequest
             /\ DOMAIN req' = Requests /\ \A o \in Requests : o # r => req'[o] = req[o]
             /\ Arrived(req'[r])
  <2>1. req[r] = NoRequest /\ UNCHANGED <<http, day, streams, spent, keyed>>
    BY <1>5 DEF ArriveRPC, IsNext, RoutesInv, Shaped
  <2> DEFINE q == [req[r] EXCEPT !.at = "dispatch", !.target = name, !.input = input, !.arrived = day,
                                 !.cmd = [shape |-> Blank, id |-> input.id]]
  <2>2. req' = [req EXCEPT ![r] = Recognized(q)]
    BY <1>5, Zenon DEF ArriveRPC
  <2>3. /\ DOMAIN q = RouteFields /\ q.at = "dispatch" /\ q.loaded = {} /\ q.status = 0 /\ q.answer = Blank
        /\ q.notice = FALSE /\ q.version = Blank /\ q.route.path = Blank /\ q.cmd.shape = Blank
    BY <1>1, <2>1 DEF NoRequest, NoRoute, RouteFields
  <2> HIDE DEF q
  <2> DEFINE a == Recognized(q)
  <2>4. /\ DOMAIN a = RouteFields /\ a.at = "dispatch" /\ a.loaded = {} /\ a.status = 0 /\ a.answer = Blank
        /\ a.notice = FALSE /\ a.version = Blank /\ a.route.path = Blank /\ a.cmd.shape = Blank
        /\ a.target = q.target /\ a.input = q.input /\ a.replay = KnownEnd(q)
    BY <2>3 DEF Recognized, RouteFields
  <2>5. KnownEnd(a) = KnownEnd(q)
    BY <2>4 DEF KnownEnd, Fingerprint
  <2> HIDE DEF a
  <2>6. Arrived(a)
    BY <2>4, <2>5 DEF Arrived, ReadyToRead, Due, OfAVersion
  <2> QED BY <1>1, <2>1, <2>2, <2>6 DEF a
<1>6. ASSUME NEW route \in http.routes, NEW input \in Inputs, ArriveHTTP(r, route, input)
      PROVE  /\ UNCHANGED <<http, day, streams, spent, keyed>> /\ req[r] = NoRequest
             /\ DOMAIN req' = Requests /\ \A o \in Requests : o # r => req'[o] = req[o]
             /\ Arrived(req'[r])
  <2>1. req[r] = NoRequest /\ UNCHANGED <<http, day, streams, spent, keyed>>
    BY <1>6 DEF ArriveHTTP, IsNext, RoutesInv, Shaped
  <2>2. route.path # Blank
    BY NamesAssumption DEF RoutesInv, RoutesTypeOK
  <2> DEFINE q == [req[r] EXCEPT !.at = "caller", !.route = route, !.input = input, !.target = route.target,
                           !.arrived = day]
  <2>3. /\ DOMAIN q = RouteFields /\ q.at = "caller" /\ q.status = 0 /\ q.cmd = <<>> /\ q.loaded = {}
        /\ q.version = Blank /\ q.notice = FALSE /\ q.answer = Blank /\ q.arrived = day /\ q.route.path # Blank
    BY <1>1, <2>1, <2>2 DEF NoRequest, RouteFields
  <2>4. req' = [req EXCEPT ![r] = Recognized(Tenanted(Overridden(Gated(q))))]
    BY <1>6, Zenon DEF ArriveHTTP
  <2> HIDE DEF q
  <2>5. Arrived(Recognized(Tenanted(Overridden(Gated(q)))))
    BY <2>3, GatesPass
  <2> QED BY <1>1, <2>1, <2>4, <2>5
<1>7. CASE \E route \in http.routes, input \in Inputs : ArriveHTTP(r, route, input)
  BY <1>6, <1>7
<1>8. CASE \E name \in RPCs, input \in Inputs : ArriveRPC(r, name, input)
  BY <1>5, <1>8
<1> QED BY <1>7, <1>8

\* The window of a key ends: its requests are recognized no more, and nothing else changes.
LEMMA LapseKeeps ==
    ASSUME RoutesInv, NEW k \in DOMAIN keyed, Lapse(k)
    PROVE  /\ UNCHANGED <<http, day, streams, spent>> /\ keyed[k].end # Running
           /\ DOMAIN keyed' = DOMAIN keyed \ {k} /\ \A o \in DOMAIN keyed' : keyed'[o] = keyed[o]
           /\ DOMAIN req' = Requests
           /\ \A r \in Requests :
                /\ req'[r] = req[r] \/ (req[r].replay # Running /\ req'[r].replay = Running)
                /\ req'[r].replay # Running => req[r].input.key # k
                /\ DOMAIN req'[r] = RouteFields /\ (req'[r].at = "new" => req'[r] = NoRequest)
                /\ req'[r].at = req[r].at /\ req'[r].input = req[r].input /\ req'[r].route = req[r].route
                /\ req'[r].target = req[r].target /\ req'[r].version = req[r].version
                /\ req'[r].tenant = req[r].tenant /\ req'[r].cmd = req[r].cmd /\ req'[r].loaded = req[r].loaded
                /\ req'[r].answer = req[r].answer /\ req'[r].status = req[r].status
                /\ req'[r].arrived = req[r].arrived /\ req'[r].notice = req[r].notice
<1>1. /\ DOMAIN req = Requests
      /\ \A r \in Requests : DOMAIN req[r] = RouteFields /\ (req[r].at = "new" => req[r] = NoRequest)
  BY DEF RoutesInv, Shaped
<1>2. /\ UNCHANGED <<http, day, streams, spent>> /\ keyed[k].end # Running
      /\ keyed' = [o \in DOMAIN keyed \ {k} |-> keyed[o]]
      /\ req' = [r \in Requests |-> IF req[r].replay # Running /\ req[r].input.key = k
                                     THEN [req[r] EXCEPT !.replay = Running] ELSE req[r]]
  BY DEF Lapse
<1>3. NoRequest.replay = Running
  BY DEF NoRequest
<1> QED BY <1>1, <1>2, <1>3 DEF RouteFields

\* Charging never goes past the quota, and a refusal answers.
LEMMA ChargeFacts ==
    ASSUME RoutesInv, NEW r \in Requests, NEW next \in {"decode", "dispatch"}, req[r].at # "answered", Charge(r, next)
    PROVE  /\ spent' \in 0..RouteQuota /\ req'[r].status \in {0, 429}
           /\ (req'[r].at = "answered") <=> (req'[r].status # 0)
           /\ req'[r].at \in {next, "answered"} /\ req'[r].cmd = req[r].cmd /\ req'[r].loaded = req[r].loaded
<1>1. DOMAIN req = Requests /\ DOMAIN req[r] = RouteFields
  BY DEF RoutesInv, Shaped
<1>2. req[r].status = 0 /\ spent \in 0..RouteQuota
  BY DEF RoutesInv, RoutesTypeOK
<1>3. CASE Limited(r) /\ spent >= RouteQuota
  BY <1>1, <1>2, <1>3 DEF Charge, Responds, RouteFields
<1>4. CASE ~(Limited(r) /\ spent >= RouteQuota)
  <2>1. Goes(r, next) /\ spent' = IF Limited(r) THEN spent + 1 ELSE spent
    BY <1>4 DEF Charge
  <2>2. spent' \in 0..RouteQuota
    BY <1>2, <1>4, <2>1, RouteBoundsAssumption
  <2> QED BY <1>1, <1>2, <2>1, <2>2 DEF Goes, RouteFields
<1> QED BY <1>3, <1>4

\* The end of a run: what it answers, and what its key remembers.
LEMMA EndFacts ==
    ASSUME RoutesInv, NEW r \in Requests, NEW code \in {204, 403, 404, 422, 503}, Ends(r, code)
    PROVE  /\ req'[r].at = "answered" /\ req'[r].status = code
           /\ req'[r].cmd = req[r].cmd /\ req'[r].loaded = req[r].loaded
           /\ \A k \in DOMAIN keyed' : k \in DOMAIN keyed /\ DOMAIN keyed'[k] = {"print", "end"}
           /\ \A k \in DOMAIN keyed' : keyed'[k].end \in {Running, 204, 403, 404, 422}
           /\ \A k \in DOMAIN keyed : k # req[r].input.key \/ ~Claims(r) => k \in DOMAIN keyed' /\ keyed'[k] = keyed[k]
<1>1. DOMAIN req = Requests /\ DOMAIN req[r] = RouteFields
  BY DEF RoutesInv, Shaped
<1>2. \A k \in DOMAIN keyed : keyed[k].end \in {Running, 204, 403, 404, 422} /\ DOMAIN keyed[k] = {"print", "end"}
  BY DEF RoutesInv, RoutesTypeOK, Shaped
<1>3. /\ req'[r].at = "answered" /\ req'[r].status = code
      /\ req'[r].cmd = req[r].cmd /\ req'[r].loaded = req[r].loaded
  BY <1>1 DEF Ends, Responds, RouteFields
<1>4. keyed' = IF ~Claims(r) THEN keyed
               ELSE IF code = 503 THEN [k \in DOMAIN keyed \ {req[r].input.key} |-> keyed[k]]
               ELSE [keyed EXCEPT ![req[r].input.key].end = code]
  BY DEF Ends
<1>5. CASE ~Claims(r)
  BY <1>2, <1>3, <1>4, <1>5
<1>6. CASE Claims(r) /\ code = 503
  BY <1>2, <1>3, <1>4, <1>6
<1>7. CASE Claims(r) /\ code # 503
  BY <1>2, <1>3, <1>4, <1>7
<1> QED BY <1>5, <1>6, <1>7

\* What a step does to its request, the quota, the keys and the streams.
LEMMA StepTypes ==
    ASSUME RoutesInv, NEW r \in Requests, RouteStep(r)
    PROVE  /\ spent' \in 0..RouteQuota
           /\ req'[r].status \in {0, 200, 204, 400, 403, 404, 409, 410, 422, 429, 503}
           /\ (req'[r].at = "answered") <=> (req'[r].status # 0)
           /\ req'[r].status # 410
           /\ \A k \in DOMAIN keyed' : keyed'[k].end \in {Running, 204, 403, 404, 422} /\ DOMAIN keyed'[k] = {"print", "end"}
           /\ \A s \in DOMAIN streams' : streams'[s].events \in SUBSET Requests
           /\ DecodeBody(r) \/ req'[r].cmd = req[r].cmd
           /\ req'[r].at = "decode" => req[r].at = "limit"
<1>1. DOMAIN req = Requests /\ DOMAIN req[r] = RouteFields
  BY DEF RoutesInv, Shaped
<1>2. /\ req[r].at # "answered" /\ spent \in 0..RouteQuota
      /\ req[r].at # "answered" => req[r].status = 0
      /\ \A k \in DOMAIN keyed : keyed[k].end \in {Running, 204, 403, 404, 422} /\ DOMAIN keyed[k] = {"print", "end"}
      /\ \A s \in DOMAIN streams : streams[s].events \in SUBSET Requests
  BY StepKeeps DEF RoutesInv, RoutesTypeOK, Shaped
<1>3. CASE LimitFirst(r)
  <2>1. req[r].at = "limit" /\ UNCHANGED <<streams, keyed>>
    BY <1>3 DEF LimitFirst
  <2>2. CASE Charge(r, "decode")
    BY <1>2, <2>1, <2>2, ChargeFacts
  <2>3. CASE Goes(r, "decode") /\ UNCHANGED spent
    BY <1>1, <1>2, <2>1, <2>3 DEF Goes, RouteFields
  <2> QED BY <1>3, <2>2, <2>3 DEF LimitFirst
<1>4. CASE DecodeBody(r)
  BY <1>1, <1>2, <1>4 DEF DecodeBody, Responds, RouteFields
<1>5. CASE LimitUnlessReplay(r)
  <2>1. UNCHANGED <<streams, keyed>>
    BY <1>5 DEF LimitUnlessReplay
  <2>2. CASE Charge(r, "dispatch")
    BY <1>2, <2>1, <2>2, ChargeFacts
  <2>3. CASE req' = [req EXCEPT ![r].at = "dispatch", ![r].replay = KnownEnd(req[r])] /\ UNCHANGED spent
    BY <1>1, <1>2, <2>1, <2>3 DEF RouteFields
  <2> QED BY <1>5, <2>2, <2>3 DEF LimitUnlessReplay
<1>6. CASE Dispatch(r)
  <2>1. UNCHANGED <<streams, spent>>
    BY <1>6 DEF Dispatch
  <2>2. CASE Goes(r, "load") /\ UNCHANGED keyed
    BY <1>1, <1>2, <2>1, <2>2 DEF Goes, RouteFields
  <2>3. CASE Goes(r, "load") /\ keyed' = [k \in DOMAIN keyed \union {req[r].input.key} |->
                 IF k = req[r].input.key THEN [print |-> Fingerprint(req[r]), end |-> Running] ELSE keyed[k]]
    BY <1>1, <1>2, <2>1, <2>3 DEF Goes, RouteFields
  <2>4. ASSUME NEW code \in {204, 403, 404, 409, 422}, Responds(r, code), UNCHANGED keyed
        PROVE  /\ req'[r].status = code /\ req'[r].at = "answered" /\ req'[r].cmd = req[r].cmd
    BY <1>1, <2>4 DEF Responds, RouteFields
  <2>5. ASSUME req[r].input.key \in DOMAIN keyed
        PROVE  HeldKeyAnswers(keyed[req[r].input.key], Fingerprint(req[r])) \in {204, 403, 404, 409, 422}
    BY <1>2, <2>5 DEF HeldKeyAnswers, Running
  <2>6. CASE UNCHANGED keyed /\ \E code \in {204, 403, 404, 409, 422} : Responds(r, code)
    BY <1>2, <2>1, <2>4, <2>6
  <2> QED BY <1>6, <2>2, <2>3, <2>5, <2>6 DEF Dispatch
<1>7. CASE Load(r)
  <2>1. UNCHANGED <<streams, spent>>
    BY <1>7 DEF Load
  <2>2. CASE Ends(r, 404)
    BY <1>2, <2>1, <2>2, EndFacts
  <2>3. CASE ~Ends(r, 404)
    BY <1>1, <1>2, <1>7, <2>1, <2>3 DEF Load, RouteFields
  <2> QED BY <2>2, <2>3
<1>8. CASE CommitAppend(r)
  <2>1. /\ Ends(r, 204) /\ UNCHANGED spent
    BY <1>8 DEF CommitAppend
  <2>2. \A s \in DOMAIN streams' : streams'[s].events \in SUBSET Requests
    BY <1>2, <1>8 DEF CommitAppend
  <2> QED BY <1>2, <2>1, <2>2, EndFacts
<1>9. CASE \E code \in {403, 422, 503} : BodyFails(r, code)
  <2>1. PICK code \in {403, 422, 503} : Ends(r, code)
    BY <1>9 DEF BodyFails
  <2>2. UNCHANGED <<streams, spent>>
    BY <1>9 DEF BodyFails
  <2> QED BY <1>2, <2>1, <2>2, EndFacts
<1> QED BY <1>3, <1>4, <1>5, <1>6, <1>7, <1>8, <1>9 DEF RouteStep

\* The types, and every request in its shape.
LEMMA RoutesTypesNext ==
    ASSUME RoutesInv, RoutesNext
    PROVE  RoutesTypeOK' /\ Shaped'
<1> USE DEF RoutesInv
<1>1. ASSUME NEW r \in Requests, RouteStep(r) PROVE RoutesTypeOK' /\ Shaped'
  <2>1. Shaped'
    BY <1>1, StepKeeps, StepTypes DEF Shaped
  <2>2. RoutesTypeOK'
    BY <1>1, StepKeeps, StepTypes DEF RoutesTypeOK
  <2> QED BY <2>1, <2>2
<1>2. ASSUME NEW r \in Requests,
             \/ \E route \in http.routes, input \in Inputs : ArriveHTTP(r, route, input)
             \/ \E name \in RPCs, input \in Inputs : ArriveRPC(r, name, input)
      PROVE  RoutesTypeOK' /\ Shaped'
  <2>1. /\ UNCHANGED <<http, day, streams, spent, keyed>> /\ DOMAIN req' = Requests
        /\ \A o \in Requests : o # r => req'[o] = req[o]
        /\ DOMAIN req'[r] = RouteFields /\ req'[r].at # "new" /\ req'[r].status \in {0, 400, 410}
        /\ (req'[r].at = "answered") <=> (req'[r].status # 0)
    BY <1>2, ArriveKeeps DEF Arrived
  <2> QED BY <2>1 DEF Shaped, RoutesTypeOK
<1>3. CASE NextDay
  BY <1>3, RouteBoundsAssumption DEF NextDay, RoutesTypeOK, Shaped
<1>4. ASSUME NEW k \in DOMAIN keyed, Lapse(k) PROVE RoutesTypeOK' /\ Shaped'
  <2>1. /\ UNCHANGED <<http, day, streams, spent>>
        /\ DOMAIN keyed' = DOMAIN keyed \ {k} /\ \A o \in DOMAIN keyed' : keyed'[o] = keyed[o]
        /\ DOMAIN req' = Requests
        /\ \A r \in Requests : /\ DOMAIN req'[r] = RouteFields /\ (req'[r].at = "new" => req'[r] = NoRequest)
                               /\ req'[r].at = req[r].at /\ req'[r].status = req[r].status
    BY <1>4, LapseKeeps
  <2>2. RoutesTypeOK'
    BY <2>1 DEF RoutesTypeOK
  <2>3. \A o \in DOMAIN keyed' : DOMAIN keyed'[o] = {"print", "end"}
    BY <2>1 DEF Shaped
  <2> QED BY <2>1, <2>2, <2>3 DEF Shaped
<1> QED BY <1>1, <1>2, <1>3, <1>4 DEF RoutesNext

\* What a request was told of its version when it arrived is what it is answered.
LEMMA LifecyclesNext ==
    ASSUME RoutesInv, RoutesNext
    PROVE  LifecyclesAreKept'
<1> USE DEF RoutesInv
<1> DEFINE Kept(q) == /\ (q.status = 410) <=> Due(q, "sunset")
                      /\ q.notice <=> (Due(q, "deprecated") /\ ~Due(q, "sunset"))
<1>a. \A r \in Requests : Kept(req[r])
  BY DEF LifecyclesAreKept
<1>b. ASSUME UNCHANGED http, NEW r \in Requests, req'[r].input = req[r].input, req'[r].route = req[r].route,
             req'[r].arrived = req[r].arrived
      PROVE  \A field : Due(req[r], field)' = Due(req[r], field)
  BY <1>b DEF Due, OfAVersion, Versioned, ResolvedVersion
<1>c. ASSUME UNCHANGED http, NEW r \in Requests, req'[r].input = req[r].input, req'[r].route = req[r].route,
             req'[r].arrived = req[r].arrived, req'[r].notice = req[r].notice,
             (req'[r].status = 410) <=> (req[r].status = 410)
      PROVE  Kept(req[r])'
  <2>1. \A field : Due(req[r], field)' = Due(req[r], field)
    BY <1>b, <1>c
  <2> QED BY <1>a, <1>c, <2>1
<1>1. ASSUME NEW r \in Requests, RouteStep(r) PROVE \A o \in Requests : Kept(req[o])'
  <2>1. req[r].status # 410 /\ req'[r].status # 410
    BY <1>1, StepKeeps, StepTypes DEF RoutesTypeOK
  <2>2. UNCHANGED http /\ \A o \in Requests : o # r => req'[o] = req[o]
    BY <1>1, StepKeeps
  <2>3. /\ req'[r].input = req[r].input /\ req'[r].route = req[r].route /\ req'[r].arrived = req[r].arrived
        /\ req'[r].notice = req[r].notice
    BY <1>1, StepKeeps
  <2> HIDE DEF Kept
  <2> QED BY <1>c, <2>1, <2>2, <2>3
<1>2. ASSUME NEW r \in Requests,
             \/ \E route \in http.routes, input \in Inputs : ArriveHTTP(r, route, input)
             \/ \E name \in RPCs, input \in Inputs : ArriveRPC(r, name, input)
      PROVE  \A o \in Requests : Kept(req[o])'
  <2>1. /\ UNCHANGED http /\ \A o \in Requests : o # r => req'[o] = req[o]
        /\ (req'[r].status = 410) <=> Due(req'[r], "sunset")
        /\ req'[r].notice <=> (Due(req'[r], "deprecated") /\ ~Due(req'[r], "sunset"))
    BY <1>2, ArriveKeeps DEF Arrived
  <2>2. \A field : Due(req[r], field)' = Due(req'[r], field)
    BY <2>1 DEF Due, OfAVersion, Versioned, ResolvedVersion
  <2>3. Kept(req[r])'
    BY <2>1, <2>2
  <2> HIDE DEF Kept
  <2> QED BY <1>c, <2>1, <2>3
<1>3. ASSUME NextDay PROVE \A o \in Requests : Kept(req[o])'
  <2>1. UNCHANGED <<http, req>>
    BY <1>3 DEF NextDay
  <2> HIDE DEF Kept
  <2> QED BY <1>c, <2>1
<1>4. ASSUME NEW k \in DOMAIN keyed, Lapse(k) PROVE \A o \in Requests : Kept(req[o])'
  <2>1. /\ UNCHANGED http
        /\ \A o \in Requests : /\ req'[o].input = req[o].input /\ req'[o].route = req[o].route
                               /\ req'[o].arrived = req[o].arrived /\ req'[o].notice = req[o].notice
                               /\ req'[o].status = req[o].status
    BY <1>4, LapseKeeps
  <2> HIDE DEF Kept
  <2> QED BY <1>c, <2>1
<1>5. \A o \in Requests : Kept(req[o])'
  BY <1>1, <1>2, <1>3, <1>4 DEF RoutesNext
<1> QED BY <1>5 DEF LifecyclesAreKept

\* What a decode makes of a body is what the version asks for.
LEMMA DecodeReads ==
    ASSUME RoutesInv, NEW r \in Requests, DecodeBody(r)
    PROVE  \/ req'[r].cmd = req[r].cmd
           \/ req'[r].cmd.shape \in {Blank, "zero"}
           \/ LET v == ResolvedVersion(req[r].input) IN
              req'[r].cmd.shape = IF /\ Versioned /\ v \in DOMAIN http.versions
                                     /\ req[r].route.path \notin DOMAIN http.versions[v].routes
                                     /\ UseCases[req[r].target].command \in http.versions[v].upcasts
                                  THEN v ELSE "current"
<1>1. /\ DOMAIN req = Requests /\ DOMAIN req[r] = RouteFields /\ ReadyToRead(req[r]) /\ req[r].at = "decode"
  BY DEF RoutesInv, Shaped, DecodeBody
<1> DEFINE usecase == TargetKind(req[r].target) = "usecase"
           decoded == BodyDecoded(ShapeFor(r), req[r].input)
<1>2. \/ req'[r].cmd = req[r].cmd
      \/ req'[r].cmd = IF usecase THEN decoded ELSE [shape |-> Blank, id |-> req[r].input.id]
  BY <1>1 DEF DecodeBody, Responds, RouteFields
<1>3. decoded.shape = "zero" \/ decoded.shape = ShapeFor(r)
  BY DEF BodyDecoded
<1> HIDE DEF decoded
<1>4. CASE req'[r].cmd = req[r].cmd
  BY <1>4
<1>5. CASE req'[r].cmd = [shape |-> Blank, id |-> req[r].input.id]
  BY <1>5
<1>6. CASE req'[r].cmd = decoded
  <2>1. Versioned => /\ req[r].version = ResolvedVersion(req[r].input)
                     /\ req[r].version \in DOMAIN http.versions =>
                          req[r].route.path \notin DOMAIN http.versions[req[r].version].routes
    BY <1>1 DEF ReadyToRead
  <2>2. ShapeFor(r) = LET v == ResolvedVersion(req[r].input) IN
                      IF /\ Versioned /\ v \in DOMAIN http.versions
                         /\ req[r].route.path \notin DOMAIN http.versions[v].routes
                         /\ UseCases[req[r].target].command \in http.versions[v].upcasts
                      THEN v ELSE "current"
    BY <2>1 DEF ShapeFor, UpcastVersions
  <2> QED BY <1>3, <1>6, <2>2
<1> QED BY <1>2, <1>4, <1>5, <1>6

\* A body stays as it was read.
LEMMA BodyNext ==
    ASSUME RoutesInv, RoutesNext
    PROVE  BodyIsReadInItsVersion' /\ \A r \in Requests : ReadyToRead(req[r])'
<1> USE DEF RoutesInv
<1>a. BodyIsReadInItsVersion = \A r \in Requests : ReadRightly(req[r])
  BY DEF BodyIsReadInItsVersion, ReadRightly
<1>b. BodyIsReadInItsVersion' = \A r \in Requests : ReadRightly(req[r])'
  BY DEF BodyIsReadInItsVersion, ReadRightly
<1>c. ASSUME UNCHANGED http, NEW r \in Requests, req'[r] = req[r]
      PROVE  ReadRightly(req[r])' /\ ReadyToRead(req[r])'
  BY <1>a, <1>c DEF ReadRightly, ReadyToRead, Versioned, ResolvedVersion
<1>d. ASSUME UNCHANGED http, NEW r \in Requests, req'[r].at = req[r].at, req'[r].version = req[r].version,
             req'[r].input = req[r].input, req'[r].route = req[r].route, req'[r].target = req[r].target,
             req'[r].cmd = req[r].cmd
      PROVE  ReadRightly(req[r])' /\ ReadyToRead(req[r])'
  BY <1>a, <1>d DEF ReadRightly, ReadyToRead, Versioned, ResolvedVersion
<1>1. ASSUME NEW r \in Requests, RouteStep(r)
      PROVE  BodyIsReadInItsVersion' /\ \A o \in Requests : ReadyToRead(req[o])'
  <2>1. /\ UNCHANGED http /\ \A o \in Requests : o # r => req'[o] = req[o]
        /\ req'[r].input = req[r].input /\ req'[r].route = req[r].route /\ req'[r].target = req[r].target
        /\ req'[r].version = req[r].version
        /\ req'[r].at \in {"decode", "peek", "dispatch", "load", "append", "answered"}
    BY <1>1, StepKeeps
  <2>2. req'[r].at = "decode" => req[r].at = "limit"
    BY <1>1, StepTypes
  <2>3. ReadyToRead(req[r])'
    <3>1. req[r].at \notin {"new", "answered"} /\ ReadyToRead(req[r])
      BY <1>1, StepKeeps
    <3>2. req[r].version = IF Versioned /\ req[r].route.path # Blank THEN ResolvedVersion(req[r].input) ELSE Blank
      BY <3>1 DEF ReadyToRead
    <3>3. req[r].at = "limit" /\ Versioned =>
             /\ req[r].version = ResolvedVersion(req[r].input)
             /\ req[r].version \in DOMAIN http.versions =>
                  req[r].route.path \notin DOMAIN http.versions[req[r].version].routes
      BY <3>1 DEF ReadyToRead
    <3> QED BY <2>1, <2>2, <3>2, <3>3 DEF ReadyToRead, Versioned, ResolvedVersion
  <2>4. \A o \in Requests : o # r => ReadRightly(req[o])' /\ ReadyToRead(req[o])'
    BY <1>c, <2>1
  <2>5. \/ req'[r].cmd = req[r].cmd
        \/ req'[r].cmd.shape \in {Blank, "zero"}
        \/ LET v == ResolvedVersion(req[r].input) IN
           req'[r].cmd.shape = IF /\ Versioned /\ v \in DOMAIN http.versions
                                  /\ req[r].route.path \notin DOMAIN http.versions[v].routes
                                  /\ UseCases[req[r].target].command \in http.versions[v].upcasts
                               THEN v ELSE "current"
    BY <1>1, StepTypes, DecodeReads
  <2>6. ReadRightly(req[r])'
    <3>1. CASE req'[r].cmd = req[r].cmd
      BY <1>a, <2>1, <3>1 DEF ReadRightly, Versioned, ResolvedVersion
    <3>2. CASE req'[r].cmd.shape \in {Blank, "zero"}
      BY <3>2 DEF ReadRightly
    <3>3. CASE ~(req'[r].cmd = req[r].cmd \/ req'[r].cmd.shape \in {Blank, "zero"})
      BY <2>1, <2>5, <3>3 DEF ReadRightly, Versioned, ResolvedVersion
    <3> QED BY <3>1, <3>2, <3>3
  <2> QED BY <1>b, <2>3, <2>4, <2>6
<1>2. ASSUME NEW r \in Requests,
             \/ \E route \in http.routes, input \in Inputs : ArriveHTTP(r, route, input)
             \/ \E name \in RPCs, input \in Inputs : ArriveRPC(r, name, input)
      PROVE  BodyIsReadInItsVersion' /\ \A o \in Requests : ReadyToRead(req[o])'
  <2>1. /\ UNCHANGED http /\ \A o \in Requests : o # r => req'[o] = req[o]
        /\ ReadyToRead(req'[r])
        /\ \/ req'[r].cmd = <<>> \/ req'[r].cmd.shape \in {Blank, "zero"}
           \/ /\ req'[r].cmd.shape = "current" /\ ResolvedVersion(req'[r].input) \in DOMAIN http.versions
              /\ req'[r].route.path \in DOMAIN http.versions[ResolvedVersion(req'[r].input)].routes
    BY <1>2, ArriveKeeps DEF Arrived
  <2>2. \A o \in Requests : o # r => ReadRightly(req[o])' /\ ReadyToRead(req[o])'
    BY <1>c, <2>1
  <2>3. ReadyToRead(req[r])'
    BY <2>1 DEF ReadyToRead, Versioned, ResolvedVersion
  <2>4. ReadRightly(req[r])'
    BY <2>1 DEF ReadRightly, Versioned, ResolvedVersion
  <2> QED BY <1>b, <2>2, <2>3, <2>4
<1>3. CASE NextDay
  BY <1>b, <1>c, <1>3 DEF NextDay
<1>4. ASSUME NEW k \in DOMAIN keyed, Lapse(k)
      PROVE  BodyIsReadInItsVersion' /\ \A o \in Requests : ReadyToRead(req[o])'
  BY <1>b, <1>d, <1>4, LapseKeeps
<1> QED BY <1>1, <1>2, <1>3, <1>4 DEF RoutesNext

\* An answer speaks the version its request brought along.
LEMMA AnswersNext ==
    ASSUME RoutesInv, RoutesNext
    PROVE  AnswersSpeakTheirVersion'
<1> USE DEF RoutesInv
<1> DEFINE Speaks(q) ==
             q.answer # Blank =>
                 q.answer = IF /\ OfAVersion(q)
                               /\ RouteQueries[q.target].view \in http.versions[ResolvedVersion(q.input)].downcasts
                            THEN ResolvedVersion(q.input) ELSE "current"
<1>a. \A r \in Requests : Speaks(req[r])
  BY DEF AnswersSpeakTheirVersion
<1>b. ASSUME UNCHANGED http, NEW r \in Requests, req'[r].input = req[r].input, req'[r].route = req[r].route,
             req'[r].target = req[r].target, req'[r].answer = req[r].answer
      PROVE  Speaks(req[r])'
  BY <1>a, <1>b DEF OfAVersion, Versioned, ResolvedVersion
<1>1. ASSUME NEW r \in Requests, RouteStep(r) PROVE \A o \in Requests : Speaks(req[o])'
  <2>1. /\ UNCHANGED http /\ \A o \in Requests : o # r => req'[o] = req[o]
        /\ req'[r].input = req[r].input /\ req'[r].route = req[r].route /\ req'[r].target = req[r].target
        /\ Load(r) \/ req'[r].answer = req[r].answer
    BY <1>1, StepKeeps
  <2>2. CASE req'[r].answer = req[r].answer
    <3> HIDE DEF Speaks
    <3> QED BY <1>b, <2>1, <2>2
  <2>3. CASE Load(r) /\ req'[r].answer # req[r].answer
    <3>1. DOMAIN req = Requests /\ DOMAIN req[r] = RouteFields /\ req[r].at = "load" /\ ReadyToRead(req[r])
      BY <2>3 DEF Shaped, Load
    <3>2. ~Ends(r, 404)
      BY <2>3, <3>1 DEF Ends, Responds, RouteFields
    <3>3. req'[r].answer \in {AnswerFor(r), Blank}
      BY <2>3, <3>1, <3>2 DEF Load, RouteFields
    <3>4. req[r].version = IF Versioned /\ req[r].route.path # Blank THEN ResolvedVersion(req[r].input) ELSE Blank
      BY <3>1 DEF ReadyToRead
    <3>5. Blank \notin DOMAIN http.versions
      BY NamesAssumption DEF RoutesTypeOK
    <3>6. AnswerFor(r) = IF /\ OfAVersion(req[r])
                            /\ RouteQueries[req[r].target].view \in http.versions[ResolvedVersion(req[r].input)].downcasts
                         THEN ResolvedVersion(req[r].input) ELSE "current"
      BY <3>4, <3>5 DEF AnswerFor, DowncastVersions, OfAVersion
    <3>7. Speaks(req[r])'
      BY <2>1, <3>3, <3>6 DEF OfAVersion, Versioned, ResolvedVersion
    <3> HIDE DEF Speaks
    <3> QED BY <1>b, <2>1, <3>7
  <2> QED BY <2>1, <2>2, <2>3
<1>2. ASSUME NEW r \in Requests,
             \/ \E route \in http.routes, input \in Inputs : ArriveHTTP(r, route, input)
             \/ \E name \in RPCs, input \in Inputs : ArriveRPC(r, name, input)
      PROVE  \A o \in Requests : Speaks(req[o])'
  <2>1. UNCHANGED http /\ \A o \in Requests : o # r => req'[o] = req[o]
    BY <1>2, ArriveKeeps
  <2>2. req'[r].answer = Blank
    BY <1>2, ArriveKeeps DEF Arrived
  <2>3. Speaks(req[r])'
    BY <2>2
  <2> HIDE DEF Speaks
  <2> QED BY <1>b, <2>1, <2>3
<1>3. ASSUME NextDay PROVE \A o \in Requests : Speaks(req[o])'
  <2>1. UNCHANGED <<http, req>>
    BY <1>3 DEF NextDay
  <2> HIDE DEF Speaks
  <2> QED BY <1>b, <2>1
<1>4. ASSUME NEW k \in DOMAIN keyed, Lapse(k) PROVE \A o \in Requests : Speaks(req[o])'
  <2>1. /\ UNCHANGED http
        /\ \A o \in Requests : /\ req'[o].input = req[o].input /\ req'[o].route = req[o].route
                               /\ req'[o].target = req[o].target /\ req'[o].answer = req[o].answer
    BY <1>4, LapseKeeps
  <2> HIDE DEF Speaks
  <2> QED BY <1>b, <2>1
<1>5. \A o \in Requests : Speaks(req[o])'
  BY <1>1, <1>2, <1>3, <1>4 DEF RoutesNext
<1> QED BY <1>5 DEF AnswersSpeakTheirVersion

\* Only the run that holds a key ends it, and an end that is known lasts as its window does.
LEMMA KeysNext ==
    ASSUME RoutesInv, RoutesNext
    PROVE  KeysAreHeld'
<1> USE DEF RoutesInv
<1>a. /\ \A o \in Requests : Holds(o) => req[o].input.key \in DOMAIN keyed /\ keyed[req[o].input.key].end = Running
      /\ \A u, o \in Requests : Holds(u) /\ Holds(o) /\ req[u].input.key = req[o].input.key => u = o
      /\ \A o \in Requests : req[o].replay # Running => KnownEnd(req[o]) = req[o].replay
  BY DEF KeysAreHeld
<1>k. ASSUME NEW q, KnownEnd(q) # Running
      PROVE  /\ q.input.key \in DOMAIN keyed /\ keyed[q.input.key].end # Running
             /\ q.input.key \in DOMAIN keyed' /\ keyed'[q.input.key] = keyed[q.input.key] =>
                   \A p : p.input = q.input /\ p.target = q.target => KnownEnd(p)' = KnownEnd(q)
  BY <1>k DEF KnownEnd, Fingerprint
<1>1. ASSUME NEW r \in Requests, RouteStep(r) PROVE KeysAreHeld'
  <2> DEFINE key == req[r].input.key
  <2>1. /\ \A o \in Requests : o # r => req'[o] = req[o]
        /\ \A o \in Requests : req'[o].input = req[o].input /\ req'[o].target = req[o].target
        /\ \A o \in Requests : req'[o].replay \in {req[o].replay, KnownEnd(req[o])}
        /\ DOMAIN req' = Requests
    BY <1>1, StepKeeps
  <2>2. /\ \A o \in Requests : Claims(o)' = Claims(o)
        /\ \A o \in Requests : o # r => Holds(o)' = Holds(o)
    BY <2>1 DEF Claims, Idempotent, Holds
  <2>k. ASSUME \A k \in DOMAIN keyed : keyed[k].end # Running => k \in DOMAIN keyed' /\ keyed'[k] = keyed[k]
        PROVE  \A o \in Requests : req'[o].replay # Running => KnownEnd(req[o])' = req'[o].replay
    <3> SUFFICES ASSUME NEW o \in Requests, req'[o].replay # Running PROVE KnownEnd(req[o])' = req'[o].replay
      OBVIOUS
    <3>1. KnownEnd(req[o]) # Running /\ req'[o].replay = KnownEnd(req[o])
      BY <1>a, <2>1
    <3> QED BY <1>k, <2>1, <2>k, <3>1
  <2>3. CASE UNCHANGED keyed /\ (Holds(r)' => Holds(r))
    <3>1. \A o \in Requests : req'[o].replay # Running => KnownEnd(req[o])' = req'[o].replay
      BY <2>3, <2>k
    <3> QED BY <1>a, <2>1, <2>2, <2>3, <3>1 DEF KeysAreHeld
  <2>4. CASE Dispatch(r) /\ Claims(r) /\ key \notin DOMAIN keyed
    <3>1. keyed' = [k \in DOMAIN keyed \union {key} |->
                      IF k = key THEN [print |-> Fingerprint(req[r]), end |-> Running] ELSE keyed[k]]
      BY <2>4 DEF Dispatch, MissesItsKey, Claims
    <3>2. \A o \in Requests : Holds(o) => req[o].input.key # key
      BY <1>a, <2>4
    <3> HIDE DEF key
    <3>5. /\ key \in DOMAIN keyed' /\ keyed'[key].end = Running
          /\ \A k \in DOMAIN keyed : k \in DOMAIN keyed' /\ (k # key => keyed'[k] = keyed[k])
      BY <3>1
    <3>6. req[r].input.key = key
      BY DEF key
    <3>7. \A o \in Requests : Holds(o)' => req'[o].input.key \in DOMAIN keyed' /\ keyed'[req'[o].input.key].end = Running
      BY <1>a, <2>1, <2>2, <3>2, <3>5, <3>6
    <3>8. \A u, o \in Requests : Holds(u)' /\ Holds(o)' /\ req'[u].input.key = req'[o].input.key => u = o
      BY <1>a, <2>1, <2>2, <3>2, <3>6
    <3>9. \A o \in Requests : req'[o].replay # Running => KnownEnd(req[o])' = req'[o].replay
      BY <2>4, <2>k, <3>5, <3>6 DEF key
    <3> QED BY <3>7, <3>8, <3>9 DEF KeysAreHeld
  <2>5. CASE \E code \in {204, 403, 404, 422, 503} : Ends(r, code) /\ Holds(r)
    <3>1. PICK code \in {204, 403, 404, 422, 503} : Ends(r, code)
      BY <2>5
    <3>2. ~Holds(r)' /\ \A k \in DOMAIN keyed : k # key => k \in DOMAIN keyed' /\ keyed'[k] = keyed[k]
      BY <3>1, EndFacts DEF Holds
    <3>3. \A o \in Requests : o # r /\ Holds(o) => req[o].input.key # key
      BY <1>a, <2>5
    <3>4. keyed[key].end = Running
      BY <1>a, <2>5
    <3>5. \A o \in Requests : req'[o].replay # Running => KnownEnd(req[o])' = req'[o].replay
      BY <2>k, <3>2, <3>4
    <3> QED BY <1>a, <2>1, <2>2, <3>2, <3>3, <3>5 DEF KeysAreHeld
  <2>6. CASE \E code \in {204, 403, 404, 422, 503} : Ends(r, code) /\ ~Claims(r)
    <3>1. UNCHANGED keyed /\ ~Holds(r)'
      BY <2>2, <2>6 DEF Ends, Holds
    <3> QED BY <2>3, <3>1
  <2>7. DOMAIN req = Requests /\ DOMAIN req[r] = RouteFields
    BY DEF Shaped
  <2>8. \/ UNCHANGED keyed /\ (Holds(r)' => Holds(r))
        \/ Dispatch(r) /\ Claims(r) /\ key \notin DOMAIN keyed
        \/ \E code \in {204, 403, 404, 422, 503} : Ends(r, code) /\ req[r].at \in {"load", "append"}
    <3>1. CASE LimitFirst(r) \/ DecodeBody(r) \/ LimitUnlessReplay(r)
      BY <2>7, <3>1 DEF LimitFirst, DecodeBody, LimitUnlessReplay, Charge, Goes, Responds, Holds, RouteFields
    <3>2. CASE Dispatch(r)
      <4>1. CASE MissesItsKey(r) \/ ~Claims(r)
        <5>1. UNCHANGED keyed /\ ~Claims(r)
          BY <3>2, <4>1 DEF Dispatch, MissesItsKey, Claims
        <5> QED BY <2>2, <5>1 DEF Holds
      <4>2. CASE ~MissesItsKey(r) /\ Claims(r) /\ key \in DOMAIN keyed
        <5>1. UNCHANGED keyed /\ req'[r].at = "answered"
          BY <2>7, <3>2, <4>2 DEF Dispatch, Responds, RouteFields
        <5> QED BY <5>1 DEF Holds
      <4> QED BY <3>2, <4>1, <4>2
    <3>3. CASE Load(r)
      <4>1. CASE Ends(r, 404)
        BY <3>3, <4>1 DEF Load
      <4>2. CASE ~Ends(r, 404)
        <5>1. UNCHANGED keyed /\ req[r].at = "load"
          BY <3>3, <4>2 DEF Load
        <5> QED BY <2>2, <5>1 DEF Holds
      <4> QED BY <4>1, <4>2
    <3>4. CASE CommitAppend(r)
      BY <3>4 DEF CommitAppend
    <3>5. CASE \E code \in {403, 422, 503} : BodyFails(r, code)
      BY <3>5 DEF BodyFails
    <3> QED BY <1>1, <3>1, <3>2, <3>3, <3>4, <3>5 DEF RouteStep
  <2>9. CASE \E code \in {204, 403, 404, 422, 503} : Ends(r, code) /\ req[r].at \in {"load", "append"}
    BY <2>5, <2>6, <2>9 DEF Holds
  <2> QED BY <2>3, <2>4, <2>8, <2>9
<1>2. ASSUME NEW r \in Requests,
             \/ \E route \in http.routes, input \in Inputs : ArriveHTTP(r, route, input)
             \/ \E name \in RPCs, input \in Inputs : ArriveRPC(r, name, input)
      PROVE  KeysAreHeld'
  <2>1. /\ UNCHANGED keyed /\ \A o \in Requests : o # r => req'[o] = req[o]
        /\ req'[r].at \in {"answered", "dispatch", "limit"} /\ req'[r].replay = KnownEnd(req'[r])
    BY <1>2, ArriveKeeps DEF Arrived
  <2>2. ~Holds(r)' /\ \A o \in Requests : o # r => Holds(o)' = Holds(o)
    BY <2>1 DEF Holds, Claims, Idempotent
  <2>3. \A q : KnownEnd(q)' = KnownEnd(q)
    BY <2>1 DEF KnownEnd, Fingerprint
  <2>4. \A o \in Requests : req'[o].replay # Running => KnownEnd(req[o])' = req'[o].replay
    BY <1>a, <2>1, <2>3
  <2> QED BY <1>a, <2>1, <2>2, <2>4 DEF KeysAreHeld
<1>3. CASE NextDay
  BY <1>3 DEF NextDay, KeysAreHeld, Holds, Claims, Idempotent, KnownEnd, Fingerprint
<1>4. ASSUME NEW k \in DOMAIN keyed, Lapse(k) PROVE KeysAreHeld'
  <2>1. /\ keyed[k].end # Running /\ DOMAIN keyed' = DOMAIN keyed \ {k}
        /\ \A o \in DOMAIN keyed' : keyed'[o] = keyed[o]
        /\ \A o \in Requests :
             /\ req'[o] = req[o] \/ (req[o].replay # Running /\ req'[o].replay = Running)
             /\ req'[o].replay # Running => req[o].input.key # k
             /\ req'[o].at = req[o].at /\ req'[o].input = req[o].input /\ req'[o].target = req[o].target
    BY <1>4, LapseKeeps
  <2>2. \A o \in Requests : Holds(o)' = Holds(o)
    BY <2>1 DEF Holds, Claims, Idempotent
  <2>3. ASSUME NEW o \in Requests, req'[o].replay # Running PROVE KnownEnd(req[o])' = req'[o].replay
    <3>1. req'[o] = req[o] /\ req[o].input.key # k /\ KnownEnd(req[o]) # Running
      BY <1>a, <2>1, <2>3
    <3>2. req[o].input.key \in DOMAIN keyed
      BY <1>k, <3>1
    <3> QED BY <1>a, <1>k, <2>1, <2>3, <3>1, <3>2
  <2> QED BY <1>a, <2>1, <2>2, <2>3 DEF KeysAreHeld
<1> QED BY <1>1, <1>2, <1>3, <1>4 DEF RoutesNext

\* A stream is appended to by who may see it, or who saw nothing.
LEMMA StreamsNext ==
    ASSUME RoutesInv, RoutesNext
    PROVE  StreamsAreWritten' /\ TaggedStreamsAreOwned'
<1> USE DEF RoutesInv
<1>1. ASSUME NEW r \in Requests, RouteStep(r) PROVE StreamsAreWritten' /\ TaggedStreamsAreOwned'
  <2>1. /\ \A o \in Requests : o # r => req'[o] = req[o]
        /\ req'[r].target = req[r].target /\ req'[r].tenant = req[r].tenant /\ req[r].at # "answered"
    BY <1>1, StepKeeps
  <2>2. /\ \A o \in Requests : BypassesTenant(o)' = BypassesTenant(o)
        /\ \A tag : \A o \in Requests : TenantVisible(o, tag)' = TenantVisible(o, tag)
    BY <2>1 DEF BypassesTenant, TenantVisible
  <2>3. \A s \in DOMAIN streams : \A e \in streams[s].events : e # r /\ req'[e] = req[e]
    BY <2>1 DEF StreamsAreWritten
  <2>4. DOMAIN req = Requests /\ DOMAIN req[r] = RouteFields
    BY DEF Shaped
  <2>5. CASE UNCHANGED streams /\ req'[r].at # "append"
    BY <2>1, <2>2, <2>3, <2>5 DEF StreamsAreWritten, TaggedStreamsAreOwned
  <2>6. CASE Load(r) /\ req'[r].at = "append"
    <3>1. /\ UNCHANGED streams /\ ~Ends(r, 404) /\ req'[r].cmd = req[r].cmd
      BY <2>4, <2>6 DEF Load, Ends, Responds, RouteFields
    <3>2. req'[r].loaded # {} => /\ req[r].cmd.id \in DOMAIN streams
                                 /\ TenantVisible(r, streams[req[r].cmd.id].tag)
      BY <2>4, <2>6, <3>1 DEF Load, RouteFields
    <3> QED BY <2>1, <2>2, <2>3, <3>1, <3>2 DEF StreamsAreWritten, TaggedStreamsAreOwned
  <2>7. CASE CommitAppend(r)
    <3> DEFINE s == req[r].cmd.id
               old == IF s \in DOMAIN streams THEN streams[s].events ELSE {}
               new == [tag |-> TagAfter(r), events |-> old \cup {r}]
    <3>1. /\ streams' = [x \in DOMAIN streams \union {s} |-> IF x = s THEN new ELSE streams[x]]
          /\ req[r].at = "append" /\ Ends(r, 204)
      BY <2>7 DEF CommitAppend
    <3>2. req'[r].at = "answered" /\ req'[r].loaded = req[r].loaded
      BY <3>1, EndFacts
    <3>3. s \in DOMAIN streams => TagAfter(r) = streams[s].tag
      BY DEF TagAfter
    <3>4. s \notin DOMAIN streams => TagAfter(r) = req[r].tenant
      BY DEF TagAfter
    <3>5. new.tag = TagAfter(r) /\ new.events = old \cup {r}
      OBVIOUS
    <3> HIDE DEF s, new
    <3>6. /\ DOMAIN streams' = DOMAIN streams \cup {s} /\ streams'[s] = new
          /\ \A x \in DOMAIN streams : x # s => streams'[x] = streams[x]
      BY <3>1
    <3>7. \A x \in DOMAIN streams : x \in DOMAIN streams' /\ streams'[x].tag = streams[x].tag
      BY <3>3, <3>5, <3>6
    <3>8. StreamsAreWritten'
      BY <2>1, <2>2, <2>3, <3>2, <3>5, <3>6, <3>7 DEF StreamsAreWritten
    <3>9. TagAfter(r) = Blank \/ BypassesTenant(r) \/ req[r].tenant = TagAfter(r) \/ req[r].loaded = {}
      BY <3>1, <3>3, <3>4 DEF StreamsAreWritten, TenantVisible, s
    <3>10. TaggedStreamsAreOwned'
      <4> SUFFICES ASSUME NEW x \in DOMAIN streams', streams'[x].tag # Blank, NEW e \in streams'[x].events
                   PROVE  req'[e].tenant = streams'[x].tag \/ BypassesTenant(e)' \/ req'[e].loaded = {}
        BY DEF TaggedStreamsAreOwned
      <4>1. CASE e = r /\ x = s
        BY <2>1, <2>2, <3>2, <3>5, <3>6, <3>9, <4>1
      <4>2. CASE x \in DOMAIN streams /\ e \in streams[x].events
        <5>1. e \in Requests /\ req'[e] = req[e] /\ streams'[x].tag = streams[x].tag
          BY <2>3, <3>7, <4>2 DEF StreamsAreWritten
        <5> QED BY <2>2, <4>2, <5>1 DEF TaggedStreamsAreOwned
      <4> QED BY <3>5, <3>6, <4>1, <4>2
    <3> QED BY <3>8, <3>10
  <2>8. \/ UNCHANGED streams /\ req'[r].at # "append"
        \/ Load(r) /\ req'[r].at = "append"
        \/ CommitAppend(r)
    <3>1. CASE LimitFirst(r) \/ DecodeBody(r) \/ LimitUnlessReplay(r)
      BY <2>4, <3>1 DEF LimitFirst, DecodeBody, LimitUnlessReplay, Charge, Goes, Responds, RouteFields
    <3>2. CASE Dispatch(r)
      BY <2>4, <3>2 DEF Dispatch, Goes, Responds, RouteFields
    <3>3. CASE Load(r)
      BY <3>3 DEF Load
    <3>4. CASE \E code \in {403, 422, 503} : BodyFails(r, code)
      BY <2>4, <3>4 DEF BodyFails, Ends, Responds, RouteFields
    <3> QED BY <1>1, <3>1, <3>2, <3>3, <3>4 DEF RouteStep
  <2> QED BY <2>5, <2>6, <2>7, <2>8
<1>2. ASSUME NEW r \in Requests,
             \/ \E route \in http.routes, input \in Inputs : ArriveHTTP(r, route, input)
             \/ \E name \in RPCs, input \in Inputs : ArriveRPC(r, name, input)
      PROVE  StreamsAreWritten' /\ TaggedStreamsAreOwned'
  <2>1. /\ UNCHANGED streams /\ \A o \in Requests : o # r => req'[o] = req[o]
        /\ req'[r].at \in {"answered", "dispatch", "limit"} /\ req[r] = NoRequest
    BY <1>2, ArriveKeeps DEF Arrived
  <2>2. req[r].at # "answered"
    BY <2>1 DEF NoRequest
  <2>3. \A s \in DOMAIN streams : \A e \in streams[s].events : e # r /\ req'[e] = req[e]
    BY <2>1, <2>2 DEF StreamsAreWritten
  <2> QED BY <2>1, <2>3 DEF StreamsAreWritten, TaggedStreamsAreOwned, BypassesTenant, TenantVisible
<1>3. CASE NextDay
  BY <1>3 DEF NextDay, StreamsAreWritten, TaggedStreamsAreOwned, BypassesTenant, TenantVisible
<1>4. ASSUME NEW k \in DOMAIN keyed, Lapse(k) PROVE StreamsAreWritten' /\ TaggedStreamsAreOwned'
  <2>1. /\ UNCHANGED streams
        /\ \A o \in Requests : /\ req'[o].at = req[o].at /\ req'[o].loaded = req[o].loaded /\ req'[o].cmd = req[o].cmd
                               /\ req'[o].tenant = req[o].tenant /\ req'[o].target = req[o].target
    BY <1>4, LapseKeeps
  <2>2. /\ \A o \in Requests : BypassesTenant(o)' = BypassesTenant(o)
        /\ \A tag : \A o \in Requests : TenantVisible(o, tag)' = TenantVisible(o, tag)
    BY <2>1 DEF BypassesTenant, TenantVisible
  <2>3. StreamsAreWritten'
    BY <2>1, <2>2 DEF StreamsAreWritten
  <2>4. \A s \in DOMAIN streams : \A o \in streams[s].events : o \in Requests
    BY DEF StreamsAreWritten
  <2>5. TaggedStreamsAreOwned'
    BY <2>1, <2>2, <2>4 DEF TaggedStreamsAreOwned
  <2> QED BY <2>3, <2>5
<1> QED BY <1>1, <1>2, <1>3, <1>4 DEF RoutesNext

\* The edge as it was generated, with nothing arrived.
LEMMA RoutesStart ==
    ASSUME RoutesInit
    PROVE  RoutesInv
<1>1. /\ http \in Interfaces /\ day = 0 /\ spent = 0 /\ DOMAIN keyed = {} /\ DOMAIN streams = {}
      /\ DOMAIN req = Requests /\ \A r \in Requests : req[r] = NoRequest
  BY DEF RoutesInit
<1>2. /\ NoRequest.at = "new" /\ NoRequest.status = 0 /\ NoRequest.route.path = Blank /\ NoRequest.cmd = <<>>
      /\ NoRequest.replay = Running /\ NoRequest.answer = Blank /\ NoRequest.notice = FALSE
      /\ DOMAIN NoRequest = RouteFields
  BY DEF NoRequest, NoRoute, RouteFields
<1> HIDE DEF NoRequest
<1>3. Shaped
  BY <1>1, <1>2 DEF Shaped
<1>4. RoutesTypeOK
  BY <1>1, <1>2, RouteBoundsAssumption DEF RoutesTypeOK
<1>5. BodyIsReadInItsVersion /\ \A r \in Requests : ReadyToRead(req[r])
  BY <1>1, <1>2 DEF BodyIsReadInItsVersion, ReadyToRead
<1>7. LifecyclesAreKept
  BY <1>1, <1>2 DEF LifecyclesAreKept, Due, OfAVersion
<1>8. AnswersSpeakTheirVersion
  BY <1>1, <1>2 DEF AnswersSpeakTheirVersion
<1>6. KeysAreHeld /\ StreamsAreWritten /\ TaggedStreamsAreOwned
  BY <1>1, <1>2 DEF KeysAreHeld, Holds, StreamsAreWritten, TaggedStreamsAreOwned
<1> QED BY <1>3, <1>4, <1>5, <1>6, <1>7, <1>8 DEF RoutesInv

\* A step that changes nothing.
LEMMA RoutesStutter ==
    ASSUME RoutesInv, UNCHANGED routesVars
    PROVE  RoutesInv'
<1> USE DEF RoutesInv
<1>1. http' = http /\ day' = day /\ req' = req /\ streams' = streams /\ spent' = spent /\ keyed' = keyed
  BY DEF routesVars
<1>2. Shaped' /\ RoutesTypeOK'
  BY <1>1 DEF Shaped, RoutesTypeOK
<1>3. \A r \in Requests : ReadyToRead(req[r])'
  BY <1>1 DEF ReadyToRead, Versioned, ResolvedVersion
<1>7. LifecyclesAreKept'
  BY <1>1 DEF LifecyclesAreKept, Due, OfAVersion, Versioned, ResolvedVersion
<1>8. AnswersSpeakTheirVersion'
  BY <1>1 DEF AnswersSpeakTheirVersion, OfAVersion, Versioned, ResolvedVersion
<1>6. BodyIsReadInItsVersion'
  BY <1>1 DEF BodyIsReadInItsVersion, Versioned, ResolvedVersion
<1>4. KeysAreHeld'
  BY <1>1 DEF KeysAreHeld, Holds, Claims, Idempotent, KnownEnd, Fingerprint
<1>5. StreamsAreWritten' /\ TaggedStreamsAreOwned'
  BY <1>1 DEF StreamsAreWritten, TaggedStreamsAreOwned, TenantVisible, BypassesTenant
<1> QED BY <1>2, <1>3, <1>4, <1>5, <1>6, <1>7, <1>8

\* The invariant of the edge: any Interface that generates, any calendar, any requests.
LEMMA RoutesInvariant ==
    RoutesSpec => []RoutesInv
<1>1. RoutesInit => RoutesInv
  BY RoutesStart
<1>2. RoutesInv /\ [RoutesNext]_routesVars => RoutesInv'
  <2>1. CASE RoutesInv /\ RoutesNext
    BY <2>1, RoutesTypesNext, LifecyclesNext, BodyNext, AnswersNext, KeysNext, StreamsNext DEF RoutesInv
  <2>2. CASE RoutesInv /\ UNCHANGED routesVars
    BY <2>2, RoutesStutter
  <2> QED BY <2>1, <2>2
<1> QED BY <1>1, <1>2, PTL DEF RoutesSpec

\* A version is served until its sunset and answers 410 from that day on, its bodies are read
\* and its Views answered in its own shape (apiVersionGate, and the switches on the version in
\* emitUseCaseRoute and emitQueryRoute), whatever else the Interface declares.
THEOREM HonouredVersions == RoutesSpec => []VersionsAreHonoured
<1>1. RoutesInv => VersionsAreHonoured
  BY DEF RoutesInv, VersionsAreHonoured
<1> QED BY <1>1, RoutesInvariant, PTL

\* What stands in a tagged stream was appended by its tenant, by a UseCase with "tenancy:
\* cross_tenant", or by a request that had loaded before the stream existed (EventStore.Load).
THEOREM OwnedStreams == RoutesSpec => []TaggedStreamsAreOwned
<1>1. RoutesInv => TaggedStreamsAreOwned
  BY DEF RoutesInv
<1> QED BY <1>1, RoutesInvariant, PTL

\* A retry of the same Command under the same key, whose run had ended when it arrived or was
\* peeked, is neither charged nor run again and is answered as that run was, while the window
\* of the key lasts (IsReplay, and Begin in the wrapper), however the requests interleave.
THEOREM FreeReplays == RoutesSpec => ReplaysAreFree
<1> DEFINE Free == \A r \in Requests :
              (req[r].replay # Running /\ req'[r].replay # Running /\ req'[r].at # req[r].at)
                  => /\ spent' = spent /\ req'[r].at # "load"
                     /\ req'[r].at = "answered" => req'[r].status \in {400, req[r].replay}
<1>1. ASSUME RoutesInv, RoutesNext PROVE Free
  <2> SUFFICES ASSUME NEW r \in Requests, req[r].replay # Running, req'[r].at # req[r].at
               PROVE  /\ spent' = spent /\ req'[r].at # "load"
                      /\ req'[r].at = "answered" => req'[r].status \in {400, req[r].replay}
    OBVIOUS
  <2>1. KnownEnd(req[r]) = req[r].replay /\ KnownEnd(req[r]) # Running
    BY <1>1 DEF RoutesInv, KeysAreHeld
  <2>2. /\ TargetKind(req[r].target) = "usecase" /\ Idempotent(r) /\ Claims(r) /\ ~MissesItsKey(r)
        /\ req[r].input.key \in DOMAIN keyed
        /\ keyed[req[r].input.key].print = Fingerprint(req[r])
        /\ keyed[req[r].input.key].end = req[r].replay
    BY <2>1 DEF KnownEnd, Idempotent, Claims, MissesItsKey
  <2>3. ~Holds(r)
    BY <1>1, <2>1, <2>2 DEF RoutesInv, KeysAreHeld
  <2>4. ASSUME NEW o \in Requests, RouteStep(o)
        PROVE  /\ spent' = spent /\ req'[r].at # "load"
               /\ req'[r].at = "answered" => req'[r].status \in {400, req[r].replay}
    <3>1. RouteStep(r) /\ DOMAIN req = Requests /\ DOMAIN req[r] = RouteFields
      BY <1>1, <2>4, StepKeeps DEF RoutesInv, Shaped
    <3>2. CASE LimitFirst(r)
      BY <2>2, <3>1, <3>2 DEF LimitFirst, Goes, RouteFields
    <3>3. CASE DecodeBody(r)
      BY <3>1, <3>3 DEF DecodeBody, Responds, RouteFields
    <3>4. CASE LimitUnlessReplay(r)
      BY <2>1, <3>1, <3>4 DEF LimitUnlessReplay, RouteFields
    <3>5. CASE Dispatch(r)
      BY <2>1, <2>2, <3>1, <3>5 DEF Dispatch, HeldKeyAnswers, Responds, RouteFields
    <3>6. CASE Load(r) \/ CommitAppend(r) \/ \E code \in {403, 422, 503} : BodyFails(r, code)
      BY <2>2, <2>3, <3>6 DEF Load, CommitAppend, BodyFails, Holds
    <3> QED BY <3>1, <3>2, <3>3, <3>4, <3>5, <3>6 DEF RouteStep
  <2>5. ASSUME NEW o \in Requests,
               \/ \E route \in http.routes, input \in Inputs : ArriveHTTP(o, route, input)
               \/ \E name \in RPCs, input \in Inputs : ArriveRPC(o, name, input)
        PROVE  FALSE
    <3>1. o # r
      BY <1>1, <2>5, ArriveKeeps DEF NoRequest
    <3> QED BY <1>1, <2>5, <3>1, ArriveKeeps
  <2>6. CASE NextDay
    BY <2>6 DEF NextDay
  <2>7. ASSUME NEW k \in DOMAIN keyed, Lapse(k) PROVE FALSE
    BY <1>1, <2>7, LapseKeeps
  <2> QED BY <1>1, <2>4, <2>5, <2>6, <2>7 DEF RoutesNext
<1>2. RoutesInv /\ [RoutesNext]_routesVars => [Free]_routesVars
  BY <1>1
<1> QED BY <1>2, RoutesInvariant, PTL DEF RoutesSpec, ReplaysAreFree

-----------------------------------------------------------------------------
(* Event versions: any number of releases, fields, values and events.       *)

Wire == [EventFields -> EventValues \cup {Missing}]
EventRow == [by : Nat, via : Nat, to : Nat, raw : Wire, body : Wire, place : Places]

\* The row as the relay published it.
Relayed(e) == Encode(releases[e.via], Decode(releases[e.via], e.raw))

\* How far a row came says which releases read it, and what they made of it.
RowIsExplained(e) ==
    /\ e.by \in DOMAIN releases
    /\ \A f \in EventFields : (e.raw[f] # Missing) <=> (f \in releases[e.by].has)
    /\ e.place # "queued" => e.via \in DOMAIN releases
    /\ e.place = "dropped" => ~Decodes(releases[e.via], e.raw)
    /\ e.place \in {"sent", "handed", "dead"} => Decodes(releases[e.via], e.raw)
    /\ e.place \in {"handed", "dead"} => e.to \in DOMAIN releases
    /\ e.place \in {"queued", "sent", "dropped"} => e.to = 0
    /\ e.place = "queued" => e.via = 0
    /\ e.place = "sent" => e.body = Relayed(e)
    /\ e.place = "handed" => e.body = Encode(releases[e.to], Decode(releases[e.to], Relayed(e)))
    /\ e.place = "dead" => ~Decodes(releases[e.to], Relayed(e))

EventsInv ==
    /\ releases \in Seq(Declarations) /\ releases # <<>>
    /\ running \subseteq DOMAIN releases /\ Cardinality(running) \in 1..2
    /\ events \in Seq(EventRow)
    /\ \A i \in DOMAIN events : RowIsExplained(events[i])

\* What goes over the wire is the declared keys, each with a value.
LEMMA WireTypes ==
    ASSUME NEW d \in Declarations, NEW raw \in Wire, Decodes(d, raw)
    PROVE  /\ Encode(d, Decode(d, raw)) \in Wire
           /\ \A f \in EventFields :
                 Encode(d, Decode(d, raw))[f] =
                     IF f \notin d.has THEN Missing ELSE IF raw[f] # Missing THEN raw[f] ELSE DefaultOf(d, f)
           /\ \A f \in d.has : Encode(d, Decode(d, raw))[f] \in EventValues
<1>1. d.has \subseteq EventFields /\ d.default \in [EventFields -> EventValues \cup {NoDefault, FailsToDecode}]
  BY DEF Declarations
<1>2. \A f \in d.has : raw[f] = Missing => DefaultOf(d, f) \in EventValues
  BY <1>1, ReleaseAssumption DEF Decodes, DefaultOf
<1>3. \A f \in d.has : Decode(d, raw)[f] = IF raw[f] # Missing THEN raw[f] ELSE DefaultOf(d, f)
  BY DEF Decode
<1>4. \A f \in EventFields : Encode(d, Decode(d, raw))[f] = IF f \in d.has THEN Decode(d, raw)[f] ELSE Missing
  BY DEF Encode
<1>5. \A f \in d.has : Encode(d, Decode(d, raw))[f] \in EventValues
  BY <1>1, <1>2, <1>3, <1>4 DEF Wire
<1>6. Encode(d, Decode(d, raw)) \in Wire
  BY <1>1, <1>2, <1>3 DEF Encode, Wire
<1> QED BY <1>1, <1>3, <1>4, <1>5, <1>6

\* A later release changes nothing of the earlier ones.
LEMMA RowStays ==
    ASSUME EventsInv, NEW d \in Declarations, NEW e, RowIsExplained(e), releases' = Append(releases, d)
    PROVE  RowIsExplained(e)'
<1>1. /\ releases \in Seq(Declarations) /\ Len(releases) \in Nat /\ DOMAIN releases = 1..Len(releases)
      /\ releases' \in Seq(Declarations) /\ Len(releases') = Len(releases) + 1
      /\ \A n \in 1..Len(releases) : releases'[n] = releases[n]
  BY AppendProperties, LenProperties DEF EventsInv
<1>2. /\ DOMAIN releases \subseteq DOMAIN releases' /\ \A n \in DOMAIN releases : releases'[n] = releases[n]
  <2>1. DOMAIN releases' = 1..Len(releases')
    BY <1>1, LenProperties
  <2> QED BY <1>1, <2>1
<1>3. e.via \in DOMAIN releases => Relayed(e)' = Relayed(e)
  BY <1>2 DEF Relayed
<1>4. e.place \in {"sent", "handed", "dead"} => e.via \in DOMAIN releases
  BY DEF RowIsExplained
<1> QED BY <1>2, <1>3, <1>4 DEF RowIsExplained

\* The first release, and an empty table.
LEMMA EventsInitInv == EventsInit => EventsInv
<1> SUFFICES ASSUME EventsInit PROVE EventsInv
  OBVIOUS
<1>1. PICK d \in Declarations : releases = <<d>>
  BY DEF EventsInit
<1>2. releases \in Seq(Declarations) /\ Len(releases) = 1 /\ DOMAIN releases = {1} /\ releases # <<>>
  BY <1>1
<1>3. running = {1} /\ Cardinality(running) = 1
  BY FS_Singleton DEF EventsInit
<1>4. events \in Seq(EventRow) /\ DOMAIN events = {}
  BY DEF EventsInit
<1> QED BY <1>2, <1>3, <1>4 DEF EventsInv

\* A release starts or ends its life.
LEMMA ReleaseStep ==
    ASSUME EventsInv, (\E d \in Declarations : RollOut(d)) \/ Retire
    PROVE  EventsInv'
<1> USE DEF EventsInv
<1>1. /\ releases \in Seq(Declarations) /\ Len(releases) \in Nat \ {0} /\ DOMAIN releases = 1..Len(releases)
  BY LenProperties, EmptySeq
<1>2. IsFiniteSet(running)
  <2>1. IsFiniteSet(1..Len(releases))
    BY <1>1, FS_Interval
  <2> QED BY <1>1, <2>1, FS_Subset
<1>3. ASSUME NEW d \in Declarations, RollOut(d) PROVE EventsInv'
  <2>1. /\ releases' = Append(releases, d) /\ events' = events /\ Cardinality(running) = 1
        /\ running' = running \cup {Len(releases) + 1}
    BY <1>3 DEF RollOut
  <2>2. releases' \in Seq(Declarations) /\ Len(releases') = Len(releases) + 1
    BY <1>1, <2>1, AppendProperties
  <2>3. DOMAIN releases' = 1..Len(releases) + 1 /\ releases' # <<>>
    BY <1>1, <2>2, LenProperties, EmptySeq
  <2>4. running' \subseteq DOMAIN releases'
    BY <1>1, <2>1, <2>3
  <2>5. Cardinality(running') \in 1..2
    <3>1. Cardinality(running \cup {Len(releases) + 1}) =
             IF Len(releases) + 1 \in running THEN Cardinality(running) ELSE Cardinality(running) + 1
      BY <1>2, FS_AddElement, Zenon
    <3> QED BY <2>1, <3>1
  <2>6. \A i \in DOMAIN events : RowIsExplained(events[i])'
    <3> SUFFICES ASSUME NEW i \in DOMAIN events PROVE RowIsExplained(events[i])'
      OBVIOUS
    <3>1. PICK e : e = events[i]
      OBVIOUS
    <3>2. RowIsExplained(e)'
      BY <2>1, <3>1, RowStays
    <3> QED BY <2>1, <3>1, <3>2
  <2> QED BY <2>1, <2>2, <2>3, <2>4, <2>5, <2>6
<1>4. CASE Retire
  <2>1. UNCHANGED <<releases, events>> /\ running' = {Len(releases)}
    BY <1>4 DEF Retire
  <2>2. Cardinality({Len(releases)}) = 1
    BY FS_Singleton
  <2>4. Cardinality(running') = 1 /\ running' \subseteq DOMAIN releases'
    BY <1>1, <2>1, <2>2
  <2>3. \A i \in DOMAIN events : RowIsExplained(events[i])'
    BY <2>1 DEF RowIsExplained, Relayed
  <2> QED BY <2>1, <2>3, <2>4
<1> QED BY <1>3, <1>4

\* A UseCase writes a row: the keys it declares, each with a value.
LEMMA EmitStep ==
    ASSUME EventsInv, NEW r \in running, Emit(r)
    PROVE  EventsInv'
<1> USE DEF EventsInv
<1>1. r \in DOMAIN releases /\ releases[r] \in Declarations /\ r \in Nat
  <2>1. DOMAIN releases = 1..Len(releases) /\ Len(releases) \in Nat
    BY LenProperties
  <2> QED BY <2>1, ElementOfSeq
<1>2. PICK ev \in [releases[r].has -> EventValues] :
        events' = Append(events, [by |-> r, via |-> 0, to |-> 0, raw |-> Encode(releases[r], ev),
                                  body |-> Encode(releases[r], ev), place |-> "queued"])
  BY DEF Emit
<1> DEFINE raw == Encode(releases[r], ev)
           e == [by |-> r, via |-> 0, to |-> 0, raw |-> raw, body |-> raw, place |-> "queued"]
<1>3. raw \in Wire /\ \A f \in EventFields : (raw[f] # Missing) <=> (f \in releases[r].has)
  BY <1>1, ReleaseAssumption DEF Encode, Wire, Declarations
<1> HIDE DEF raw
<1>4. e \in EventRow
  BY <1>1, <1>3 DEF EventRow, Places
<1>5. UNCHANGED <<releases, running>>
  BY DEF Emit
<1>6. \A x : RowIsExplained(x) => RowIsExplained(x)'
  BY <1>5 DEF RowIsExplained, Relayed
<1>7. RowIsExplained(e)
  BY <1>1, <1>3 DEF RowIsExplained
<1>8. events' = Append(events, e)
  BY <1>2 DEF raw
<1> HIDE DEF e
<1>9. /\ events' \in Seq(EventRow)
      /\ \A i \in DOMAIN events' : events'[i] = e \/ (i \in DOMAIN events /\ events'[i] = events[i])
  BY <1>4, <1>8, AppendProperties, LenProperties
<1>10. \A i \in DOMAIN events' : RowIsExplained(events'[i])
  BY <1>7, <1>9
<1>11. \A i \in DOMAIN events' : RowIsExplained(events[i])'
  BY <1>6, <1>10
<1> QED BY <1>5, <1>9, <1>11

\* A row is relayed or handed over: one row changes.
LEMMA RowMoves ==
    ASSUME EventsInv, NEW i \in DOMAIN events, NEW e \in EventRow, RowIsExplained(e),
           events' = [events EXCEPT ![i] = e], UNCHANGED <<releases, running>>
    PROVE  EventsInv'
<1> USE DEF EventsInv
<1>1. events' \in Seq(EventRow) /\ DOMAIN events' = DOMAIN events
  BY ExceptSeq, LenProperties
<1>2. \A j \in DOMAIN events : events'[j] = IF j = i THEN e ELSE events[j]
  OBVIOUS
<1>3. \A x : RowIsExplained(x) => RowIsExplained(x)'
  BY DEF RowIsExplained, Relayed
<1>4. \A j \in DOMAIN events' : RowIsExplained(events'[j])
  BY <1>1, <1>2
<1>5. \A j \in DOMAIN events' : RowIsExplained(events[j])'
  BY <1>3, <1>4
<1> QED BY <1>1, <1>5

LEMMA RelayEventStep ==
    ASSUME EventsInv, NEW r \in running, NEW i \in 1..Len(events), RelayEvent(r, i)
    PROVE  EventsInv'
<1>1. /\ i \in DOMAIN events /\ events[i] \in EventRow /\ RowIsExplained(events[i])
      /\ r \in DOMAIN releases /\ releases[r] \in Declarations /\ r \in Nat
  <2>1. /\ DOMAIN releases = 1..Len(releases) /\ Len(releases) \in Nat
        /\ DOMAIN events = 1..Len(events)
    BY LenProperties DEF EventsInv
  <2> QED BY <2>1, ElementOfSeq DEF EventsInv
<1>2. PICK e \in EventRow : e = events[i]
  BY <1>1
<1>3. e.place = "queued" /\ UNCHANGED <<releases, running>> /\ e.raw \in Wire
  BY <1>2 DEF RelayEvent, EventRow
<1>4. CASE Decodes(releases[r], e.raw)
  <2> DEFINE body == Encode(releases[r], Decode(releases[r], e.raw))
  <2>1. body \in Wire
    BY <1>1, <1>3, <1>4, WireTypes
  <2>2. events' = [events EXCEPT ![i] = [e EXCEPT !.place = "sent", !.via = r, !.body = body]]
    BY <1>2, <1>4 DEF RelayEvent
  <2> HIDE DEF body
  <2>3. PICK x : x = [e EXCEPT !.place = "sent", !.via = r, !.body = body]
    OBVIOUS
  <2>4. x \in EventRow /\ x.by = e.by /\ x.raw = e.raw /\ x.to = e.to
        /\ x.place = "sent" /\ x.via = r /\ x.body = body
    BY <1>1, <2>1, <2>3 DEF EventRow, Places
  <2>5. RowIsExplained(x)
    BY <1>1, <1>2, <1>3, <1>4, <2>4 DEF RowIsExplained, Relayed, body
  <2> QED BY <1>1, <1>3, <2>2, <2>3, <2>4, <2>5, RowMoves
<1>5. CASE ~Decodes(releases[r], e.raw)
  <2>1. events' = [events EXCEPT ![i] = [e EXCEPT !.place = "dropped", !.via = r]]
    BY <1>2, <1>5 DEF RelayEvent
  <2>2. PICK x : x = [e EXCEPT !.place = "dropped", !.via = r]
    OBVIOUS
  <2>3. x \in EventRow /\ x.by = e.by /\ x.raw = e.raw /\ x.to = e.to
        /\ x.place = "dropped" /\ x.via = r /\ x.body = e.body
    BY <1>1, <2>2 DEF EventRow, Places
  <2>4. RowIsExplained(x)
    BY <1>1, <1>2, <1>3, <1>5, <2>3 DEF RowIsExplained
  <2> QED BY <1>1, <1>3, <2>1, <2>2, <2>3, <2>4, RowMoves
<1> QED BY <1>4, <1>5

LEMMA HandEventStep ==
    ASSUME EventsInv, NEW r \in running, NEW i \in 1..Len(events), HandEvent(r, i)
    PROVE  EventsInv'
<1>1. /\ i \in DOMAIN events /\ events[i] \in EventRow /\ RowIsExplained(events[i])
      /\ r \in DOMAIN releases /\ releases[r] \in Declarations /\ r \in Nat
  <2>1. /\ DOMAIN releases = 1..Len(releases) /\ Len(releases) \in Nat
        /\ DOMAIN events = 1..Len(events)
    BY LenProperties DEF EventsInv
  <2> QED BY <2>1, ElementOfSeq DEF EventsInv
<1>2. PICK e \in EventRow : e = events[i]
  BY <1>1
<1>3. e.place = "sent" /\ UNCHANGED <<releases, running>> /\ e.body \in Wire /\ e.body = Relayed(e)
  BY <1>1, <1>2 DEF HandEvent, EventRow, RowIsExplained
<1>4. CASE Decodes(releases[r], e.body)
  <2> DEFINE body == Encode(releases[r], Decode(releases[r], e.body))
  <2>1. body \in Wire
    BY <1>1, <1>3, <1>4, WireTypes
  <2>2. events' = [events EXCEPT ![i] = [e EXCEPT !.place = "handed", !.to = r, !.body = body]]
    BY <1>2, <1>4 DEF HandEvent
  <2> HIDE DEF body
  <2>3. PICK x : x = [e EXCEPT !.place = "handed", !.to = r, !.body = body]
    OBVIOUS
  <2>4. x \in EventRow /\ x.by = e.by /\ x.raw = e.raw /\ x.to = r
        /\ x.place = "handed" /\ x.via = e.via /\ x.body = body
    BY <1>1, <2>1, <2>3 DEF EventRow, Places
  <2>5. Relayed(x) = Relayed(e)
    BY <2>4 DEF Relayed
  <2>6. RowIsExplained(x)
    BY <1>1, <1>2, <1>3, <1>4, <2>4, <2>5 DEF RowIsExplained, body
  <2> QED BY <1>1, <1>3, <2>2, <2>3, <2>4, <2>6, RowMoves
<1>5. CASE ~Decodes(releases[r], e.body)
  <2>1. events' = [events EXCEPT ![i] = [e EXCEPT !.place = "dead", !.to = r]]
    BY <1>2, <1>5 DEF HandEvent
  <2>2. PICK x : x = [e EXCEPT !.place = "dead", !.to = r]
    OBVIOUS
  <2>3. x \in EventRow /\ x.by = e.by /\ x.raw = e.raw /\ x.to = r
        /\ x.place = "dead" /\ x.via = e.via /\ x.body = e.body
    BY <1>1, <2>2 DEF EventRow, Places
  <2>4. Relayed(x) = Relayed(e)
    BY <2>3 DEF Relayed
  <2>5. RowIsExplained(x)
    BY <1>1, <1>2, <1>3, <1>5, <2>3, <2>4 DEF RowIsExplained
  <2> QED BY <1>1, <1>3, <2>1, <2>2, <2>3, <2>5, RowMoves
<1> QED BY <1>4, <1>5

\* What the inductive invariant says of a row that arrived, field by field.
LEMMA FieldsFollow == EventsInv => FieldsSurviveTheirHops
<1> SUFFICES ASSUME EventsInv, NEW i \in DOMAIN events, events[i].place = "handed",
                    NEW f \in releases[events[i].to].has
             PROVE  LET e == events[i]
                        way == <<e.by, e.via, e.to>>
                        since == Min({k \in 1..3 : \A j \in k..3 : f \in releases[way[j]].has})
                    IN  e.body[f] = IF since = 1 THEN e.raw[f] ELSE DefaultOf(releases[way[since]], f)
  BY DEF FieldsSurviveTheirHops
<1>1. PICK e \in EventRow : e = events[i] /\ RowIsExplained(e)
  <2>1. DOMAIN events = 1..Len(events)
    BY LenProperties DEF EventsInv
  <2> QED BY <2>1, ElementOfSeq DEF EventsInv
<1>2. /\ e.via \in DOMAIN releases /\ e.to \in DOMAIN releases /\ e.by \in DOMAIN releases
      /\ Decodes(releases[e.via], e.raw) /\ e.raw \in Wire
      /\ e.body = Encode(releases[e.to], Decode(releases[e.to], Relayed(e)))
      /\ \A g \in EventFields : (e.raw[g] # Missing) <=> (g \in releases[e.by].has)
  BY <1>1 DEF RowIsExplained, EventRow
<1>3. releases[e.via] \in Declarations /\ releases[e.to] \in Declarations /\ f \in EventFields
  <2>1. DOMAIN releases = 1..Len(releases)
    BY LenProperties DEF EventsInv
  <2>2. releases[e.via] \in Declarations /\ releases[e.to] \in Declarations
    BY <1>2, <2>1, ElementOfSeq DEF EventsInv
  <2> QED BY <1>1, <2>2 DEF Declarations
<1>4. /\ Relayed(e)[f] = IF f \notin releases[e.via].has THEN Missing
                         ELSE IF e.raw[f] # Missing THEN e.raw[f] ELSE DefaultOf(releases[e.via], f)
      /\ f \in releases[e.via].has => Relayed(e)[f] # Missing
  BY <1>2, <1>3, WireTypes, ReleaseAssumption DEF Relayed
<1>5. e.body[f] = IF Relayed(e)[f] # Missing THEN Relayed(e)[f] ELSE DefaultOf(releases[e.to], f)
  BY <1>1, <1>2, <1>3 DEF Encode, Decode
<1> DEFINE way == <<e.by, e.via, e.to>>
           unbroken == {k \in 1..3 : \A j \in k..3 : f \in releases[way[j]].has}
           since == Min(unbroken)
<1>6. way[1] = e.by /\ way[2] = e.via /\ way[3] = e.to /\ f \in releases[e.to].has
  BY <1>1
<1> HIDE DEF way
<1>7. /\ 3 \in unbroken /\ unbroken \subseteq 1..3
      /\ 2 \in unbroken <=> f \in releases[e.via].has
      /\ 1 \in unbroken <=> (f \in releases[e.via].has /\ f \in releases[e.by].has)
  BY <1>6
<1>8. since = IF 1 \in unbroken THEN 1 ELSE IF 2 \in unbroken THEN 2 ELSE 3
  BY <1>7 DEF Min
<1> HIDE DEF unbroken, since
<1>9. e.body[f] = IF since = 1 THEN e.raw[f] ELSE DefaultOf(releases[way[since]], f)
  BY <1>2, <1>3, <1>4, <1>5, <1>6, <1>7, <1>8
<1> QED BY <1>1, <1>9 DEF way, unbroken, since

\* Nothing is lost but in front of a release that cannot read it.
LEMMA LossesAreExplained == EventsInv => EventsTypeOK /\ FieldChangesLoseNoEvent
<1> SUFFICES ASSUME EventsInv PROVE EventsTypeOK /\ FieldChangesLoseNoEvent
  OBVIOUS
<1>1. /\ DOMAIN releases = 1..Len(releases) /\ Len(releases) \in Nat /\ DOMAIN events = 1..Len(events)
      /\ \A n \in DOMAIN releases : releases[n] \in Declarations
      /\ \A i \in DOMAIN events : events[i] \in EventRow /\ RowIsExplained(events[i])
  <2>1. /\ DOMAIN releases = 1..Len(releases) /\ Len(releases) \in Nat /\ DOMAIN events = 1..Len(events)
    BY LenProperties DEF EventsInv
  <2> QED BY <2>1, ElementOfSeq DEF EventsInv
<1>2. EventsTypeOK
  <2> SUFFICES ASSUME NEW i \in DOMAIN events
               PROVE  /\ events[i].place \in Places /\ events[i].by \in DOMAIN releases
                      /\ events[i].via \in 0..Len(releases) /\ events[i].to \in 0..Len(releases)
                      /\ \A f \in EventFields : (events[i].raw[f] # Missing) <=> (f \in releases[events[i].by].has)
    BY <1>1, Zenon DEF EventsTypeOK, EventsInv
  <2>1. events[i] \in EventRow /\ RowIsExplained(events[i])
    BY <1>1
  <2>2. events[i].place \in Places
    BY <2>1 DEF EventRow
  <2>3. events[i].via \in 0..Len(releases) /\ events[i].to \in 0..Len(releases)
    BY <1>1, <2>1, <2>2 DEF RowIsExplained, Places
  <2> QED BY <2>1, <2>2, <2>3 DEF RowIsExplained
<1>3. ASSUME NEW n \in DOMAIN releases, NEW raw, ~Decodes(releases[n], raw)
      PROVE  ~releases[n].registers \/ \E f \in EventFields : releases[n].default[f] = FailsToDecode
  BY <1>1, <1>3 DEF Decodes, Declarations
<1>4. FieldChangesLoseNoEvent
  <2> SUFFICES ASSUME NEW i \in DOMAIN events, events[i].place \in {"dropped", "dead"}
               PROVE  \E r \in {n \in {events[i].via, events[i].to} : n # 0} :
                         \/ ~releases[r].registers
                         \/ \E f \in EventFields : releases[r].default[f] = FailsToDecode
    BY Zenon DEF FieldChangesLoseNoEvent
  <2>1. RowIsExplained(events[i])
    BY <1>1
  <2>2. \A n \in DOMAIN releases : n # 0
    BY <1>1
  <2>3. CASE events[i].place = "dropped"
    BY <1>3, <2>1, <2>2, <2>3 DEF RowIsExplained
  <2>4. CASE events[i].place = "dead"
    BY <1>3, <2>1, <2>2, <2>4 DEF RowIsExplained
  <2> QED BY <2>3, <2>4
<1> QED BY <1>2, <1>4

\* The inductive invariant is kept by every step.
LEMMA EventsNextInv == EventsInv /\ [EventsNext]_eventVars => EventsInv'
<1> SUFFICES ASSUME EventsInv, [EventsNext]_eventVars PROVE EventsInv'
  OBVIOUS
<1>1. CASE UNCHANGED eventVars
  BY <1>1 DEF eventVars, EventsInv, RowIsExplained, Relayed
<1> QED BY <1>1, ReleaseStep, EmitStep, RelayEventStep, HandEventStep DEF EventsNext

\* Releases that add, drop or default a field understand each other's events, however a
\* roll-out interleaves them: a field that every release on the way declares keeps its value,
\* and only a missing type or a Default that cannot be built loses an event (UnmarshalJSON,
\* DurableOutbox.deliver).
THEOREM SurvivingEvents == EventsSpec => []EventsSurviveReleases
<1>1. EventsInv => EventsSurviveReleases
  BY FieldsFollow, LossesAreExplained DEF EventsSurviveReleases
<1> QED BY <1>1, EventsInitInv, EventsNextInv, PTL DEF EventsSpec

-----------------------------------------------------------------------------
(* Wiring: any programs, with any modules, channels and Policies.           *)

\* Induction over the naturals, in the form of a set: without n, a set that holds 0 and a
\* successor of each of its members would be mapped one to one into itself less 0.
LEMMA Induction ==
    ASSUME NEW S, 0 \in S, \A n \in Nat : n \in S => n + 1 \in S
    PROVE  Nat \subseteq S
<1> SUFFICES ASSUME NEW n \in Nat, n \notin S PROVE FALSE
  OBVIOUS
<1> DEFINE A == {i \in 0..n : i \in S}
           B == A \ {0}
           up == [i \in A |-> i + 1]
<1>1. 0 \in A /\ A \subseteq 0..n /\ \A i \in A : i + 1 \in B
  OBVIOUS
<1>2. up \in [A -> B] /\ \A i, j \in A : up[i] = up[j] => i = j
  BY <1>1
<1> HIDE DEF A, up
<1>3. IsFiniteSet(A)
  <2>1. IsFiniteSet(0..n)
    BY FS_Interval
  <2> QED BY <1>1, <2>1, FS_Subset
<1>4. IsFiniteSet(B) /\ Cardinality(B) < Cardinality(A)
  <2>1. Cardinality(A) \in Nat
    BY <1>3, FS_CardinalityType
  <2>2. IsFiniteSet(B) /\ Cardinality(B) = Cardinality(A) - 1
    BY <1>1, <1>3, FS_RemoveElement
  <2> QED BY <2>1, <2>2
<1> HIDE DEF B
<1>5. \E i, j \in A : i # j /\ up[i] = up[j]
  BY <1>2, <1>3, <1>4, FS_PigeonHole
<1> QED BY <1>2, <1>5

\* FlattenSeq as a walk along the sequences it joins.
Joins(f, s, n) == f = [i \in 1..n |-> IF i = 1 THEN s[i] ELSE f[i - 1] \o s[i]]

\* A function that follows the walk is the walk.
LEMMA JoinsFrom ==
    ASSUME NEW g, NEW s, NEW n \in Nat, g = [i \in 1..n |-> g[i]],
           \A i \in 1..n : g[i] = IF i = 1 THEN s[i] ELSE g[i - 1] \o s[i]
    PROVE  Joins(g, s, n)
<1> DEFINE h == [i \in 1..n |-> IF i = 1 THEN s[i] ELSE g[i - 1] \o s[i]]
<1>1. h = [i \in 1..n |-> g[i]]
  BY Zenon
<1> QED BY <1>1, Zenon DEF Joins

\* What each position of the walk adds.
LEMMA JoinsSteps ==
    ASSUME NEW f, NEW s, NEW n \in Nat, Joins(f, s, n)
    PROVE  /\ DOMAIN f = 1..n /\ f = [i \in 1..n |-> f[i]]
           /\ \A i \in 1..n : f[i] = IF i = 1 THEN s[i] ELSE f[i - 1] \o s[i]
<1> DEFINE h == [i \in 1..n |-> IF i = 1 THEN s[i] ELSE f[i - 1] \o s[i]]
<1>1. f = h
  BY Zenon DEF Joins
<1>2. DOMAIN h = 1..n /\ h = [i \in 1..n |-> h[i]]
  BY Zenon
<1>3. \A i \in 1..n : h[i] = IF i = 1 THEN s[i] ELSE f[i - 1] \o s[i]
  BY Zenon
<1> QED BY <1>1, <1>2, <1>3, Zenon

\* The walk is defined along every sequence.
LEMMA JoinsExists ==
    ASSUME NEW s, NEW n \in Nat
    PROVE  \E f : Joins(f, s, n)
<1> DEFINE S == {m \in Nat : \E f : Joins(f, s, m)}
<1>1. 0 \in S
  <2> DEFINE g == [i \in 1..0 |-> <<>>]
  <2>1. g = [i \in 1..0 |-> g[i]]
    OBVIOUS
  <2> HIDE DEF g
  <2>2. \A i \in 1..0 : g[i] = IF i = 1 THEN s[i] ELSE g[i - 1] \o s[i]
    OBVIOUS
  <2>3. Joins(g, s, 0)
    BY <2>1, <2>2, JoinsFrom, Zenon
  <2> QED BY <2>3
<1>2. ASSUME NEW m \in Nat, m \in S PROVE m + 1 \in S
  <2>1. PICK f : Joins(f, s, m)
    BY <1>2
  <2> DEFINE next == IF m + 1 = 1 THEN s[m + 1] ELSE f[m] \o s[m + 1]
  <2>0. next = IF m + 1 = 1 THEN s[m + 1] ELSE f[m] \o s[m + 1]
    OBVIOUS
  <2> HIDE DEF next
  <2> DEFINE g == [i \in 1..m + 1 |-> IF i = m + 1 THEN next ELSE f[i]]
  <2>2. g[m + 1] = next /\ g = [i \in 1..m + 1 |-> g[i]] /\ \A i \in 1..m : g[i] = f[i]
    OBVIOUS
  <2> HIDE DEF g
  <2>3. \A i \in 1..m : f[i] = IF i = 1 THEN s[i] ELSE f[i - 1] \o s[i]
    BY <2>1, JoinsSteps
  <2>4. \A i \in 1..m + 1 : g[i] = IF i = 1 THEN s[i] ELSE g[i - 1] \o s[i]
    <3> SUFFICES ASSUME NEW i \in 1..m + 1
                 PROVE  g[i] = IF i = 1 THEN s[i] ELSE g[i - 1] \o s[i]
      OBVIOUS
    <3>1. i # 1 => i - 1 \in 1..m
      OBVIOUS
    <3>2. i # 1 => g[i - 1] = f[i - 1]
      BY <2>2, <3>1, Zenon
    <3>3. CASE i = m + 1
      BY <2>0, <2>2, <3>2, <3>3
    <3>4. CASE i # m + 1
      <4>1. i \in 1..m
        BY <3>4
      <4>2. g[i] = f[i]
        BY <2>2, <4>1, Zenon
      <4> QED BY <2>3, <3>2, <4>1, <4>2, Zenon
    <3> QED BY <3>3, <3>4
  <2>5. m + 1 \in Nat
    OBVIOUS
  <2>6. Joins(g, s, m + 1)
    BY <2>2, <2>4, <2>5, JoinsFrom, Zenon
  <2> QED BY <2>5, <2>6
<1> HIDE DEF S
<1>3. Nat \subseteq S
  BY <1>1, <1>2, Induction
<1> QED BY <1>3 DEF S

\* Sequences joined: nothing but their elements, and each of them.
LEMMA FlattenFacts ==
    ASSUME NEW T, NEW n \in Nat, NEW s \in [1..n -> Seq(T)]
    PROVE  /\ FlattenSeq(s) \in Seq(T)
           /\ \A i \in 1..n : \A x \in ToSet(s[i]) : x \in ToSet(FlattenSeq(s))
<1>1. s \in Seq(Seq(T)) /\ Len(s) = n
  <2>1. s \in Seq(Seq(T)) /\ DOMAIN s = 1..n
    OBVIOUS
  <2> QED BY <2>1, LenProperties
<1>2. CASE n = 0
  BY <1>1, <1>2 DEF FlattenSeq
<1>3. CASE n # 0
  <2> DEFINE f == CHOOSE h : Joins(h, s, n)
  <2>1. Joins(f, s, n)
    BY JoinsExists
  <2>2. FlattenSeq(s) = f[n]
    <3>1. FlattenSeq(s) = IF Len(s) = 0 THEN s ELSE (CHOOSE h : Joins(h, s, Len(s)))[Len(s)]
      BY Zenon DEF FlattenSeq, Joins
    <3> QED BY <1>1, <1>3, <3>1, Zenon
  <2> HIDE DEF f
  <2>3. \A i \in 1..n : f[i] = IF i = 1 THEN s[i] ELSE f[i - 1] \o s[i]
    BY <2>1, JoinsSteps
  <2> DEFINE Held(i) == /\ f[i] \in Seq(T)
                         /\ \A j \in 1..i : \A x \in ToSet(s[j]) : x \in ToSet(f[i])
             S == {i \in Nat : i \in 1..n => Held(i)}
  <2>4. 0 \in S
    OBVIOUS
  <2>5. ASSUME NEW i \in Nat, i \in S PROVE i + 1 \in S
    <3> SUFFICES ASSUME i + 1 \in 1..n PROVE Held(i + 1)
      OBVIOUS
    <3>1. s[i + 1] \in Seq(T)
      OBVIOUS
    <3>2. CASE i = 0
      <4>1. f[1] = s[1] /\ i + 1 = 1 /\ 1..1 = {1}
        BY <2>3, <3>2
      <4> QED BY <3>1, <4>1
    <3>3. CASE i # 0
      <4>1. i \in 1..n /\ Held(i)
        BY <2>5, <3>3
      <4>2. f[i + 1] = f[i] \o s[i + 1]
        <5>1. i + 1 # 1 /\ i + 1 - 1 = i
          BY <3>3
        <5>2. PICK k \in 1..n : k = i + 1
          OBVIOUS
        <5>3. f[k] = f[k - 1] \o s[k]
          BY <2>3, <5>1, <5>2, Zenon
        <5>4. k - 1 = i
          BY <5>2
        <5> QED BY <5>2, <5>3, <5>4, Zenon
      <4>3. f[i + 1] \in Seq(T)
        BY <3>1, <4>1, <4>2, ConcatProperties
      <4>4. \A x \in ToSet(f[i]) : x \in ToSet(f[i + 1])
        <5> SUFFICES ASSUME NEW k \in DOMAIN f[i] PROVE f[i][k] \in ToSet(f[i + 1])
          BY DEF ToSet
        <5>1. /\ Len(f[i]) \in Nat /\ Len(s[i + 1]) \in Nat /\ DOMAIN f[i] = 1..Len(f[i])
              /\ DOMAIN f[i + 1] = 1..Len(f[i + 1]) /\ Len(f[i + 1]) = Len(f[i]) + Len(s[i + 1])
          BY <3>1, <4>1, <4>2, <4>3, ConcatProperties, LenProperties
        <5>2. k \in DOMAIN f[i + 1] /\ f[i + 1][k] = f[i][k]
          <6>1. k \in 1..Len(f[i]) + Len(s[i + 1]) /\ k <= Len(f[i])
            <7>1. PICK a \in Nat, b \in Nat : a = Len(f[i]) /\ b = Len(s[i + 1])
              BY <5>1
            <7>2. k \in 1..a
              BY <5>1, <7>1
            <7>3. k \in 1..a + b /\ k <= a
              BY <7>2
            <7> QED BY <7>1, <7>3
          <6>2. (f[i] \o s[i + 1])[k] = f[i][k]
            BY <3>1, <4>1, <6>1, ConcatProperties
          <6> QED BY <4>2, <5>1, <6>1, <6>2
        <5> QED BY <5>2 DEF ToSet
      <4>5. \A x \in ToSet(s[i + 1]) : x \in ToSet(f[i + 1])
        <5> SUFFICES ASSUME NEW k \in DOMAIN s[i + 1] PROVE s[i + 1][k] \in ToSet(f[i + 1])
          BY DEF ToSet
        <5>1. /\ Len(f[i]) \in Nat /\ Len(s[i + 1]) \in Nat /\ DOMAIN s[i + 1] = 1..Len(s[i + 1])
              /\ DOMAIN f[i + 1] = 1..Len(f[i + 1]) /\ Len(f[i + 1]) = Len(f[i]) + Len(s[i + 1])
          BY <3>1, <4>1, <4>2, <4>3, ConcatProperties, LenProperties
        <5>2. Len(f[i]) + k \in DOMAIN f[i + 1] /\ f[i + 1][Len(f[i]) + k] = s[i + 1][k]
          <6>1. /\ Len(f[i]) + k \in 1..Len(f[i]) + Len(s[i + 1]) /\ ~(Len(f[i]) + k <= Len(f[i]))
                /\ Len(f[i]) + k - Len(f[i]) = k
            <7>1. PICK a \in Nat, b \in Nat : a = Len(f[i]) /\ b = Len(s[i + 1])
              BY <5>1
            <7>2. k \in 1..b
              BY <5>1, <7>1
            <7>3. a + k \in 1..a + b /\ ~(a + k <= a) /\ a + k - a = k
              BY <7>2
            <7> QED BY <7>1, <7>3
          <6>2. (f[i] \o s[i + 1])[Len(f[i]) + k] = s[i + 1][k]
            BY <3>1, <4>1, <6>1, ConcatProperties
          <6> QED BY <4>2, <5>1, <6>1, <6>2
        <5> QED BY <5>2 DEF ToSet
      <4>6. \A j \in 1..i + 1 : j \in 1..i \/ j = i + 1
        OBVIOUS
      <4> QED BY <4>1, <4>3, <4>4, <4>5, <4>6
    <3> QED BY <3>2, <3>3
  <2> HIDE DEF S
  <2>6. Nat \subseteq S
    BY <2>4, <2>5, Induction
  <2>7. Held(n)
    <3>1. n \in S /\ n \in 1..n
      BY <1>3, <2>6
    <3> HIDE DEF Held
    <3> QED BY <3>1, Zenon DEF S
  <2> QED BY <2>2, <2>7
<1> QED BY <1>2, <1>3

\* The steps of a main.
StepKinds == LeavesOpen \cup {"wire", "workers", "listen", "serve"}
Step == [kind : StepKinds, module : ToSet(ModuleOrder) \cup {None}]

\* One step, and none.
LEMMA OneStep ==
    ASSUME NEW k \in StepKinds, NEW m \in ToSet(ModuleOrder) \cup {None}, NEW c \in BOOLEAN
    PROVE  /\ StepOf(k, m) \in Seq(Step) /\ If(c, StepOf(k, m)) \in Seq(Step)
           /\ ToSet(StepOf(k, m)) = {[kind |-> k, module |-> m]}
<1>1. [kind |-> k, module |-> m] \in Step
  BY DEF Step
<1> QED BY <1>1 DEF StepOf, If, ToSet

\* Any number of the same step.
LEMMA RepeatedSteps ==
    ASSUME NEW k \in StepKinds, NEW m \in ToSet(ModuleOrder) \cup {None}, NEW n \in Nat
    PROVE  Repeated(k, m, n) \in Seq(Step)
<1>1. [kind |-> k, module |-> m] \in Step
  BY DEF Step
<1>2. Repeated(k, m, n) \in [1..n -> Step]
  BY <1>1 DEF Repeated
<1> QED BY <1>2

\* The steps of a group are steps, and those of each of its modules are among them.
LEMMA InOrderFacts ==
    ASSUME NEW g, g \subseteq ToSet(ModuleOrder), NEW steps, \A m \in g : steps[m] \in Seq(Step)
    PROVE  /\ InOrder(g, steps) \in Seq(Step)
           /\ \A m \in g : ToSet(steps[m]) \subseteq ToSet(InOrder(g, steps))
<1> DEFINE n == Len(ModuleOrder)
           s == [i \in DOMAIN ModuleOrder |-> IF ModuleOrder[i] \in g THEN steps[ModuleOrder[i]] ELSE <<>>]
<1>1. n \in Nat /\ DOMAIN ModuleOrder = 1..n
  BY OrderAssumption, LenProperties
<1>2. s \in [1..n -> Seq(Step)]
  <2>1. \A i \in 1..n : s[i] \in Seq(Step)
    BY <1>1
  <2> QED BY <1>1, <2>1
<1>3. InOrder(g, steps) = FlattenSeq(s)
  BY DEF InOrder
<1>4. \A m \in g : \E i \in 1..n : s[i] = steps[m]
  BY <1>1 DEF ToSet
<1> HIDE DEF n, s
<1>5. /\ FlattenSeq(s) \in Seq(Step)
      /\ \A i \in 1..n : \A x \in ToSet(s[i]) : x \in ToSet(FlattenSeq(s))
  BY <1>1, <1>2, FlattenFacts
<1> QED BY <1>3, <1>4, <1>5

\* The elements of two sequences joined.
LEMMA ConcatElements ==
    ASSUME NEW T, NEW s \in Seq(T), NEW t \in Seq(T)
    PROVE  /\ s \o t \in Seq(T)
           /\ \A x \in ToSet(s) : x \in ToSet(s \o t)
           /\ \A x \in ToSet(t) : x \in ToSet(s \o t)
<1>1. s \o t \in Seq(T)
  BY ConcatProperties
<1>2. PICK a \in Nat, b \in Nat : a = Len(s) /\ b = Len(t) /\ DOMAIN s = 1..a /\ DOMAIN t = 1..b
  BY LenProperties
<1>3. DOMAIN (s \o t) = 1..a + b
  BY <1>1, <1>2, ConcatProperties, LenProperties
<1>4. \A i \in 1..a : i \in 1..a + b /\ i <= a
  OBVIOUS
<1>5. \A i \in 1..b : a + i \in 1..a + b /\ ~(a + i <= a) /\ a + i - a = i
  OBVIOUS
<1>6. \A i \in 1..a : (s \o t)[i] = s[i]
  BY <1>2, <1>4, ConcatProperties
<1>7. \A i \in 1..b : (s \o t)[a + i] = t[i]
  BY <1>2, <1>5, ConcatProperties
<1>8. ASSUME NEW i \in DOMAIN s PROVE s[i] \in ToSet(s \o t)
  <2>1. i \in 1..a /\ i \in DOMAIN (s \o t) /\ (s \o t)[i] = s[i]
    BY <1>2, <1>3, <1>4, <1>6
  <2> QED BY <2>1 DEF ToSet
<1>9. ASSUME NEW i \in DOMAIN t PROVE t[i] \in ToSet(s \o t)
  <2>1. i \in 1..b /\ a + i \in DOMAIN (s \o t) /\ (s \o t)[a + i] = t[i]
    BY <1>2, <1>3, <1>5, <1>7
  <2> QED BY <2>1 DEF ToSet
<1> QED BY <1>1, <1>8, <1>9 DEF ToSet

\* A main is a sequence of steps, and wires each module of its group.
LEMMA MainFacts ==
    ASSUME NEW p \in Programs, NEW g, g \subseteq Modules(p)
    PROVE  /\ MainSteps(p, g) \in Seq(Step)
           /\ \A m \in g : [kind |-> "wire", module |-> m] \in ToSet(MainSteps(p, g))
<1>1. g \subseteq ToSet(ModuleOrder)
  BY ProgramsAssumption DEF Modules
<1> DEFINE cmd == CmdPlan(p, g)
           Wired(m) == OutboxStep(p, m) \o WireSteps(p, m) \o XASteps(p, m)
                       \o If(p.modules[m].workers, StepOf("workers", m))
           channels == InOrder(g, [m \in g |-> ChannelStep(p, cmd, m)])
           databases == InOrder(g, [m \in g |-> DatabaseStep(p, cmd, m)])
           wired == InOrder(g, [m \in g |-> Wired(m)])
           last == If(\E m \in g : p.modules[m].grpc, StepOf("listen", None)) \o StepOf("serve", None)
<1>2. MainSteps(p, g) = channels \o databases \o wired \o last
  BY DEF MainSteps
<1>3. {"channel", "database", "outbox", "xa", "consume", "wire", "workers", "listen", "serve"} \subseteq StepKinds
  BY DEF StepKinds, LeavesOpen, Opens
<1> HIDE DEF cmd
<1>4. \A m \in g : ChannelStep(p, cmd, m) \in Seq(Step) /\ DatabaseStep(p, cmd, m) \in Seq(Step)
  BY <1>1, <1>3, OneStep DEF ChannelStep, DatabaseStep, If
<1>5. \A m \in g : Wired(m) \in Seq(Step) /\ [kind |-> "wire", module |-> m] \in ToSet(Wired(m))
  <2> SUFFICES ASSUME NEW m \in g
               PROVE  Wired(m) \in Seq(Step) /\ [kind |-> "wire", module |-> m] \in ToSet(Wired(m))
    OBVIOUS
  <2> DEFINE a == OutboxStep(p, m)
             b == WireSteps(p, m)
             c == XASteps(p, m)
             d == If(p.modules[m].workers, StepOf("workers", m))
  <2>1. b \in Seq(Step) /\ [kind |-> "wire", module |-> m] \in ToSet(b)
    <3> DEFINE k == Cardinality(BrokeredPolicies(p, m))
    <3>1. k \in Nat
      <4>1. IsFiniteSet(p.modules[m].policies)
        BY ProgramsAssumption DEF Modules
      <4>2. BrokeredPolicies(p, m) \subseteq p.modules[m].policies
        BY DEF BrokeredPolicies
      <4> QED BY <4>1, <4>2, FS_Subset, FS_CardinalityType
    <3>2. Repeated("consume", m, k) \in Seq(Step)
      BY <1>1, <1>3, <3>1, RepeatedSteps
    <3>3. StepOf("wire", m) \in Seq(Step) /\ [kind |-> "wire", module |-> m] \in ToSet(StepOf("wire", m))
      BY <1>1, <1>3, OneStep
    <3>4. b = Repeated("consume", m, k) \o StepOf("wire", m)
      BY DEF WireSteps
    <3> QED BY <3>2, <3>3, <3>4, ConcatElements
  <2>2. a \in Seq(Step) /\ c \in Seq(Step) /\ d \in Seq(Step)
    <3>1. a \in Seq(Step) /\ d \in Seq(Step)
      BY <1>1, <1>3, OneStep DEF OutboxStep, If
    <3>2. p.modules[m].databases \in Nat
      BY ProgramsAssumption DEF Modules
    <3>3. Repeated("xa", m, p.modules[m].databases) \in Seq(Step)
      BY <1>1, <1>3, <3>2, RepeatedSteps
    <3>4. c \in Seq(Step)
      BY <3>3 DEF XASteps, If
    <3> QED BY <3>1, <3>4
  <2>3. Wired(m) = a \o b \o c \o d
    OBVIOUS
  <2> HIDE DEF a, b, c, d, Wired
  <2>4. a \o b \in Seq(Step) /\ [kind |-> "wire", module |-> m] \in ToSet(a \o b)
    BY <2>1, <2>2, ConcatElements
  <2>5. a \o b \o c \in Seq(Step) /\ [kind |-> "wire", module |-> m] \in ToSet(a \o b \o c)
    BY <2>2, <2>4, ConcatElements
  <2> QED BY <2>2, <2>3, <2>5, ConcatElements
<1>6. channels \in Seq(Step) /\ databases \in Seq(Step)
  <2> DEFINE cs == [m \in g |-> ChannelStep(p, cmd, m)]
             ds == [m \in g |-> DatabaseStep(p, cmd, m)]
  <2>1. \A m \in g : cs[m] \in Seq(Step) /\ ds[m] \in Seq(Step)
    BY <1>4
  <2>2. channels = InOrder(g, cs) /\ databases = InOrder(g, ds)
    OBVIOUS
  <2> HIDE DEF cs, ds, channels, databases
  <2> QED BY <1>1, <2>1, <2>2, InOrderFacts
<1>7. wired \in Seq(Step) /\ \A m \in g : [kind |-> "wire", module |-> m] \in ToSet(wired)
  <2> HIDE DEF Wired
  <2> DEFINE ws == [m \in g |-> Wired(m)]
  <2>1. \A m \in g : ws[m] \in Seq(Step) /\ [kind |-> "wire", module |-> m] \in ToSet(ws[m])
    BY <1>5
  <2>2. wired = InOrder(g, ws)
    OBVIOUS
  <2> HIDE DEF ws, wired
  <2> QED BY <1>1, <2>1, <2>2, InOrderFacts
<1>8. last \in Seq(Step)
  <2>1. /\ If(\E m \in g : p.modules[m].grpc, StepOf("listen", None)) \in Seq(Step)
        /\ StepOf("serve", None) \in Seq(Step)
    BY <1>3, OneStep DEF If
  <2> QED BY <2>1, ConcatElements
<1> HIDE DEF channels, databases, wired, last, Wired
<1>9. channels \o databases \in Seq(Step)
  BY <1>6, ConcatElements
<1>10. /\ channels \o databases \o wired \in Seq(Step)
       /\ \A m \in g : [kind |-> "wire", module |-> m] \in ToSet(channels \o databases \o wired)
  BY <1>7, <1>9, ConcatElements
<1> QED BY <1>2, <1>8, <1>10, ConcatElements

\* Producers of a plan are modules of the group that have a channel.
LEMMA PlanFacts ==
    ASSUME NEW p, NEW g, CmdPlan(p, g) # PlanError
    PROVE  LET cmd == CmdPlan(p, g) IN
           /\ cmd.durable = {m \in g : /\ p.modules[m].useCases /\ p.modules[m].public # {}
                                        /\ OutgoingOf(p, m) # {} /\ Durable(p, m)}
           /\ cmd.plain = {m \in g : /\ p.modules[m].useCases /\ p.modules[m].public # {}
                                      /\ OutgoingOf(p, m) # {} /\ ~Durable(p, m)}
           /\ cmd.dispatcher = DispatcherNeeded(p, g, cmd.plain)
BY DEF CmdPlan

LEMMA ProducersChannel ==
    ASSUME NEW p, NEW m, OutgoingOf(p, m) # {}
    PROVE  ProducerChannel(p, m) \in p.channels /\ ProducerChannel(p, m).from = m
<1>1. ProducerChannel(p, m) \in OutgoingOf(p, m)
  BY DEF ProducerChannel
<1> QED BY <1>1 DEF OutgoingOf

ProgramFits ==
    program \in Programs /\ \A m \in Modules(program) : CmdPlan(program, GroupOf(program, m)) # PlanError
\* A main that runs holds what it got to, and one whose body failed holds of what its body
\* opens only the resource it failed at, or a single one.
MainRecords == [at : Nat, end : {"no", "body", "fatal"}, open : SUBSET Nat]
MainFits(s) ==
    LET steps == StepsOf(s)
    IN  /\ main[s].at <= Len(steps) /\ main[s].open \subseteq 1..main[s].at + 1
        /\ main[s].end = "no" => main[s].open = {i \in 1..main[s].at : steps[i].kind \in LeavesOpen}
        /\ main[s].end = "body" =>
             \A i, j \in main[s].open \cup {main[s].at + 1} :
                steps[i].kind \in Opens /\ steps[j].kind \in Opens => steps[i] = steps[j]
MainsFit == main \in [Services(program) -> MainRecords] /\ \A s \in Services(program) : MainFits(s)
\* Every event was committed by its own module; what is queued or was heard is one of them.
CommitsFit ==
    /\ commits \in Seq([module : Modules(program), ev : UNION {program.modules[m].events : m \in Modules(program)},
                        serving : BOOLEAN])
    /\ Len(commits) <= MaxCommits
    /\ \A n \in DOMAIN commits : commits[n].ev \in program.modules[commits[n].module].events
    /\ \A q \in queued : q.number \in DOMAIN commits /\ q.channel \in program.channels
    /\ \A h \in heard : h.number \in DOMAIN commits /\ h.by \in PoliciesOf(program)

WiringInv ==
    /\ ProgramFits /\ MainsFit /\ CommitsFit
    /\ HearersAreSubscribed /\ LocalPoliciesHear /\ QueuesHoldTheirPublicEvents

\* The steps of a service's main.
LEMMA ServiceSteps ==
    ASSUME program \in Programs, NEW s
    PROVE  /\ StepsOf(s) \in Seq(Step) /\ Len(StepsOf(s)) \in Nat /\ DOMAIN StepsOf(s) = 1..Len(StepsOf(s))
           /\ \A m \in GroupNamed(program, s) :
                 \E i \in 1..Len(StepsOf(s)) : StepsOf(s)[i] = [kind |-> "wire", module |-> m]
<1>1. GroupNamed(program, s) \subseteq Modules(program)
  BY DEF GroupNamed
<1>2. /\ StepsOf(s) \in Seq(Step)
      /\ \A m \in GroupNamed(program, s) : [kind |-> "wire", module |-> m] \in ToSet(StepsOf(s))
  BY <1>1, MainFacts DEF StepsOf
<1>3. Len(StepsOf(s)) \in Nat /\ DOMAIN StepsOf(s) = 1..Len(StepsOf(s))
  BY <1>2, LenProperties
<1> QED BY <1>2, <1>3 DEF ToSet

\* Without run(), the body of a main opens one resource at most.
LEMMA OneResource ==
    ASSUME program \in Programs, NEW s, ~RunMode(program, GroupNamed(program, s)),
           NEW i \in DOMAIN StepsOf(s), NEW j \in DOMAIN StepsOf(s),
           StepsOf(s)[i].kind \in Opens, StepsOf(s)[j].kind \in Opens
    PROVE  StepsOf(s)[i] = StepsOf(s)[j]
<1> DEFINE S == {x \in ToSet(StepsOf(s)) : x.kind \in Opens}
           u == StepsOf(s)[i]
           v == StepsOf(s)[j]
<1>1. PICK n \in Nat : DOMAIN StepsOf(s) = 1..n
  BY ServiceSteps
<1>2. u \in S /\ v \in S
  BY DEF ToSet
<1>3. IsFiniteSet(S) /\ Cardinality(S) \in Nat
  <2> DEFINE f == StepsOf(s)
  <2>1. IsFiniteSet(1..n)
    BY <1>1, FS_Interval
  <2> DEFINE T == {f[k] : k \in 1..n}
             h == [k \in 1..n |-> f[k]]
  <2>2. h \in Surjection(1..n, T)
    BY DEF Surjection
  <2>3. IsFiniteSet(T)
    BY <2>1, <2>2, FS_Surjection
  <2>4. S \subseteq T
    BY <1>1 DEF ToSet
  <2> QED BY <2>3, <2>4, FS_Subset, FS_CardinalityType
<1>4. ~(Cardinality(S) >= 2)
  BY DEF RunMode, StepsOf
<1> HIDE DEF S, u, v
<1> SUFFICES ASSUME u # v PROVE FALSE
  BY DEF u, v
<1>5. {u, v} \subseteq S /\ IsFiniteSet({u, v}) /\ Cardinality({u, v}) = 2
  <2>1. IsFiniteSet({u}) /\ Cardinality({u}) = 1
    BY FS_Singleton
  <2>2. IsFiniteSet({u} \cup {v}) /\ Cardinality({u} \cup {v}) = 2
    <3>1. /\ IsFiniteSet({u} \cup {v})
          /\ Cardinality({u} \cup {v}) = IF v \in {u} THEN Cardinality({u}) ELSE Cardinality({u}) + 1
      BY <2>1, FS_AddElement, Zenon
    <3>2. v \notin {u}
      OBVIOUS
    <3> QED BY <2>1, <3>1, <3>2
  <2>3. {u} \cup {v} = {u, v}
    OBVIOUS
  <2> QED BY <1>2, <2>2, <2>3
<1>6. Cardinality({u, v}) <= Cardinality(S)
  BY <1>3, <1>5, FS_Subset
<1> QED BY <1>3, <1>4, <1>5, <1>6

\* A main goes on, or ends as it may.
LEMMA MainStepKeeps ==
    ASSUME ProgramFits, MainsFit, NEW s \in DOMAIN main, MainStep(s) \/ MainFails(s) \/ MainDies(s)
    PROVE  MainsFit'
<1> DEFINE a == main[s].at
           n == a + 1
           steps == StepsOf(s)
           open == main[s].open
<1>1. /\ s \in Services(program) /\ a \in Nat /\ n \in Nat /\ main[s].end = "no"
      /\ open = {i \in 1..a : steps[i].kind \in LeavesOpen} /\ open \subseteq 1..n /\ open \subseteq 1..a
      /\ a <= Len(steps) /\ Len(steps) \in Nat /\ DOMAIN steps = 1..Len(steps)
  <2>1. s \in Services(program) /\ main[s] \in MainRecords /\ main[s].end = "no"
    BY DEF MainsFit, MainStep, MainFails, MainDies, IsUp
  <2>2. MainFits(s)
    BY <2>1 DEF MainsFit
  <2>3. Len(steps) \in Nat /\ DOMAIN steps = 1..Len(steps)
    BY ServiceSteps DEF ProgramFits
  <2> QED BY <2>1, <2>2, <2>3 DEF MainFits, MainRecords
<1>2. program' = program /\ Services(program)' = Services(program) /\ \A z : StepsOf(z)' = StepsOf(z)
  <2>1. program' = program
    BY DEF MainStep, MainFails, MainDies
  <2> QED BY <2>1 DEF StepsOf
<1>3. ASSUME NEW r \in MainRecords, main' = [main EXCEPT ![s] = r],
             r.at <= Len(steps), r.open \subseteq 1..r.at + 1,
             r.end = "no" => r.open = {i \in 1..r.at : steps[i].kind \in LeavesOpen},
             r.end = "body" => \A i, j \in r.open \cup {r.at + 1} :
                steps[i].kind \in Opens /\ steps[j].kind \in Opens => steps[i] = steps[j]
      PROVE  MainsFit'
  <2>1. main' \in [Services(program) -> MainRecords] /\ main'[s] = r
        /\ \A z \in Services(program) : z # s => main'[z] = main[z]
    BY <1>1, <1>3 DEF MainsFit
  <2>2. MainFits(s)'
    BY <1>2, <1>3, <2>1 DEF MainFits
  <2>3. \A z \in Services(program) : z # s => MainFits(z)'
    BY <1>2, <2>1 DEF MainsFit, MainFits
  <2> QED BY <1>2, <2>1, <2>2, <2>3 DEF MainsFit
<1> HIDE DEF steps, open, a, n
<1>4. CASE MainStep(s)
  <2> DEFINE r == [at |-> n, end |-> "no", open |-> open \cup IF steps[n].kind \in LeavesOpen THEN {n} ELSE {}]
  <2>1. n <= Len(steps) /\ main' = [main EXCEPT ![s] = r]
    BY <1>4 DEF MainStep, steps, open, a, n
  <2>2. r \in MainRecords /\ r.open \subseteq 1..n + 1
    <3>1. r.open \subseteq open \cup {n}
      OBVIOUS
    <3>2. r.open \subseteq Nat /\ r.open \subseteq 1..n + 1
      BY <1>1, <3>1 DEF n
    <3> HIDE DEF r
    <3>3. r = [at |-> n, end |-> "no", open |-> r.open]
      BY DEF r
    <3> QED BY <1>1, <3>2, <3>3 DEF MainRecords
  <2>3. r.open = {i \in 1..n : steps[i].kind \in LeavesOpen}
    <3>1. 1..n = 1..a \cup {n}
      BY <1>1 DEF n
    <3> QED BY <1>1, <3>1
  <2> QED BY <1>3, <2>1, <2>2, <2>3
<1>5. CASE MainFails(s)
  <2> DEFINE run == RunMode(program, GroupNamed(program, s))
  <2>1. PICK late \in SUBSET {n} :
           /\ n <= Len(steps)
           /\ main' = [main EXCEPT ![s] = [at |-> a, end |-> "body",
                                           open |-> IF run THEN Undeferred(s) ELSE open \cup late]]
    BY <1>5 DEF MainFails, steps, open, a, n
  <2> DEFINE kept == IF run THEN Undeferred(s) ELSE open \cup late
             r == [at |-> a, end |-> "body", open |-> kept]
  <2>2. Undeferred(s) = {i \in open : steps[i].kind \notin Opens}
    BY DEF Undeferred, steps, open
  <2>3. kept \subseteq 1..n /\ kept \in SUBSET Nat
    <3>1. kept \subseteq open \cup {n}
      BY <2>2
    <3>2. open \cup {n} \subseteq 1..n /\ 1..n \subseteq Nat
      BY <1>1 DEF n
    <3> QED BY <3>1, <3>2
  <2>4. ASSUME NEW i \in kept \cup {n}, NEW j \in kept \cup {n},
               steps[i].kind \in Opens, steps[j].kind \in Opens
        PROVE  steps[i] = steps[j]
    <3>1. CASE run
      <4>1. i = n /\ j = n
        BY <2>2, <2>4, <3>1
      <4> QED BY <4>1
    <3>2. CASE ~run
      <4>1. i \in DOMAIN StepsOf(s) /\ j \in DOMAIN StepsOf(s)
        BY <1>1, <2>1, <2>3 DEF steps, n
      <4> QED BY <2>4, <3>2, <4>1, OneResource DEF ProgramFits, steps
    <3> QED BY <3>1, <3>2
  <2> HIDE DEF kept
  <2>5. r \in MainRecords /\ r.open \subseteq 1..r.at + 1 /\ r.at <= Len(steps)
    BY <1>1, <2>3 DEF MainRecords, n
  <2>6. main' = [main EXCEPT ![s] = r]
    BY <2>1 DEF kept
  <2>7. r.end = "body" => \A i, j \in r.open \cup {r.at + 1} :
           steps[i].kind \in Opens /\ steps[j].kind \in Opens => steps[i] = steps[j]
    BY <2>4 DEF n
  <2> QED BY <1>3, <2>5, <2>6, <2>7
<1>6. CASE MainDies(s)
  <2> DEFINE r == [at |-> a, end |-> "fatal", open |-> open]
  <2>1. main' = [main EXCEPT ![s] = r]
    BY <1>6 DEF MainDies, open, a
  <2>2. r \in MainRecords /\ r.open \subseteq 1..r.at + 1 /\ r.at <= Len(steps)
    BY <1>1 DEF MainRecords, n
  <2> QED BY <1>3, <2>1, <2>2
<1> QED BY <1>4, <1>5, <1>6

\* What a commit puts on a broker's queue is a channel of the program, and one of its own
\* where the publisher knows the module.
LEMMA PublisherFacts ==
    ASSUME WiringInv, NEW m \in Modules(program), NEW ev \in program.modules[m].events,
           NEW c \in Publisher(program, m, ev).channels
    PROVE  LET cmd == CmdPlan(program, GroupOf(program, m)) IN
           /\ c \in program.channels
           /\ m \in cmd.durable \/ cmd.dispatcher => c.from = m /\ ev \in program.modules[m].public
<1> DEFINE g == GroupOf(program, m)
           cmd == CmdPlan(program, g)
<1>1. cmd # PlanError /\ program \in Programs /\ g \subseteq Modules(program)
  BY DEF WiringInv, ProgramFits, GroupOf
<1>2. \A k \in cmd.durable \cup cmd.plain : k \in g /\ OutgoingOf(program, k) # {}
  BY <1>1, PlanFacts
<1>3. \A k \in cmd.durable \cup cmd.plain :
         ProducerChannel(program, k) \in program.channels /\ ProducerChannel(program, k).from = k
  BY <1>2, ProducersChannel
<1> HIDE DEF cmd
<1>4. CASE m \in cmd.durable
  BY <1>3, <1>4 DEF Publisher, cmd, g
<1>5. CASE m \notin cmd.durable /\ cmd.dispatcher
  <2>1. PICK k \in cmd.plain : ev \in program.modules[k].public /\ c = ProducerChannel(program, k)
    BY <1>5 DEF Publisher, cmd, g
  <2>2. k \in Modules(program) /\ ev \in program.modules[k].events
    BY <1>1, <1>2, <2>1, ProgramsAssumption DEF Modules
  <2>3. k = m
    BY <1>1, <2>2, ProgramsAssumption DEF Modules
  <2> QED BY <1>3, <2>1, <2>3
<1>6. CASE m \notin cmd.durable /\ ~cmd.dispatcher
  BY <1>3, <1>6 DEF Publisher, cmd, g
<1> QED BY <1>4, <1>5, <1>6 DEF cmd, g

\* The generator's programs fit, with nothing done yet.
LEMMA FitsFirst == WiringInit => WiringInv
<1> SUFFICES ASSUME WiringInit PROVE WiringInv
  OBVIOUS
<1>1. ProgramFits
  BY DEF WiringInit, Generates, ProgramFits
<1>2. MainsFit
  <2>1. main = [s \in Services(program) |-> [at |-> 0, end |-> "no", open |-> {}]]
    BY DEF WiringInit
  <2>2. [at |-> 0, end |-> "no", open |-> {}] \in MainRecords
    BY DEF MainRecords
  <2>3. ASSUME NEW s \in Services(program) PROVE MainFits(s)
    <3>1. main[s].at = 0 /\ main[s].end = "no" /\ main[s].open = {}
      BY <2>1
    <3>2. Len(StepsOf(s)) \in Nat
      BY <1>1, ServiceSteps DEF ProgramFits
    <3> QED BY <3>1, <3>2 DEF MainFits
  <2> QED BY <2>1, <2>2, <2>3 DEF MainsFit
<1>3. CommitsFit
  BY OrderAssumption DEF WiringInit, CommitsFit
<1>4. HearersAreSubscribed /\ LocalPoliciesHear /\ QueuesHoldTheirPublicEvents
  BY DEF WiringInit, HearersAreSubscribed, LocalPoliciesHear, QueuesHoldTheirPublicEvents
<1> QED BY <1>1, <1>2, <1>3, <1>4 DEF WiringInv

\* A main's progress changes nothing that was committed, queued or heard.
LEMMA MainsKeepWiring ==
    ASSUME WiringInv, NEW s \in DOMAIN main, MainStep(s) \/ MainFails(s) \/ MainDies(s)
    PROVE  WiringInv'
<1>1. MainsFit'
  BY MainStepKeeps DEF WiringInv
<1>2. program' = program /\ commits' = commits /\ queued' = queued /\ heard' = heard
  BY DEF MainStep, MainFails, MainDies
<1> QED BY <1>1, <1>2 DEF WiringInv, ProgramFits, CommitsFit, HearersAreSubscribed, LocalPoliciesHear,
                          QueuesHoldTheirPublicEvents

\* A main that serves has wired every module of its group.
LEMMA ServingIsWired ==
    ASSUME ProgramFits, MainsFit, NEW m \in Modules(program), Serving(program.modules[m].service),
           NEW x \in GroupOf(program, m)
    PROVE  Done(program.modules[m].service, "wire", x)
<1> DEFINE s == program.modules[m].service
<1>1. x \in GroupNamed(program, s)
  BY DEF GroupOf, GroupNamed
<1>2. PICK i \in 1..Len(StepsOf(s)) : StepsOf(s)[i] = [kind |-> "wire", module |-> x]
  BY <1>1, ServiceSteps DEF ProgramFits
<1> QED BY <1>2 DEF Serving, Done

\* A committed event reaches the Policies of its process, and its own queues.
LEMMA CommitKeepsWiring ==
    ASSUME WiringInv, NEW m \in Modules(program), NEW ev \in program.modules[m].events, CommitEvent(m, ev)
    PROVE  WiringInv'
<1> DEFINE s == program.modules[m].service
           n == Len(commits) + 1
           out == Publisher(program, m, ev)
           Told == {[number |-> n, by |-> x] : x \in {y \in LocalHearers(program, m, ev) :
                                                        out.local /\ Done(s, "wire", y.module)}}
           Sent == {[number |-> n, channel |-> c] : c \in {k \in out.channels : k.provider = "rabbitmq"}}
           new == [module |-> m, ev |-> ev, serving |-> Serving(s)]
<1>1. /\ n <= MaxCommits /\ commits' = Append(commits, new) /\ queued' = queued \cup Sent
      /\ heard' = heard \cup Told /\ program' = program /\ main' = main
  BY DEF CommitEvent
<1>2. ProgramFits' /\ MainsFit'
  BY <1>1 DEF WiringInv, ProgramFits, MainsFit, MainFits, StepsOf
<1> DEFINE Commit == [module : Modules(program),
                      ev : UNION {program.modules[k].events : k \in Modules(program)}, serving : BOOLEAN]
<1>3. new \in Commit /\ new.module = m /\ new.ev = ev /\ new.serving = Serving(s)
  <2>1. Serving(s) \in BOOLEAN
    BY DEF Serving
  <2> QED BY <2>1
<1>4. commits \in Seq(Commit)
  BY DEF WiringInv, CommitsFit
<1> HIDE DEF new, Commit
<1>5. /\ commits' \in Seq(Commit) /\ n \in Nat /\ Len(commits') = n
      /\ DOMAIN commits' = DOMAIN commits \cup {n} /\ n \notin DOMAIN commits
      /\ commits'[n] = new /\ \A i \in DOMAIN commits : commits'[i] = commits[i]
  <2>1. PICK a \in Nat : a = Len(commits) /\ DOMAIN commits = 1..a
    BY <1>4, LenProperties
  <2>2. /\ commits' \in Seq(Commit) /\ Len(commits') = a + 1
        /\ \A i \in 1..a : commits'[i] = commits[i]
        /\ commits'[a + 1] = new
    BY <1>1, <1>3, <1>4, <2>1, AppendProperties
  <2>3. DOMAIN commits' = 1..a + 1
    BY <2>2, LenProperties
  <2>4. 1..a + 1 = (1..a) \cup {a + 1} /\ a + 1 \notin 1..a
    OBVIOUS
  <2> QED BY <2>1, <2>2, <2>3, <2>4
<1>6. \A q \in queued : q.number \in DOMAIN commits /\ q.channel \in program.channels
  BY DEF WiringInv, CommitsFit
<1>7. \A h \in heard : h.number \in DOMAIN commits /\ h.by \in PoliciesOf(program)
  BY DEF WiringInv, CommitsFit
<1>8. \A q \in Sent : q.number = n /\ q.channel \in out.channels
  OBVIOUS
<1>9. \A h \in Told : h.number = n /\ h.by \in LocalHearers(program, m, ev)
  OBVIOUS
<1>10. \A x \in LocalHearers(program, m, ev) :
          out.local /\ Done(s, "wire", x.module) => [number |-> n, by |-> x] \in Told
  OBVIOUS
<1>11. \A x \in LocalHearers(program, m, ev) :
          /\ x \in PoliciesOf(program) /\ x.module \in GroupOf(program, m) /\ x.policy.on = ev
          /\ TargetOf(program, x) = "dispatcher" /\ ~OnDurableOutbox(program, x)
  BY DEF LocalHearers
<1> HIDE DEF Told, Sent, n
<1>12. CommitsFit'
  <2>1. \A c \in out.channels : c \in program.channels
    BY PublisherFacts
  <2>2. \A i \in DOMAIN commits' : commits'[i].ev \in program.modules[commits'[i].module].events
    BY <1>3, <1>5 DEF WiringInv, CommitsFit
  <2>3. \A q \in queued' : q.number \in DOMAIN commits' /\ q.channel \in program.channels
    BY <1>1, <1>5, <1>6, <1>8, <2>1
  <2>4. \A h \in heard' : h.number \in DOMAIN commits' /\ h.by \in PoliciesOf(program)
    BY <1>1, <1>5, <1>7, <1>9, <1>11
  <2>5. Len(commits') <= MaxCommits
    BY <1>1, <1>5
  <2> QED BY <1>1, <1>5, <2>2, <2>3, <2>4, <2>5 DEF CommitsFit, Commit
<1>13. HearersAreSubscribed'
  <2> SUFFICES ASSUME NEW h \in heard'
               PROVE  /\ h.by.policy.on = commits'[h.number].ev
                      /\ IF TargetOf(program, h.by) = "dispatcher"
                         THEN h.by.module \in GroupOf(program, commits'[h.number].module)
                         ELSE ChannelBetween(program, commits'[h.number].module, h.by.module) # None
    BY <1>1 DEF HearersAreSubscribed
  <2>1. CASE h \in heard
    BY <1>5, <1>7, <2>1 DEF WiringInv, HearersAreSubscribed
  <2>2. CASE h \in Told
    BY <1>3, <1>5, <1>9, <1>11, <2>2
  <2> QED BY <1>1, <2>1, <2>2
<1>14. LocalPoliciesHear'
  <2> SUFFICES ASSUME NEW i \in DOMAIN commits', NEW x \in PoliciesOf(program),
                      commits'[i].serving, x.policy.on = commits'[i].ev,
                      x.module \in GroupOf(program, commits'[i].module),
                      TargetOf(program, x) = "dispatcher", ~OnDurableOutbox(program, x),
                      ~Durable(program, commits'[i].module)
               PROVE  [number |-> i, by |-> x] \in heard'
    BY <1>1 DEF LocalPoliciesHear
  <2>1. CASE i \in DOMAIN commits
    <3>1. [number |-> i, by |-> x] \in heard
      BY <1>5, <2>1 DEF WiringInv, LocalPoliciesHear
    <3> QED BY <1>1, <3>1
  <2>2. CASE i = n
    <3>1. /\ Serving(s) /\ x.policy.on = ev /\ x.module \in GroupOf(program, m) /\ ~Durable(program, m)
      BY <1>3, <1>5, <2>2
    <3>2. x \in LocalHearers(program, m, ev)
      BY <3>1 DEF LocalHearers
    <3>3. Done(s, "wire", x.module)
      BY <3>1, ServingIsWired DEF WiringInv
    <3>4. out.local
      <4> DEFINE g == GroupOf(program, m)
                 cmd == CmdPlan(program, g)
      <4>1. cmd # PlanError
        BY DEF WiringInv, ProgramFits
      <4>2. m \notin cmd.durable /\ cmd.dispatcher = DispatcherNeeded(program, g, cmd.plain)
        BY <3>1, <4>1, PlanFacts
      <4>3. x.policy \in program.modules[x.module].policies
        BY DEF PoliciesOf
      <4>4. DispatcherNeeded(program, g, cmd.plain)
        <5> HIDE DEF cmd
        <5> QED BY <3>1, <4>3 DEF DispatcherNeeded
      <4> QED BY <4>2, <4>4 DEF Publisher
    <3> QED BY <1>1, <1>10, <2>2, <3>2, <3>3, <3>4
  <2> QED BY <1>5, <2>1, <2>2
<1>15. QueuesHoldTheirPublicEvents'
  <2> DEFINE Plan(k) == CmdPlan(program, GroupOf(program, k))
  <2> SUFFICES ASSUME NEW q \in queued',
                      \/ commits'[q.number].module \in Plan(commits'[q.number].module).durable
                      \/ Plan(commits'[q.number].module).dispatcher
               PROVE  /\ q.channel.from = commits'[q.number].module
                      /\ commits'[q.number].ev \in program.modules[commits'[q.number].module].public
    BY <1>1 DEF QueuesHoldTheirPublicEvents
  <2>1. CASE q \in queued
    BY <1>5, <1>6, <2>1 DEF WiringInv, QueuesHoldTheirPublicEvents
  <2>2. CASE q \in Sent
    <3>1. q.number = n /\ q.channel \in out.channels /\ commits'[q.number].module = m /\ commits'[q.number].ev = ev
      BY <1>3, <1>5, <1>8, <2>2
    <3> QED BY <3>1, PublisherFacts
  <2> QED BY <1>1, <2>1, <2>2
<1> QED BY <1>2, <1>12, <1>13, <1>14, <1>15 DEF WiringInv

\* A Policy that takes an event off a queue is behind a channel from the event's module.
LEMMA ConsumeKeepsWiring ==
    ASSUME WiringInv, NEW q \in queued, ConsumeEvent(q)
    PROVE  WiringInv'
<1>1. program' = program /\ main' = main /\ commits' = commits /\ queued' \subseteq queued
  BY DEF ConsumeEvent
<1>2. PICK x \in ConsumersOf(program, q.channel) :
         \/ x.policy.on = commits[q.number].ev /\ heard' = heard \cup {[number |-> q.number, by |-> x]}
         \/ heard' = heard
  BY DEF ConsumeEvent
<1>3. /\ q.number \in DOMAIN commits /\ x \in PoliciesOf(program) /\ TargetOf(program, x) = "channel"
  BY <1>2 DEF WiringInv, CommitsFit, ConsumersOf
<1>4. ProgramFits' /\ MainsFit'
  BY <1>1 DEF WiringInv, ProgramFits, MainsFit, MainFits, StepsOf
<1>5. heard \subseteq heard' /\ \A h \in heard' : h \in heard \/ (h.number = q.number /\ h.by = x)
  BY <1>2
<1>6. CommitsFit'
  BY <1>1, <1>3, <1>5 DEF WiringInv, CommitsFit
<1>7. LocalPoliciesHear' /\ QueuesHoldTheirPublicEvents'
  BY <1>1, <1>5 DEF WiringInv, LocalPoliciesHear, QueuesHoldTheirPublicEvents
<1>8. x.policy.on = commits[q.number].ev => ChannelBetween(program, commits[q.number].module, x.module) # None
  <2> SUFFICES ASSUME x.policy.on = commits[q.number].ev
               PROVE  ChannelBetween(program, commits[q.number].module, x.module) # None
    OBVIOUS
  <2>1. /\ commits[q.number].module \in Modules(program)
        /\ commits[q.number].ev \in program.modules[commits[q.number].module].events
    <3> DEFINE Commit == [module : Modules(program),
                          ev : UNION {program.modules[m].events : m \in Modules(program)}, serving : BOOLEAN]
    <3>a. commits \in Seq(Commit)
      BY DEF WiringInv, CommitsFit
    <3>b. \A c \in Commit : c.module \in Modules(program)
      OBVIOUS
    <3> HIDE DEF Commit
    <3>1. commits[q.number] \in Commit
      BY <1>3, <3>a, ElementOfSeq, LenProperties
    <3> QED BY <1>3, <3>b, <3>1 DEF WiringInv, CommitsFit
  <2>2. OriginOf(program, x.policy.on) = commits[q.number].module
    BY <2>1, ProgramsAssumption DEF OriginOf, Modules, WiringInv, ProgramFits
  <2>3. ChannelBetween(program, OriginOf(program, x.policy.on), x.module) # None
    BY <1>3 DEF TargetOf
  <2> QED BY <2>2, <2>3
<1>9. HearersAreSubscribed'
  <2> SUFFICES ASSUME NEW h \in heard'
               PROVE  /\ h.by.policy.on = commits[h.number].ev
                      /\ IF TargetOf(program, h.by) = "dispatcher"
                         THEN h.by.module \in GroupOf(program, commits[h.number].module)
                         ELSE ChannelBetween(program, commits[h.number].module, h.by.module) # None
    BY <1>1 DEF HearersAreSubscribed
  <2>1. CASE h \in heard
    BY <2>1 DEF WiringInv, HearersAreSubscribed
  <2>2. CASE h \notin heard
    <3>1. h.number = q.number /\ h.by = x /\ x.policy.on = commits[q.number].ev
      BY <1>2, <1>5, <2>2
    <3> QED BY <1>3, <1>8, <3>1
  <2> QED BY <2>1, <2>2
<1> QED BY <1>4, <1>6, <1>7, <1>9 DEF WiringInv

\* What holds of every main.
LEMMA WiredMains == WiringInv => ServicesAreWired
<1> SUFFICES ASSUME WiringInv PROVE ServicesAreWired
  OBVIOUS
<1>1. ASSUME NEW s \in DOMAIN main
      PROVE  MainFits(s) /\ main[s].at \in 0..Len(StepsOf(s)) /\ main[s].end \in {"no", "body", "fatal"}
  <2>1. MainFits(s) /\ main[s] \in MainRecords
    BY DEF WiringInv, MainsFit
  <2>2. Len(StepsOf(s)) \in Nat
    BY ServiceSteps DEF WiringInv, ProgramFits
  <2> QED BY <2>1, <2>2 DEF MainFits, MainRecords
<1>2. FailedBodyClosesTheRest
  BY <1>1 DEF FailedBodyClosesTheRest, MainFits
<1>3. WiringTypeOK
  BY <1>1 DEF WiringTypeOK, MainFits, IsUp, WiringInv, CommitsFit
<1> QED BY <1>2, <1>3 DEF ServicesAreWired, WiringInv

\* For any programs whose events each belong to one module, and however their mains, their
\* Workers and their brokers interleave: an event is heard by the Policies it is meant for
\* and by no other, a queue holds the public events of its own module, and a main whose
\* body fails has closed every resource but the one it failed at, or holds a single one.
\* A log.Fatal within Wire or in the gRPC goroutine is a step of the model of which nothing
\* is claimed (codegen.go: the mains and their publishers; run_error.go).
THEOREM WiredServices == WiringSpec => []ServicesAreWired
<1>1. WiringInv /\ [WiringNext]_wiringVars => WiringInv'
  <2> SUFFICES ASSUME WiringInv, [WiringNext]_wiringVars PROVE WiringInv'
    OBVIOUS
  <2>1. ASSUME NEW s \in DOMAIN main, MainStep(s) \/ MainFails(s) \/ MainDies(s) PROVE WiringInv'
    BY <2>1, MainsKeepWiring
  <2>2. ASSUME NEW m \in Modules(program), NEW ev \in program.modules[m].events, CommitEvent(m, ev)
        PROVE  WiringInv'
    BY <2>2, CommitKeepsWiring
  <2>3. ASSUME NEW q \in queued, ConsumeEvent(q) PROVE WiringInv'
    BY <2>3, ConsumeKeepsWiring
  <2>4. CASE UNCHANGED wiringVars
    <3>1. program' = program /\ main' = main /\ commits' = commits /\ queued' = queued /\ heard' = heard
      BY <2>4 DEF wiringVars
    <3>2. ProgramFits' /\ MainsFit'
      BY <3>1 DEF WiringInv, ProgramFits, MainsFit, MainFits, StepsOf
    <3> QED BY <3>1, <3>2 DEF WiringInv, CommitsFit, HearersAreSubscribed, LocalPoliciesHear,
                              QueuesHoldTheirPublicEvents
  <2> QED BY <2>1, <2>2, <2>3, <2>4 DEF WiringNext
<1> QED BY <1>1, FitsFirst, WiredMains, PTL DEF WiringSpec

-----------------------------------------------------------------------------
(* RateLimit: any declarations, replicas, clients and clock.                *)

\* The walk of Only, as a predicate of the function it defines.
Walks(f, s, S) ==
    f = [i \in 0..Len(s) |-> IF i = 0 THEN <<>>
                             ELSE IF s[i] \in S THEN Append(f[i - 1], s[i]) ELSE f[i - 1]]

\* A function that takes the steps is the walk.
LEMMA WalksFrom ==
    ASSUME NEW g, NEW s, NEW S, NEW n \in Nat, n = Len(s), g = [i \in 0..n |-> g[i]], g[0] = <<>>,
           \A i \in 1..n : g[i] = IF s[i] \in S THEN Append(g[i - 1], s[i]) ELSE g[i - 1]
    PROVE  Walks(g, s, S)
<1> DEFINE h == [i \in 0..n |-> IF i = 0 THEN <<>> ELSE IF s[i] \in S THEN Append(g[i - 1], s[i]) ELSE g[i - 1]]
<1>1. \A i \in 0..n : h[i] = g[i]
  <2> SUFFICES ASSUME NEW i \in 0..n PROVE h[i] = g[i]
    OBVIOUS
  <2>1. CASE i = 0
    BY <2>1
  <2>2. CASE i # 0
    <3>1. i \in 1..n
      BY <2>2
    <3>2. h[i] = IF s[i] \in S THEN Append(g[i - 1], s[i]) ELSE g[i - 1]
      BY <2>2, Zenon
    <3> QED BY <3>1, <3>2, Zenon
  <2> QED BY <2>1, <2>2
<1>2. h = [i \in 0..n |-> h[i]]
  BY Zenon
<1> HIDE DEF h
<1>3. [i \in 0..n |-> h[i]] = [i \in 0..n |-> g[i]]
  BY <1>1, Zenon
<1>4. h = g
  BY <1>2, <1>3, Zenon
<1> QED BY <1>4, Zenon DEF Walks, h

\* The steps of a walk.
LEMMA WalkSteps ==
    ASSUME NEW f, NEW s, NEW S, NEW n \in Nat, n = Len(s), Walks(f, s, S)
    PROVE  /\ f[0] = <<>>
           /\ \A i \in 1..n : f[i] = IF s[i] \in S THEN Append(f[i - 1], s[i]) ELSE f[i - 1]
<1> DEFINE h == [i \in 0..n |-> IF i = 0 THEN <<>> ELSE IF s[i] \in S THEN Append(f[i - 1], s[i]) ELSE f[i - 1]]
<1>1. f = h
  BY Zenon DEF Walks
<1>2. h[0] = <<>>
  OBVIOUS
<1>3. \A i \in 1..n : i \in 0..n /\ i # 0
  OBVIOUS
<1>4. \A i \in 1..n : h[i] = IF s[i] \in S THEN Append(f[i - 1], s[i]) ELSE f[i - 1]
  BY <1>3, Zenon
<1> QED BY <1>1, <1>2, <1>4, Zenon

\* The walk is defined along every sequence.
LEMMA WalkExists ==
    ASSUME NEW T, NEW s \in Seq(T), NEW S
    PROVE  \E f : Walks(f, s, S)
<1>1. PICK n \in Nat : n = Len(s)
  BY LenProperties
<1> DEFINE Steps(g, m) == /\ g[0] = <<>>
                          /\ \A i \in 1..m : g[i] = IF s[i] \in S THEN Append(g[i - 1], s[i]) ELSE g[i - 1]
           Good == {m \in Nat : \E g : Steps(g, m) /\ g = [i \in 0..m |-> g[i]]}
<1>2. 0 \in Good
  <2> DEFINE g == [i \in 0..0 |-> <<>>]
  <2>1. g[0] = <<>> /\ g = [i \in 0..0 |-> g[i]] /\ 1..0 = {}
    OBVIOUS
  <2> HIDE DEF g
  <2> QED BY <2>1
<1>3. ASSUME NEW m \in Nat, m \in Good PROVE m + 1 \in Good
  <2>1. PICK f : Steps(f, m) /\ f = [i \in 0..m |-> f[i]]
    BY <1>3
  <2> DEFINE next == IF s[m + 1] \in S THEN Append(f[m], s[m + 1]) ELSE f[m]
             g == [i \in 0..m + 1 |-> IF i = m + 1 THEN next ELSE f[i]]
  <2>0. next = IF s[m + 1] \in S THEN Append(f[m], s[m + 1]) ELSE f[m]
    OBVIOUS
  <2> HIDE DEF next
  <2>2. g[m + 1] = next /\ g = [i \in 0..m + 1 |-> g[i]] /\ \A i \in 0..m : g[i] = f[i]
    OBVIOUS
  <2> HIDE DEF g
  <2>3. \A i \in 1..m : i \in 0..m /\ i - 1 \in 0..m
    OBVIOUS
  <2>4. \A i \in 1..m + 1 : i \in 1..m \/ (i = m + 1 /\ i - 1 = m)
    OBVIOUS
  <2>5. 0 \in 0..m /\ m \in 0..m
    OBVIOUS
  <2>6. \A i \in 1..m : g[i] = IF s[i] \in S THEN Append(g[i - 1], s[i]) ELSE g[i - 1]
    BY <2>1, <2>2, <2>3, Zenon
  <2>7. g[m + 1] = IF s[m + 1] \in S THEN Append(g[m], s[m + 1]) ELSE g[m]
    BY <2>0, <2>2, <2>5, Zenon
  <2>8. Steps(g, m + 1)
    <3>1. g[0] = <<>>
      BY <2>1, <2>2, <2>5
    <3>2. ASSUME NEW i \in 1..m + 1
          PROVE  g[i] = IF s[i] \in S THEN Append(g[i - 1], s[i]) ELSE g[i - 1]
      <4>1. CASE i \in 1..m
        BY <2>6, <4>1
      <4>2. CASE i = m + 1 /\ i - 1 = m
        BY <2>7, <4>2, Zenon
      <4> QED BY <2>4, <4>1, <4>2
    <3> QED BY <3>1, <3>2
  <2> HIDE DEF Steps
  <2>9. \E h : Steps(h, m + 1) /\ h = [i \in 0..m + 1 |-> h[i]]
    BY <2>2, <2>8, Zenon
  <2>10. m + 1 \in Nat
    OBVIOUS
  <2> QED BY <2>9, <2>10, Zenon
<1> HIDE DEF Good
<1>4. n \in Good
  BY <1>2, <1>3, Induction
<1>5. PICK g : Steps(g, n) /\ g = [i \in 0..n |-> g[i]]
  BY <1>4 DEF Good
<1> QED BY <1>1, <1>5, WalksFrom

\* What Only returns is where its walk ends.
LEMMA OnlyWalks ==
    ASSUME NEW T, NEW s \in Seq(T), NEW S
    PROVE  \E f : Walks(f, s, S) /\ Only(s, S) = f[Len(s)]
<1> DEFINE f == CHOOSE g : Walks(g, s, S)
<1>1. Walks(f, s, S)
  BY WalkExists
<1>2. Only(s, S) = f[Len(s)]
  BY Zenon DEF Only, Walks
<1> QED BY <1>1, <1>2, Zenon

\* Only returns elements of the sequence that are in the set, and each of them.
LEMMA OnlyElements ==
    ASSUME NEW T, NEW s \in Seq(T), NEW S
    PROVE  Only(s, S) \in Seq(T \cap S)
<1>1. PICK n \in Nat : n = Len(s) /\ \A i \in 1..n : s[i] \in T
  BY LenProperties, ElementOfSeq
<1>2. PICK f : Walks(f, s, S) /\ Only(s, S) = f[n]
  BY <1>1, OnlyWalks
<1>3. f[0] = <<>> /\ \A i \in 1..n : f[i] = IF s[i] \in S THEN Append(f[i - 1], s[i]) ELSE f[i - 1]
  BY <1>1, <1>2, WalkSteps
<1> DEFINE Good == {i \in Nat : i <= n => f[i] \in Seq(T \cap S)}
<1>4. 0 \in Good
  <2>1. f[0] \in Seq(T \cap S)
    BY <1>3, EmptySeq
  <2> QED BY <2>1
<1>5. ASSUME NEW i \in Nat, i \in Good PROVE i + 1 \in Good
  <2> SUFFICES ASSUME i + 1 <= n PROVE f[i + 1] \in Seq(T \cap S)
    OBVIOUS
  <2>1. f[i] \in Seq(T \cap S)
    BY <1>5
  <2>2. PICK k \in 1..n : k = i + 1 /\ k - 1 = i
    OBVIOUS
  <2>3. f[k] = IF s[k] \in S THEN Append(f[k - 1], s[k]) ELSE f[k - 1]
    BY <1>3
  <2>4. f[k] = IF s[k] \in S THEN Append(f[i], s[k]) ELSE f[i]
    BY <2>2, <2>3, Zenon
  <2>5. s[k] \in T
    BY <1>1
  <2>6. f[k] \in Seq(T \cap S)
    BY <2>1, <2>4, <2>5, AppendProperties
  <2> QED BY <2>2, <2>6, Zenon
<1> HIDE DEF Good
<1>6. n \in Good
  BY <1>4, <1>5, Induction
<1> QED BY <1>2, <1>6 DEF Good

\* Ascending numbers, and a set that parts them at a cut.
Ascends(s) == \A i, j \in 1..Len(s) : i <= j => s[i] <= s[j]
PartsAt(S, s, cut) == \A x \in ToSet(s) : x \in S <=> x > cut
\* What is left of them without the first m, which are not above the cut.
LeftAfter(m, s, cut, o) ==
    /\ o \in Seq(Nat) /\ Len(o) = Len(s) - m
    /\ \A i \in 1..m : s[i] <= cut
    /\ \A i \in 1..Len(s) - m : o[i] = s[m + i] /\ s[m + i] > cut

\* Of an ascending sequence, the elements above a cut are its tail.
LEMMA OnlyAbove ==
    ASSUME NEW s \in Seq(Nat), NEW cut \in Int, NEW S, PartsAt(S, s, cut), Ascends(s)
    PROVE  \E m \in 0..Len(s) : LeftAfter(m, s, cut, Only(s, S))
<1>1. PICK n \in Nat : n = Len(s) /\ DOMAIN s = 1..n /\ \A i \in 1..n : s[i] \in Nat
  BY LenProperties, ElementOfSeq
<1>2. PICK f : Walks(f, s, S) /\ Only(s, S) = f[n]
  BY <1>1, OnlyWalks
<1>3. f[0] = <<>> /\ \A i \in 1..n : f[i] = IF s[i] \in S THEN Append(f[i - 1], s[i]) ELSE f[i - 1]
  BY <1>1, <1>2, WalkSteps
<1>4. \A i \in 1..n : s[i] \in S <=> s[i] > cut
  <2>1. \A i \in 1..n : s[i] \in ToSet(s)
    BY <1>1 DEF ToSet
  <2> QED BY <2>1, Zenon DEF PartsAt
<1>5. \A i, j \in 1..n : i <= j => s[i] <= s[j]
  BY <1>1 DEF Ascends
<1> DEFINE Fits(l, m) == /\ m \in 0..l /\ f[l] \in Seq(Nat) /\ Len(f[l]) = l - m
                         /\ \A i \in 1..m : s[i] <= cut
                         /\ \A i \in 1..l - m : f[l][i] = s[m + i] /\ s[m + i] > cut
           Good == {l \in Nat : l <= n => \E m \in 0..l : Fits(l, m)}
<1>6. 0 \in Good
  <2>1. f[0] \in Seq(Nat) /\ Len(f[0]) = 0 /\ 0 \in 0..0 /\ 1..0 = {} /\ 0 - 0 = 0
    BY <1>3
  <2>2. Fits(0, 0)
    BY <2>1
  <2> QED BY <2>1, <2>2
<1>7. ASSUME NEW l \in Nat, l \in Good PROVE l + 1 \in Good
  <2> HIDE DEF Fits
  <2> SUFFICES ASSUME l + 1 <= n PROVE \E m \in 0..l + 1 : Fits(l + 1, m)
    OBVIOUS
  <2>1. PICK m \in 0..l : Fits(l, m)
    <3>1. l <= n
      OBVIOUS
    <3> QED BY <1>7, <3>1
  <2> USE DEF Fits
  <2>2. PICK k \in 1..n : k = l + 1 /\ k - 1 = l
    OBVIOUS
  <2>3. f[k] = IF s[k] \in S THEN Append(f[l], s[k]) ELSE f[l]
    <3>1. f[k] = IF s[k] \in S THEN Append(f[k - 1], s[k]) ELSE f[k - 1]
      BY <1>3
    <3> QED BY <2>2, <3>1, Zenon
  <2>4. CASE s[k] > cut
    <3>1. s[k] \in S /\ s[k] \in Nat
      BY <1>1, <1>4, <2>4
    <3>2. PICK g \in Seq(Nat) : g = f[l]
      BY <2>1
    <3>3. Len(g) = l - m /\ \A i \in 1..l - m : g[i] = s[m + i] /\ s[m + i] > cut
      BY <2>1, <3>2
    <3>4. /\ f[k] = Append(g, s[k]) /\ f[k] \in Seq(Nat) /\ Len(f[k]) = l - m + 1
          /\ \A i \in 1..l - m : f[k][i] = g[i]
          /\ f[k][l - m + 1] = s[k]
      <4>1. f[k] = Append(g, s[k])
        BY <2>3, <3>1, <3>2
      <4> DEFINE v == s[k]
      <4>2. v \in Nat
        BY <3>1
      <4> HIDE DEF v
      <4>3. /\ Append(g, v) \in Seq(Nat) /\ Len(Append(g, v)) = Len(g) + 1
            /\ \A i \in 1..Len(g) : Append(g, v)[i] = g[i]
            /\ Append(g, v)[Len(g) + 1] = v
        BY <4>2, AppendProperties
      <4> QED BY <3>3, <4>1, <4>3 DEF v
    <3>5. \A i \in 1..k - m : i \in 1..l - m \/ (i = l - m + 1 /\ m + i = k)
      BY <2>1, <2>2
    <3>6. k - m = l - m + 1 /\ m \in 0..k
      BY <2>1, <2>2
    <3>7. \A i \in 1..k - m : f[k][i] = s[m + i] /\ s[m + i] > cut
      BY <2>4, <3>3, <3>4, <3>5
    <3>8. Fits(k, m)
      BY <2>1, <3>4, <3>6, <3>7
    <3> QED BY <2>2, <3>6, <3>8
  <2>5. CASE ~(s[k] > cut)
    <3>1. s[k] \notin S /\ s[k] \in Nat /\ s[k] <= cut
      BY <1>1, <1>4, <2>5
    <3>2. m = l
      <4> SUFFICES ASSUME m # l PROVE FALSE
        OBVIOUS
      <4>1. 1 \in 1..l - m /\ m + 1 \in 1..n /\ m + 1 <= k
        BY <2>1, <2>2
      <4>2. s[m + 1] > cut /\ s[m + 1] <= s[k] /\ s[m + 1] \in Nat
        BY <1>1, <1>5, <2>1, <2>2, <4>1
      <4> QED BY <3>1, <4>2
    <3>3. f[k] \in Seq(Nat) /\ Len(f[k]) = 0 /\ k - k = 0 /\ k \in 0..k
      <4>1. f[k] = f[l] /\ l - m = 0
        BY <2>3, <3>1, <3>2
      <4>2. f[l] \in Seq(Nat) /\ Len(f[l]) = 0
        BY <2>1, <4>1
      <4>3. k - k = 0 /\ k \in 0..k
        BY <2>2
      <4> QED BY <4>1, <4>2, <4>3
    <3>4. \A i \in 1..k : s[i] <= cut
      BY <2>1, <2>2, <3>1, <3>2
    <3>5. Fits(k, k)
      BY <3>3, <3>4
    <3> QED BY <2>2, <3>3, <3>5
  <2> QED BY <2>4, <2>5
<1> HIDE DEF Good
<1>8. n \in Good
  BY <1>6, <1>7, Induction
<1>9. PICK m \in 0..n : Fits(n, m)
  <2> HIDE DEF Fits
  <2> QED BY <1>8 DEF Good
<1> QED BY <1>1, <1>2, <1>9 DEF LeftAfter

\* The rates limiters work with, and what was let through.
Rates == [count : Nat \ {0}, period : Nat \ {0}]
Admission == [by : LimitedRequests, t : Nat]
Booked(a, t) ==
    /\ a \in Seq(Admission)
    /\ \A i \in 1..Len(a) : a[i].t <= t
    /\ \A i, j \in 1..Len(a) : i <= j => a[i].t <= a[j].t

\* An entry of a sliding window holds the last admissions, and the others are a period old.
HitsOf(e) == IF e = NoEntry THEN <<>> ELSE e.hits
Spaced(a, r) == \A i, j \in 1..Len(a) : j = i + r.count => a[j].t - a[i].t >= r.period
SlidingBooks(a, e, r, t) ==
    /\ e # NoEntry => e.last \in 0..t /\ \A i \in 1..Len(a) : a[i].t <= e.last
    /\ HitsOf(e) \in Seq(Nat) /\ Len(HitsOf(e)) <= Len(a) /\ Len(HitsOf(e)) <= r.count
    /\ \A i \in 1..Len(HitsOf(e)) : HitsOf(e)[i] = a[Len(a) - Len(HitsOf(e)) + i].t
    /\ \A i \in 1..Len(a) - Len(HitsOf(e)) : a[i].t + r.period <= t
    /\ Spaced(a, r)

\* An entry of a fixed window counts the admissions of its window.
Windowed(a, r) == \A i, j \in 1..Len(a) : j = i + r.count => a[j].t \div r.period > a[i].t \div r.period
FixedBooks(a, e, r, t) ==
    /\ IF e = NoEntry THEN \A i \in 1..Len(a) : a[i].t \div r.period < t \div r.period
       ELSE /\ e.last \in 0..t /\ e.count \in 0..r.count /\ e.window = (e.last \div r.period) * r.period
            /\ \A i \in 1..Len(a) : a[i].t <= e.last
            /\ \A i \in 1..Len(a) - e.count : a[i].t \div r.period < e.last \div r.period
    /\ Windowed(a, r)

\* What the tokens of an entry leave for later admissions, counted from each earlier one.
Paid(a, r, b) == \A i, j \in 1..Len(a) : i <= j =>
    (j - i + 1) * r.period <= b * r.period + (a[j].t - a[i].t) * r.count
TokenBooks(a, e, r, b, t) ==
    /\ IF e = NoEntry
       THEN b <= StalePeriods * r.count =>
              \A i \in 1..Len(a) : (Len(a) - i + 1) * r.period <= (t - a[i].t) * r.count
       ELSE /\ e.last \in 0..t /\ e.tokens \in 0..b * r.period /\ \A i \in 1..Len(a) : a[i].t <= e.last
            /\ b <= StalePeriods * r.count =>
                  \A i \in 1..Len(a) :
                     (Len(a) - i + 1) * r.period + e.tokens <= b * r.period + (e.last - a[i].t) * r.count
    /\ b <= StalePeriods * r.count => Paid(a, r, b)

\* A history with one admission more.
LEMMA NextAdmission ==
    ASSUME NEW t \in Nat, NEW a, Booked(a, t), NEW q \in LimitedRequests
    PROVE  LET n == Len(a)
               b == Append(a, [by |-> q, t |-> t]) IN
           /\ n \in Nat /\ Len(b) = n + 1 /\ Booked(b, t)
           /\ \A i \in 1..n : b[i] = a[i] /\ b[i].t \in Nat
           /\ b[n + 1].t = t /\ b[n + 1].by = q
<1> DEFINE hit == [by |-> q, t |-> t]
           b == Append(a, hit)
<1>1. PICK n \in Nat : n = Len(a) /\ \A i \in 1..n : a[i] \in Admission
  BY LenProperties, ElementOfSeq DEF Booked
<1>2. hit \in Admission /\ hit.t = t /\ hit.by = q
  BY DEF Admission
<1> HIDE DEF hit
<1>3. /\ b \in Seq(Admission) /\ Len(b) = n + 1 /\ \A i \in 1..n : b[i] = a[i]
      /\ b[n + 1] = hit
  BY <1>1, <1>2, AppendProperties DEF Booked
<1>4. \A i \in 1..n : b[i].t \in Nat /\ b[i].t <= t
  BY <1>1, <1>3 DEF Booked, Admission
<1> HIDE DEF b
<1>5. \A i \in 1..n + 1 : i \in 1..n \/ i = n + 1
  OBVIOUS
<1>6. \A i, j \in 1..n : i <= j => b[i].t <= b[j].t
  BY <1>1, <1>3 DEF Booked
<1>7. \A i, j \in 1..n + 1 : i <= j => b[i].t <= b[j].t
  <2> SUFFICES ASSUME NEW i \in 1..n + 1, NEW j \in 1..n + 1, i <= j PROVE b[i].t <= b[j].t
    OBVIOUS
  <2>1. CASE j = n + 1
    BY <1>2, <1>3, <1>4, <1>5, <2>1
  <2>2. CASE j # n + 1
    <3>1. i \in 1..n /\ j \in 1..n
      BY <2>2
    <3> QED BY <1>6, <3>1
  <2> QED BY <2>1, <2>2
<1>8. Booked(b, t)
  BY <1>2, <1>3, <1>4, <1>5, <1>7 DEF Booked
<1> QED BY <1>1, <1>2, <1>3, <1>4, <1>8 DEF b, hit

\* The hits that are left when a sliding window is asked: the last ones, all younger than a period.
Live(e, r, t) == IF e = NoEntry THEN <<>> ELSE Only(e.hits, {h \in ToSet(e.hits) : h > t - r.period})

\* What is left of ascending hits.
LEMMA CutHits ==
    ASSUME NEW e, NEW r \in Rates, NEW t \in Nat, NEW l \in Nat, l = Len(HitsOf(e)), HitsOf(e) \in Seq(Nat), Ascends(HitsOf(e))
    PROVE  \E m \in 0..l : LeftAfter(m, HitsOf(e), t - r.period, Live(e, r, t))
<1>1. CASE e = NoEntry
  <2>1. HitsOf(e) = <<>> /\ Live(e, r, t) = <<>>
    BY <1>1 DEF HitsOf, Live
  <2>2. <<>> \in Seq(Nat) /\ Len(<<>>) = 0 /\ l = 0
    BY <2>1
  <2>3. Live(e, r, t) \in Seq(Nat) /\ Len(Live(e, r, t)) = 0 /\ 0 \in 0..l
    BY <2>1, <2>2
  <2>4. l - 0 = 0 /\ 1..0 = {}
    BY <2>2
  <2> QED BY <2>3, <2>4 DEF LeftAfter
<1>2. CASE e # NoEntry
  <2>1. PICK h : h = HitsOf(e) /\ h = e.hits
    BY <1>2 DEF HitsOf
  <2>2. PICK cut \in Int : cut = t - r.period
    BY DEF Rates
  <2>3. PICK S : S = {x \in ToSet(h) : x > cut}
    OBVIOUS
  <2>4. Live(e, r, t) = Only(h, S)
    BY <1>2, <2>1, <2>2, <2>3, Zenon DEF Live
  <2>5. PartsAt(S, h, cut)
    BY <2>3 DEF PartsAt
  <2>6. h \in Seq(Nat) /\ l = Len(h) /\ Ascends(h)
    BY <2>1
  <2>7. \E m \in 0..Len(h) : LeftAfter(m, h, cut, Only(h, S))
    <3>1. cut \in Int /\ h \in Seq(Nat)
      BY <2>6
    <3> QED BY <2>5, <2>6, <3>1, OnlyAbove
  <2> QED BY <2>1, <2>2, <2>4, <2>6, <2>7, Zenon
<1> QED BY <1>1, <1>2

\* What the books of a sliding window say, in numbers.
LEMMA SlidingFacts ==
    ASSUME NEW r \in Rates, NEW t \in Nat, NEW a, Booked(a, t), NEW e, SlidingBooks(a, e, r, t)
    PROVE  \E n, l \in Nat :
              /\ n = Len(a) /\ l = Len(HitsOf(e)) /\ l <= n /\ l <= r.count /\ HitsOf(e) \in Seq(Nat)
              /\ \A i \in 1..n : a[i].t \in Nat
              /\ \A i \in 1..l : HitsOf(e)[i] = a[n - l + i].t
              /\ \A i \in 1..n - l : a[i].t + r.period <= t
              /\ Ascends(HitsOf(e))
<1>1. Len(a) \in Nat /\ Len(HitsOf(e)) \in Nat /\ \A i \in 1..Len(a) : a[i] \in Admission
  BY LenProperties, ElementOfSeq DEF Booked, SlidingBooks
<1>2. PICK n \in Nat, l \in Nat : n = Len(a) /\ l = Len(HitsOf(e))
  BY <1>1
<1>3. \A i \in 1..n : a[i].t \in Nat
  BY <1>1, <1>2 DEF Admission
<1>4. /\ HitsOf(e) \in Seq(Nat) /\ l <= n /\ l <= r.count
      /\ \A i \in 1..l : HitsOf(e)[i] = a[n - l + i].t
      /\ \A i \in 1..n - l : a[i].t + r.period <= t
  BY <1>2 DEF SlidingBooks
<1>5. \A i, j \in 1..n : i <= j => a[i].t <= a[j].t
  BY <1>2 DEF Booked
<1>6. ASSUME NEW i \in 1..l, NEW j \in 1..l, i <= j PROVE HitsOf(e)[i] <= HitsOf(e)[j]
  <2>1. n - l + i \in 1..n /\ n - l + j \in 1..n /\ n - l + i <= n - l + j
    BY <1>4, <1>6
  <2> QED BY <1>4, <1>5, <2>1
<1>7. Ascends(HitsOf(e))
  BY <1>2, <1>6 DEF Ascends
<1> QED BY <1>2, <1>3, <1>4, <1>7

\* The live hits are the last admissions, and the others are a period old.
LEMMA LiveHits ==
    ASSUME NEW r \in Rates, NEW t \in Nat, NEW a, Booked(a, t), NEW e, SlidingBooks(a, e, r, t)
    PROVE  \E n, v \in Nat :
              /\ n = Len(a) /\ v = Len(Live(e, r, t)) /\ v <= n /\ v <= r.count /\ Live(e, r, t) \in Seq(Nat)
              /\ \A i \in 1..v : Live(e, r, t)[i] = a[n - v + i].t
              /\ \A i \in 1..n - v : a[i].t + r.period <= t
<1>1. PICK n \in Nat, l \in Nat :
              /\ n = Len(a) /\ l = Len(HitsOf(e)) /\ l <= n /\ l <= r.count /\ HitsOf(e) \in Seq(Nat)
              /\ \A i \in 1..n : a[i].t \in Nat
              /\ \A i \in 1..l : HitsOf(e)[i] = a[n - l + i].t
              /\ \A i \in 1..n - l : a[i].t + r.period <= t
              /\ Ascends(HitsOf(e))
  BY SlidingFacts
<1>2. PICK m \in 0..l : LeftAfter(m, HitsOf(e), t - r.period, Live(e, r, t))
  BY <1>1, CutHits
<1>3. r.count \in Nat /\ r.period \in Nat
  BY DEF Rates
<1>4. PICK v \in Nat : v = l - m /\ v <= l /\ v <= n /\ v <= r.count
  <2>1. l - m \in Nat /\ l - m <= l
    OBVIOUS
  <2>2. l - m <= n /\ l - m <= r.count
    BY <1>1, <1>3, <2>1
  <2> QED BY <2>1, <2>2
<1>5. ASSUME NEW i \in 1..v PROVE Live(e, r, t)[i] = a[n - v + i].t
  <2>1. i \in 1..l - m /\ m + i \in 1..l /\ n - l + (m + i) = n - v + i
    BY <1>4
  <2>2. HitsOf(e)[m + i] = a[n - l + (m + i)].t
    BY <1>1, <2>1
  <2> QED BY <1>1, <1>2, <2>1, <2>2 DEF LeftAfter
<1>6. ASSUME NEW i \in 1..n - v PROVE a[i].t + r.period <= t
  <2>1. CASE i <= n - l
    BY <1>1, <2>1
  <2>2. CASE i > n - l
    <3>1. PICK k \in 1..m : k = i - (n - l) /\ k \in 1..l /\ n - l + k = i
      <4>1. i - (n - l) \in 1..m /\ i - (n - l) \in 1..l /\ n - l + (i - (n - l)) = i
        BY <1>1, <1>4, <1>6, <2>2
      <4> QED BY <4>1
    <3>2. i \in 1..n
      BY <1>4
    <3>3. HitsOf(e)[k] = a[i].t /\ HitsOf(e)[k] <= t - r.period /\ a[i].t \in Nat
      BY <1>1, <1>2, <3>1, <3>2 DEF LeftAfter
    <3> QED BY <1>3, <3>3
  <2> QED BY <1>1, <2>1, <2>2
<1>7. n = Len(a) /\ v <= n /\ v <= r.count
  BY <1>1, <1>4
<1>8. v = Len(Live(e, r, t)) /\ Live(e, r, t) \in Seq(Nat)
  BY <1>1, <1>2, <1>4 DEF LeftAfter
<1> QED BY <1>5, <1>6, <1>7, <1>8, Zenon

\* A sliding window that is asked keeps its books.
LEMMA SlidingKeeps ==
    ASSUME NEW r \in Rates, NEW t \in Nat, NEW a, Booked(a, t), NEW e, SlidingBooks(a, e, r, t),
           NEW q \in LimitedRequests
    PROVE  LET ans == SlidingAllow(e, r, t) IN
           /\ ans.entry # NoEntry /\ ans.entry.last = t
           /\ SlidingBooks(IF ans.allowed THEN Append(a, [by |-> q, t |-> t]) ELSE a, ans.entry, r, t)
<1> DEFINE ans == SlidingAllow(e, r, t)
<1>1. PICK live : live = Live(e, r, t)
  OBVIOUS
<1>2. PICK n \in Nat, v \in Nat :
              /\ n = Len(a) /\ v = Len(live) /\ v <= n /\ v <= r.count /\ live \in Seq(Nat)
              /\ \A i \in 1..v : live[i] = a[n - v + i].t
              /\ \A i \in 1..n - v : a[i].t + r.period <= t
  <2>1. PICK n \in Nat, v \in Nat :
              /\ n = Len(a) /\ v = Len(Live(e, r, t)) /\ v <= n /\ v <= r.count /\ Live(e, r, t) \in Seq(Nat)
              /\ \A i \in 1..v : Live(e, r, t)[i] = a[n - v + i].t
              /\ \A i \in 1..n - v : a[i].t + r.period <= t
    BY LiveHits
  <2>2. /\ n = Len(a) /\ v = Len(live) /\ v <= n /\ v <= r.count /\ live \in Seq(Nat)
        /\ \A i \in 1..v : live[i] = a[n - v + i].t
        /\ \A i \in 1..n - v : a[i].t + r.period <= t
    BY <1>1, <2>1
  <2> QED BY <2>2
<1>3. ans.allowed = (v < r.count)
  BY <1>1, <1>2, Zenon DEF SlidingAllow, Live
<1>4. PICK hits : hits = IF v < r.count THEN Append(live, t) ELSE live
  OBVIOUS
<1>5. ans.entry = [hits |-> hits, last |-> t]
  BY <1>1, <1>2, <1>4, Zenon DEF SlidingAllow, Live
<1>6. ans.entry.last = t /\ ans.entry.hits = hits /\ ans.entry # NoEntry
  <2>1. t # -1
    OBVIOUS
  <2>2. [hits |-> hits, last |-> t].last = t /\ [hits |-> hits, last |-> t].hits = hits
    OBVIOUS
  <2>3. NoEntry.last = -1
    BY DEF NoEntry
  <2> QED BY <1>5, <2>1, <2>2, <2>3, Zenon
<1>7. HitsOf(ans.entry) = hits
  BY <1>6 DEF HitsOf
<1> HIDE DEF ans
<1>8. PICK b : b = Append(a, [by |-> q, t |-> t])
  OBVIOUS
<1>9. /\ Len(b) = n + 1 /\ Booked(b, t)
      /\ \A i \in 1..n : b[i] = a[i] /\ b[i].t \in Nat
      /\ b[n + 1].t = t
  <2>1. /\ Len(b) = Len(a) + 1 /\ Booked(b, t)
        /\ \A i \in 1..Len(a) : b[i] = a[i] /\ b[i].t \in Nat
        /\ b[Len(a) + 1].t = t
    BY <1>8, NextAdmission
  <2> QED BY <1>2, <2>1
<1>p. r.count \in Nat \ {0} /\ r.period \in Nat
  BY DEF Rates
<1>10. CASE v < r.count
  <2>1. /\ hits \in Seq(Nat) /\ Len(hits) = v + 1 /\ \A i \in 1..v : hits[i] = live[i]
        /\ hits[v + 1] = t
    BY <1>2, <1>4, <1>10, AppendProperties
  <2>2. ASSUME NEW i \in 1..v + 1 PROVE hits[i] = b[n + 1 - (v + 1) + i].t
    <3>1. CASE i \in 1..v
      <4>1. n - v + i \in 1..n /\ n + 1 - (v + 1) + i = n - v + i
        BY <1>2, <3>1
      <4>2. hits[i] = live[i] /\ live[i] = a[n - v + i].t /\ b[n - v + i] = a[n - v + i]
        BY <1>2, <1>9, <2>1, <3>1, <4>1
      <4> QED BY <4>1, <4>2
    <3>2. CASE i = v + 1
      <4>1. n + 1 - (v + 1) + i = n + 1
        BY <3>2
      <4> QED BY <1>9, <2>1, <3>2, <4>1
    <3> QED BY <2>2, <3>1, <3>2
  <2>3. ASSUME NEW i \in 1..n + 1 - (v + 1) PROVE b[i].t + r.period <= t
    <3>1. i \in 1..n - v /\ i \in 1..n
      BY <2>3
    <3> QED BY <1>2, <1>9, <3>1
  <2>4. Spaced(b, r)
    <3> SUFFICES ASSUME NEW i \in 1..n + 1, NEW j \in 1..n + 1, j = i + r.count
                 PROVE  b[j].t - b[i].t >= r.period
      BY <1>9 DEF Spaced
    <3>1. CASE j = n + 1
      <4>1. i \in 1..n + 1 - (v + 1) /\ i \in 1..n
        BY <1>2, <1>10, <1>p, <3>1
      <4>2. b[i].t + r.period <= t /\ b[i].t \in Nat /\ b[j].t = t
        BY <1>9, <2>3, <3>1, <4>1
      <4> QED BY <1>p, <4>2
    <3>2. CASE j # n + 1
      <4>1. i \in 1..n /\ j \in 1..n
        BY <1>p, <3>2
      <4>2. a[j].t - a[i].t >= r.period
        BY <1>2, <4>1 DEF SlidingBooks, Spaced
      <4> QED BY <1>9, <4>1, <4>2
    <3> QED BY <3>1, <3>2
  <2>5. \A i \in 1..n + 1 : b[i].t <= t
    BY <1>9 DEF Booked
  <2>6. v + 1 <= n + 1 /\ v + 1 <= r.count /\ t \in 0..t
    BY <1>2, <1>10, <1>p
  <2>7. SlidingBooks(b, ans.entry, r, t)
    BY <1>6, <1>7, <1>9, <2>1, <2>2, <2>3, <2>4, <2>5, <2>6 DEF SlidingBooks
  <2> QED BY <1>3, <1>6, <1>8, <1>10, <2>7, Zenon DEF ans
<1>11. CASE ~(v < r.count)
  <2>1. hits = live
    BY <1>4, <1>11
  <2>2. t \in 0..t /\ \A i \in 1..n : a[i].t <= t
    BY <1>2 DEF Booked
  <2>3. Spaced(a, r)
    BY DEF SlidingBooks
  <2>4. SlidingBooks(a, ans.entry, r, t)
    BY <1>2, <1>6, <1>7, <2>1, <2>2, <2>3 DEF SlidingBooks
  <2>5. ~ans.allowed
    BY <1>3, <1>11, Zenon
  <2> QED BY <1>6, <2>4, <2>5, Zenon DEF ans
<1> QED BY <1>10, <1>11

\* The smaller and the larger of two numbers.
LEMMA OfTwo ==
    ASSUME NEW x \in Int, NEW y \in Int
    PROVE  /\ Min({x, y}) = IF x <= y THEN x ELSE y
           /\ Max({x, y}) = IF x >= y THEN x ELSE y
<1>1. Min({x, y}) = IF x <= y THEN x ELSE y
  <2> DEFINE m == CHOOSE z \in {x, y} : \A w \in {x, y} : z <= w
  <2>1. \E z \in {x, y} : \A w \in {x, y} : z <= w
    <3>1. CASE x <= y
      BY <3>1
    <3>2. CASE y <= x
      BY <3>2
    <3> QED BY <3>1, <3>2
  <2>2. m \in {x, y} /\ \A w \in {x, y} : m <= w
    BY <2>1, Zenon
  <2>3. Min({x, y}) = m
    BY Zenon DEF Min
  <2> HIDE DEF m
  <2>4. m <= x /\ m <= y /\ (m = x \/ m = y)
    BY <2>2
  <2> QED BY <2>3, <2>4
<1>2. Max({x, y}) = IF x >= y THEN x ELSE y
  <2> DEFINE m == CHOOSE z \in {x, y} : \A w \in {x, y} : z >= w
  <2>1. \E z \in {x, y} : \A w \in {x, y} : z >= w
    <3>1. CASE x <= y
      BY <3>1
    <3>2. CASE y <= x
      BY <3>2
    <3> QED BY <3>1, <3>2
  <2>2. m \in {x, y} /\ \A w \in {x, y} : m >= w
    BY <2>1, Zenon
  <2>3. Max({x, y}) = m
    BY Zenon DEF Max
  <2> HIDE DEF m
  <2>4. m >= x /\ m >= y /\ (m = x \/ m = y)
    BY <2>2
  <2> QED BY <2>3, <2>4
<1> QED BY <1>1, <1>2

\* Products keep the order of their factors.
LEMMA TimesGrows ==
    ASSUME NEW x \in Int, NEW y \in Int, NEW p \in Nat, x <= y
    PROVE  x * p <= y * p /\ x * p \in Int /\ y * p \in Int
<1>1. (y - x) * p >= 0 /\ (y - x) * p = y * p - x * p
  OBVIOUS
<1>2. x * p \in Int /\ y * p \in Int
  OBVIOUS
<1> QED BY <1>1, <1>2

\* The window a moment is in.
LEMMA WindowOf ==
    ASSUME NEW x \in Nat, NEW p \in Nat \ {0}
    PROVE  /\ x \div p \in Nat /\ (x \div p) * p \in Nat
           /\ (x \div p) * p <= x /\ x < (x \div p) * p + p
OBVIOUS

\* A moment is in one window only.
LEMMA OnlyWindow ==
    ASSUME NEW x \in Nat, NEW p \in Nat \ {0}, NEW w \in Int, w * p <= x, x < w * p + p
    PROVE  x \div p = w
<1>1. PICK v \in Nat : v = x \div p /\ v * p <= x /\ x < v * p + p
  BY WindowOf
<1>2. CASE v < w
  <2>1. (v + 1) * p <= w * p /\ (v + 1) * p = v * p + p
    BY <1>2, TimesGrows
  <2> QED BY <1>1, <2>1
<1>3. CASE v > w
  <2>1. (w + 1) * p <= v * p /\ (w + 1) * p = w * p + p
    BY <1>3, TimesGrows
  <2> QED BY <1>1, <2>1
<1> QED BY <1>1, <1>2, <1>3

\* Windows follow each other as the moments do.
LEMMA LaterWindow ==
    ASSUME NEW x \in Nat, NEW y \in Nat, NEW p \in Nat \ {0}
    PROVE  /\ x <= y => x \div p <= y \div p
           /\ x + p <= y => x \div p < y \div p
<1>1. PICK v \in Nat : v = x \div p /\ v * p <= x /\ x < v * p + p
  BY WindowOf
<1>2. PICK w \in Nat : w = y \div p /\ w * p <= y /\ y < w * p + p
  BY WindowOf
<1>3. ASSUME x <= y PROVE v <= w
  <2>1. CASE w < v
    <3>1. (w + 1) * p <= v * p /\ (w + 1) * p = w * p + p
      BY <2>1, TimesGrows
    <3> QED BY <1>1, <1>2, <1>3, <3>1
  <2> QED BY <2>1
<1>4. ASSUME x + p <= y PROVE v < w
  <2>1. CASE w <= v
    <3>1. w * p <= v * p
      BY <2>1, TimesGrows
    <3> QED BY <1>1, <1>2, <1>4, <3>1
  <2> QED BY <2>1
<1> QED BY <1>1, <1>2, <1>3, <1>4

\* What every history says, in numbers.
LEMMA BookedFacts ==
    ASSUME NEW t \in Nat, NEW a, Booked(a, t)
    PROVE  \E n \in Nat : /\ n = Len(a) /\ \A i \in 1..n : a[i].t \in Nat /\ a[i].t <= t
                          /\ \A i, j \in 1..n : i <= j => a[i].t <= a[j].t
<1>1. Len(a) \in Nat /\ \A i \in 1..Len(a) : a[i] \in Admission
  BY LenProperties, ElementOfSeq DEF Booked
<1> QED BY <1>1 DEF Booked, Admission

\* The admissions a fixed window counts are those of its own window.
LEMMA CountedHere ==
    ASSUME NEW r \in Rates, NEW t \in Nat, NEW a, Booked(a, t), NEW e, FixedBooks(a, e, r, t), NEW c,
           c = IF e = NoEntry \/ e.window # (t \div r.period) * r.period THEN 0 ELSE e.count
    PROVE  c \in 0..r.count /\ \A i \in 1..Len(a) - c : a[i].t \div r.period < t \div r.period
<1>1. PICK n \in Nat : /\ n = Len(a) /\ \A i \in 1..n : a[i].t \in Nat /\ a[i].t <= t
                       /\ \A i, j \in 1..n : i <= j => a[i].t <= a[j].t
  BY BookedFacts
<1>p. r.count \in Nat /\ r.period \in Nat \ {0}
  BY DEF Rates
<1>2. PICK w \in Nat : w = t \div r.period
  BY <1>p, WindowOf
<1>3. CASE e = NoEntry
  <2>1. c = 0 /\ \A i \in 1..Len(a) : a[i].t \div r.period < t \div r.period
    BY <1>3 DEF FixedBooks
  <2> QED BY <1>1, <1>p, <2>1
<1>4. CASE e # NoEntry
  <2>1. /\ e.last \in 0..t /\ e.count \in 0..r.count /\ e.window = (e.last \div r.period) * r.period
        /\ \A i \in 1..Len(a) : a[i].t <= e.last
        /\ \A i \in 1..Len(a) - e.count : a[i].t \div r.period < e.last \div r.period
    BY <1>4 DEF FixedBooks
  <2>2. PICK last \in Nat, u \in Nat : last = e.last /\ u = last \div r.period /\ last <= t /\ u <= w
    <3>1. e.last \in Nat /\ e.last <= t
      BY <2>1
    <3>2. e.last \div r.period \in Nat /\ e.last \div r.period <= w
      BY <1>2, <1>p, <3>1, LaterWindow, WindowOf
    <3> QED BY <3>1, <3>2
  <2>3. CASE e.window = w * r.period
    <3>1. u = w
      <4>1. u * r.period = w * r.period
        BY <2>1, <2>2, <2>3
      <4>2. u * r.period <= w * r.period /\ w * r.period < u * r.period + r.period
        BY <1>p, <4>1
      <4>3. w * r.period \in Nat
        BY <1>p
      <4>4. (w * r.period) \div r.period = u
        BY <1>p, <4>2, <4>3, OnlyWindow
      <4>5. (w * r.period) \div r.period = w
        BY <1>p, <4>3, OnlyWindow
      <4> QED BY <4>4, <4>5
    <3>2. c = e.count
      BY <1>2, <1>4, <2>3
    <3> QED BY <1>2, <2>1, <2>2, <3>1, <3>2
  <2>4. CASE e.window # w * r.period
    <3>1. u < w
      BY <2>1, <2>2, <2>4
    <3>2. c = 0
      BY <1>2, <2>4
    <3>3. ASSUME NEW i \in 1..n PROVE a[i].t \div r.period < w
      <4>1. PICK x \in Nat : x = a[i].t /\ x <= last
        BY <1>1, <2>1, <2>2
      <4>2. x \div r.period <= u /\ x \div r.period \in Nat
        BY <1>p, <2>2, <4>1, LaterWindow, WindowOf
      <4> QED BY <3>1, <4>1, <4>2
    <3> QED BY <1>1, <1>2, <1>p, <3>2, <3>3
  <2> QED BY <2>3, <2>4
<1> QED BY <1>3, <1>4

\* A fixed window that is asked keeps its books.
LEMMA FixedKeeps ==
    ASSUME NEW r \in Rates, NEW t \in Nat, NEW a, Booked(a, t), NEW e, FixedBooks(a, e, r, t),
           NEW q \in LimitedRequests
    PROVE  LET ans == FixedAllow(e, r, t) IN
           /\ ans.entry # NoEntry /\ ans.entry.last = t
           /\ FixedBooks(IF ans.allowed THEN Append(a, [by |-> q, t |-> t]) ELSE a, ans.entry, r, t)
<1> DEFINE ans == FixedAllow(e, r, t)
<1>1. PICK c : c = IF e = NoEntry \/ e.window # (t \div r.period) * r.period THEN 0 ELSE e.count
  OBVIOUS
<1>2. PICK n \in Nat : /\ n = Len(a) /\ \A i \in 1..n : a[i].t \in Nat /\ a[i].t <= t
                       /\ \A i, j \in 1..n : i <= j => a[i].t <= a[j].t
  BY BookedFacts
<1>3. c \in 0..r.count /\ \A i \in 1..n - c : a[i].t \div r.period < t \div r.period
  BY <1>1, <1>2, CountedHere
<1>4. PICK now : now = IF c < r.count THEN c + 1 ELSE c
  OBVIOUS
<1>5. ans.allowed = (c < r.count)
  BY <1>1, Zenon DEF FixedAllow
<1>6. ans.entry = [window |-> (t \div r.period) * r.period, count |-> now, last |-> t]
  BY <1>1, <1>4, Zenon DEF FixedAllow
<1>7. /\ ans.entry.last = t /\ ans.entry.count = now /\ ans.entry.window = (t \div r.period) * r.period
      /\ ans.entry # NoEntry
  <2> DEFINE w == (t \div r.period) * r.period
  <2>1. t # -1
    OBVIOUS
  <2> HIDE DEF w
  <2>2. LET f == [window |-> w, count |-> now, last |-> t] IN f.last = t /\ f.count = now /\ f.window = w
    OBVIOUS
  <2>3. NoEntry.last = -1
    BY DEF NoEntry
  <2> QED BY <1>6, <2>1, <2>2, <2>3, Zenon DEF w
<1> HIDE DEF ans
<1>p. r.count \in Nat \ {0} /\ r.period \in Nat \ {0}
  BY DEF Rates
<1>8. t \in 0..t
  OBVIOUS
<1>9. CASE c < r.count
  <2>1. PICK b : b = Append(a, [by |-> q, t |-> t])
    OBVIOUS
  <2>2. /\ Len(b) = n + 1 /\ Booked(b, t)
        /\ \A i \in 1..n : b[i] = a[i] /\ b[i].t \in Nat
        /\ b[n + 1].t = t
    <3>1. /\ Len(b) = Len(a) + 1 /\ Booked(b, t)
          /\ \A i \in 1..Len(a) : b[i] = a[i] /\ b[i].t \in Nat
          /\ b[Len(a) + 1].t = t
      BY <2>1, NextAdmission
    <3> QED BY <1>2, <3>1
  <2>3. now = c + 1 /\ now \in 0..r.count
    BY <1>3, <1>4, <1>9, <1>p
  <2>4. ASSUME NEW i \in 1..n + 1 - now PROVE b[i].t \div r.period < t \div r.period
    <3>1. i \in 1..n - c /\ i \in 1..n
      BY <1>3, <2>3
    <3> QED BY <1>3, <2>2, <3>1
  <2>5. Windowed(b, r)
    <3> SUFFICES ASSUME NEW i \in 1..n + 1, NEW j \in 1..n + 1, j = i + r.count
                 PROVE  b[j].t \div r.period > b[i].t \div r.period
      BY <2>2 DEF Windowed
    <3>1. CASE j = n + 1
      <4>1. i \in 1..n - c /\ i \in 1..n
        BY <1>3, <1>9, <1>p, <3>1
      <4> QED BY <1>3, <2>2, <3>1, <4>1
    <3>2. CASE j # n + 1
      <4>1. i \in 1..n /\ j \in 1..n
        BY <1>p, <3>2
      <4>2. a[j].t \div r.period > a[i].t \div r.period
        BY <1>2, <4>1 DEF FixedBooks, Windowed
      <4> QED BY <2>2, <4>1, <4>2
    <3> QED BY <3>1, <3>2
  <2>6. \A i \in 1..n + 1 : b[i].t <= t
    BY <2>2 DEF Booked
  <2>7. FixedBooks(b, ans.entry, r, t)
    BY <1>7, <1>8, <2>2, <2>3, <2>4, <2>5, <2>6 DEF FixedBooks
  <2>8. ans.allowed
    BY <1>5, <1>9, Zenon
  <2> QED BY <1>7, <2>1, <2>7, <2>8, Zenon DEF ans
<1>10. CASE ~(c < r.count)
  <2>1. now = c
    BY <1>4, <1>10
  <2>2. Windowed(a, r)
    BY DEF FixedBooks
  <2>3. FixedBooks(a, ans.entry, r, t)
    BY <1>2, <1>3, <1>7, <1>8, <2>1, <2>2 DEF FixedBooks
  <2>4. ~ans.allowed
    BY <1>5, <1>10, Zenon
  <2> QED BY <1>7, <2>3, <2>4, Zenon DEF ans
<1> QED BY <1>9, <1>10

\* What a bucket holds when it is asked.
Full(e, r, b, t) == IF e = NoEntry THEN b * r.period ELSE Min({b * r.period, e.tokens + (t - e.last) * r.count})

\* A moment between two others parts what is earned between them.
LEMMA EarnedBetween ==
    ASSUME NEW x \in Int, NEW y \in Int, NEW z \in Int, NEW c \in Int
    PROVE  (y - x) * c + (z - y) * c = (z - x) * c /\ (z - x) * c \in Int
OBVIOUS

\* What a bucket holds is within the burst, and pays for what it let through.
LEMMA FullPays ==
    ASSUME NEW r \in Rates, NEW b \in Nat \ {0}, NEW t \in Nat, NEW a, Booked(a, t), NEW e, TokenBooks(a, e, r, b, t)
    PROVE  /\ Full(e, r, b, t) \in 0..b * r.period
           /\ b <= StalePeriods * r.count =>
                 \A i \in 1..Len(a) : (Len(a) - i + 1) * r.period + Full(e, r, b, t) <= b * r.period + (t - a[i].t) * r.count
<1>1. PICK n \in Nat : /\ n = Len(a) /\ \A i \in 1..n : a[i].t \in Nat /\ a[i].t <= t
                       /\ \A i, j \in 1..n : i <= j => a[i].t <= a[j].t
  BY BookedFacts
<1>p. r.count \in Nat \ {0} /\ r.period \in Nat \ {0}
  BY DEF Rates
<1>2. PICK cap \in Nat : cap = b * r.period
  BY <1>p
<1>3. CASE e = NoEntry
  <2>1. Full(e, r, b, t) = cap
    BY <1>2, <1>3 DEF Full
  <2>2. ASSUME b <= StalePeriods * r.count, NEW i \in 1..n
        PROVE  (n - i + 1) * r.period <= (t - a[i].t) * r.count
    BY <1>1, <1>3, <2>2 DEF TokenBooks
  <2>3. ASSUME b <= StalePeriods * r.count, NEW i \in 1..n
        PROVE  (n - i + 1) * r.period + cap <= cap + (t - a[i].t) * r.count
    <3>1. PICK x \in Nat : x = a[i].t
      BY <1>1
    <3>2. PICK y \in Int, z \in Int : y = (n - i + 1) * r.period /\ z = (t - x) * r.count
      BY <1>p
    <3>3. y <= z
      BY <2>2, <2>3, <3>1, <3>2
    <3> QED BY <3>1, <3>2, <3>3
  <2> QED BY <1>1, <1>2, <2>1, <2>3
<1>4. CASE e # NoEntry
  <2>1. /\ e.last \in 0..t /\ e.tokens \in 0..cap
        /\ b <= StalePeriods * r.count =>
              \A i \in 1..n : (n - i + 1) * r.period + e.tokens <= cap + (e.last - a[i].t) * r.count
    BY <1>1, <1>2, <1>4 DEF TokenBooks
  <2>2. PICK last \in Nat, tokens \in Nat : last = e.last /\ tokens = e.tokens /\ last <= t
    BY <2>1
  <2>3. PICK earned \in Nat : earned = (t - last) * r.count
    <3>1. t - last \in Nat
      BY <2>2
    <3> QED BY <1>p, <3>1
  <2>4. PICK full \in Nat : full = Full(e, r, b, t) /\ full <= cap /\ full <= tokens + earned
    <3>1. Full(e, r, b, t) = Min({cap, tokens + earned})
      BY <1>2, <1>4, <2>2, <2>3 DEF Full
    <3>2. Min({cap, tokens + earned}) = IF cap <= tokens + earned THEN cap ELSE tokens + earned
      BY OfTwo
    <3> QED BY <3>1, <3>2
  <2>5. ASSUME b <= StalePeriods * r.count, NEW i \in 1..n
        PROVE  (n - i + 1) * r.period + full <= cap + (t - a[i].t) * r.count
    <3>1. PICK x \in Nat : x = a[i].t
      BY <1>1
    <3>2. PICK y \in Int, z \in Int : y = (n - i + 1) * r.period /\ z = (last - x) * r.count
      BY <1>p
    <3>3. y + tokens <= cap + z
      BY <2>1, <2>2, <2>5, <3>1, <3>2
    <3>4. z + earned = (t - x) * r.count
      BY <1>p, <2>3, <3>2, EarnedBetween
    <3> QED BY <2>4, <3>1, <3>2, <3>3, <3>4
  <2> QED BY <1>1, <1>2, <2>4, <2>5
<1> QED BY <1>3, <1>4

\* A bucket that is asked keeps its books.
LEMMA TokenKeeps ==
    ASSUME NEW r \in Rates, NEW b \in Nat \ {0}, NEW t \in Nat, NEW a, Booked(a, t), NEW e, TokenBooks(a, e, r, b, t),
           NEW q \in LimitedRequests
    PROVE  LET ans == TokenAllow(e, r, b, t) IN
           /\ ans.entry # NoEntry /\ ans.entry.last = t
           /\ TokenBooks(IF ans.allowed THEN Append(a, [by |-> q, t |-> t]) ELSE a, ans.entry, r, b, t)
<1> DEFINE ans == TokenAllow(e, r, b, t)
<1>1. PICK n \in Nat : /\ n = Len(a) /\ \A i \in 1..n : a[i].t \in Nat /\ a[i].t <= t
                       /\ \A i, j \in 1..n : i <= j => a[i].t <= a[j].t
  BY BookedFacts
<1>p. r.count \in Nat \ {0} /\ r.period \in Nat \ {0}
  BY DEF Rates
<1>2. PICK cap \in Nat : cap = b * r.period
  BY <1>p
<1>3. PICK full \in Nat : full = Full(e, r, b, t) /\ full <= cap
  BY <1>2, FullPays
<1>4. ASSUME b <= StalePeriods * r.count, NEW i \in 1..n
      PROVE  (n - i + 1) * r.period + full <= cap + (t - a[i].t) * r.count
  BY <1>1, <1>2, <1>3, <1>4, FullPays
<1>5. PICK left : left = IF full >= r.period THEN full - r.period ELSE full
  OBVIOUS
<1>6. ans.allowed = (full >= r.period)
  BY <1>3, Zenon DEF TokenAllow, Full
<1>7. ans.entry = [tokens |-> left, last |-> t]
  BY <1>3, <1>5, Zenon DEF TokenAllow, Full
<1>8. ans.entry.last = t /\ ans.entry.tokens = left /\ ans.entry # NoEntry
  <2>1. t # -1
    OBVIOUS
  <2>2. [tokens |-> left, last |-> t].last = t /\ [tokens |-> left, last |-> t].tokens = left
    OBVIOUS
  <2>3. NoEntry.last = -1
    BY DEF NoEntry
  <2> QED BY <1>7, <2>1, <2>2, <2>3, Zenon
<1> HIDE DEF ans
<1>9. t \in 0..t /\ left \in 0..cap
  BY <1>3, <1>5, <1>p
<1>10. CASE full >= r.period
  <2>1. PICK h : h = Append(a, [by |-> q, t |-> t])
    OBVIOUS
  <2>2. /\ Len(h) = n + 1 /\ Booked(h, t)
        /\ \A i \in 1..n : h[i] = a[i] /\ h[i].t \in Nat
        /\ h[n + 1].t = t
    <3>1. /\ Len(h) = Len(a) + 1 /\ Booked(h, t)
          /\ \A i \in 1..Len(a) : h[i] = a[i] /\ h[i].t \in Nat
          /\ h[Len(a) + 1].t = t
      BY <2>1, NextAdmission
    <3> QED BY <1>1, <3>1
  <2>3. left = full - r.period /\ left \in Nat
    BY <1>5, <1>9, <1>10
  <2>4. ASSUME b <= StalePeriods * r.count, NEW i \in 1..n + 1
        PROVE  (n + 1 - i + 1) * r.period + left <= cap + (t - h[i].t) * r.count
    <3>1. CASE i = n + 1
      <4>1. (n + 1 - i + 1) * r.period = r.period /\ (t - h[i].t) * r.count = 0
        BY <1>p, <2>2, <3>1
      <4> QED BY <1>3, <1>p, <2>3, <4>1
    <3>2. CASE i # n + 1
      <4>1. i \in 1..n /\ h[i] = a[i]
        BY <2>2, <3>2
      <4>2. PICK x \in Nat : x = a[i].t
        BY <1>1, <4>1
      <4>3. PICK y \in Int, z \in Int : y = (n - i + 1) * r.period /\ z = (t - x) * r.count
        BY <1>p
      <4>4. y + full <= cap + z
        BY <1>4, <2>4, <4>1, <4>2, <4>3
      <4>5. (n + 1 - i + 1) * r.period = y + r.period
        BY <1>p, <4>3
      <4> QED BY <1>p, <2>3, <4>1, <4>2, <4>3, <4>4, <4>5
    <3> QED BY <3>1, <3>2
  <2>5. ASSUME b <= StalePeriods * r.count PROVE Paid(h, r, b)
    <3> SUFFICES ASSUME NEW i \in 1..n + 1, NEW j \in 1..n + 1, i <= j
                 PROVE  (j - i + 1) * r.period <= cap + (h[j].t - h[i].t) * r.count
      BY <1>2, <2>2 DEF Paid
    <3>1. CASE j = n + 1
      <4>1. (n + 1 - i + 1) * r.period + left <= cap + (t - h[i].t) * r.count
        BY <2>4, <2>5
      <4>2. PICK x \in Nat : x = h[i].t
        BY <2>2
      <4>3. PICK y \in Int, z \in Int : y = (n + 1 - i + 1) * r.period /\ z = (t - x) * r.count
        BY <1>p
      <4>4. y + left <= cap + z
        BY <4>1, <4>2, <4>3
      <4>5. y <= cap + z
        BY <2>3, <4>4
      <4> QED BY <2>2, <3>1, <4>2, <4>3, <4>5
    <3>2. CASE j # n + 1
      <4>1. i \in 1..n /\ j \in 1..n
        BY <3>2
      <4>2. Paid(a, r, b)
        BY <2>5 DEF TokenBooks
      <4>3. (j - i + 1) * r.period <= cap + (a[j].t - a[i].t) * r.count
        BY <1>1, <1>2, <4>1, <4>2 DEF Paid
      <4> QED BY <2>2, <4>1, <4>3
    <3> QED BY <3>1, <3>2
  <2>6. \A i \in 1..n + 1 : h[i].t <= t
    BY <2>2 DEF Booked
  <2>7. TokenBooks(h, ans.entry, r, b, t)
    BY <1>2, <1>8, <1>9, <2>2, <2>4, <2>5, <2>6 DEF TokenBooks
  <2>8. ans.allowed
    BY <1>6, <1>10, Zenon
  <2> QED BY <1>8, <2>1, <2>7, <2>8, Zenon DEF ans
<1>11. CASE ~(full >= r.period)
  <2>1. left = full
    BY <1>5, <1>11
  <2>2. b <= StalePeriods * r.count => Paid(a, r, b)
    BY DEF TokenBooks
  <2>3. TokenBooks(a, ans.entry, r, b, t)
    BY <1>1, <1>2, <1>4, <1>8, <1>9, <2>1, <2>2 DEF TokenBooks
  <2>4. ~ans.allowed
    BY <1>6, <1>11, Zenon
  <2> QED BY <1>8, <2>3, <2>4, Zenon DEF ans
<1> QED BY <1>10, <1>11

\* The books of a limiter of one of the three algorithms.
Books(p, a, e, r, t) ==
    /\ Booked(a, t)
    /\ p.algorithm = "sliding_window" => SlidingBooks(a, e, r, t)
    /\ p.algorithm = "fixed_window" => FixedBooks(a, e, r, t)
    /\ p.algorithm \notin {"sliding_window", "fixed_window"} => TokenBooks(a, e, r, BurstOf(p.burst, r), t)

\* Nothing was let through yet.
LEMMA BooksOpen ==
    ASSUME NEW p, NEW r \in Rates, NEW t \in Nat
    PROVE  Books(p, <<>>, NoEntry, r, t)
<1>1. <<>> \in Seq(Admission) /\ <<>> \in Seq(Nat) /\ Len(<<>>) = 0 /\ 1..0 = {} /\ 0 - 0 = 0
  OBVIOUS
<1>2. r.count \in Nat
  BY DEF Rates
<1>3. Booked(<<>>, t)
  BY <1>1 DEF Booked
<1>4. SlidingBooks(<<>>, NoEntry, r, t)
  <2>1. HitsOf(NoEntry) = <<>>
    BY DEF HitsOf
  <2> QED BY <1>1, <1>2, <2>1 DEF SlidingBooks, Spaced
<1>5. FixedBooks(<<>>, NoEntry, r, t)
  BY <1>1 DEF FixedBooks, Windowed
<1>6. TokenBooks(<<>>, NoEntry, r, BurstOf(p.burst, r), t)
  BY <1>1 DEF TokenBooks, Paid
<1> QED BY <1>3, <1>4, <1>5, <1>6 DEF Books

\* A limiter that is asked keeps its books.
LEMMA AllowKeeps ==
    ASSUME NEW p, p.burst \in Int, NEW r \in Rates, NEW t \in Nat, NEW a, NEW e, Books(p, a, e, r, t),
           NEW q \in LimitedRequests
    PROVE  LET ans == Allow(p, e, r, t) IN
           /\ ans.entry # NoEntry /\ ans.entry.last = t
           /\ Books(p, IF ans.allowed THEN Append(a, [by |-> q, t |-> t]) ELSE a, ans.entry, r, t)
<1> DEFINE ans == Allow(p, e, r, t)
           hit == [by |-> q, t |-> t]
           next == IF ans.allowed THEN Append(a, hit) ELSE a
<1>1. Booked(a, t)
  BY DEF Books
<1>2. Booked(next, t)
  <2>1. Booked(Append(a, hit), t)
    BY <1>1, NextAdmission
  <2> HIDE DEF hit, ans
  <2> QED BY <1>1, <2>1
<1>3. BurstOf(p.burst, r) \in Nat \ {0}
  BY DEF BurstOf, Rates
<1>4. CASE p.algorithm = "sliding_window"
  <2>1. ans = SlidingAllow(e, r, t)
    BY <1>4 DEF Allow
  <2>2. SlidingBooks(a, e, r, t)
    BY <1>4 DEF Books
  <2>3. ans.entry # NoEntry /\ ans.entry.last = t /\ SlidingBooks(next, ans.entry, r, t)
    BY <1>1, <2>1, <2>2, SlidingKeeps
  <2> HIDE DEF ans, next
  <2>4. Books(p, next, ans.entry, r, t)
    BY <1>2, <1>4, <2>3 DEF Books
  <2> QED BY <2>3, <2>4 DEF ans, next
<1>5. CASE p.algorithm = "fixed_window"
  <2>1. ans = FixedAllow(e, r, t)
    BY <1>5 DEF Allow
  <2>2. FixedBooks(a, e, r, t)
    BY <1>5 DEF Books
  <2>3. ans.entry # NoEntry /\ ans.entry.last = t /\ FixedBooks(next, ans.entry, r, t)
    BY <1>1, <2>1, <2>2, FixedKeeps
  <2> HIDE DEF ans, next
  <2>4. Books(p, next, ans.entry, r, t)
    BY <1>2, <1>5, <2>3 DEF Books
  <2> QED BY <2>3, <2>4 DEF ans, next
<1>6. CASE p.algorithm \notin {"sliding_window", "fixed_window"}
  <2>1. ans = TokenAllow(e, r, BurstOf(p.burst, r), t)
    BY <1>6 DEF Allow
  <2>2. TokenBooks(a, e, r, BurstOf(p.burst, r), t)
    BY <1>6 DEF Books
  <2>3. ans.entry # NoEntry /\ ans.entry.last = t /\ TokenBooks(next, ans.entry, r, BurstOf(p.burst, r), t)
    BY <1>1, <1>3, <2>1, <2>2, TokenKeeps
  <2> HIDE DEF ans, next
  <2>4. Books(p, next, ans.entry, r, t)
    BY <1>2, <1>6, <2>3 DEF Books
  <2> QED BY <2>3, <2>4 DEF ans, next
<1> QED BY <1>4, <1>5, <1>6

\* Books stay right while time passes.
LEMMA BooksLapse ==
    ASSUME NEW p, p.burst \in Int, NEW r \in Rates, NEW t \in Nat, NEW a, NEW e, Books(p, a, e, r, t)
    PROVE  Books(p, a, e, r, t + 1)
<1>0. Booked(a, t)
  BY DEF Books
<1>1. PICK n \in Nat : /\ n = Len(a) /\ \A i \in 1..n : a[i].t \in Nat /\ a[i].t <= t
                       /\ \A i, j \in 1..n : i <= j => a[i].t <= a[j].t
  BY <1>0, BookedFacts
<1>p. r.count \in Nat \ {0} /\ r.period \in Nat \ {0} /\ t + 1 \in Nat
  BY DEF Rates
<1>2. Booked(a, t + 1)
  <2>1. \A i \in 1..n : a[i].t <= t + 1
    BY <1>1
  <2> QED BY <1>0, <1>1, <2>1 DEF Booked
<1>3. ASSUME SlidingBooks(a, e, r, t) PROVE SlidingBooks(a, e, r, t + 1)
  <2>1. PICK l \in Nat : l = Len(HitsOf(e))
    BY <1>3, LenProperties DEF SlidingBooks
  <2>2. \A i \in 1..n - l : a[i].t + r.period <= t + 1
    <3> SUFFICES ASSUME NEW i \in 1..n - l PROVE a[i].t + r.period <= t + 1
      OBVIOUS
    <3>1. PICK k \in 1..n : k = i /\ l <= n
      BY <1>1, <1>3, <2>1 DEF SlidingBooks
    <3>2. a[i].t + r.period <= t
      BY <1>1, <1>3, <2>1 DEF SlidingBooks
    <3>3. a[i].t \in Nat
      BY <1>1, <3>1
    <3> QED BY <1>p, <3>2, <3>3
  <2>3. e # NoEntry => e.last \in 0..t + 1 /\ \A i \in 1..n : a[i].t <= e.last
    BY <1>1, <1>3 DEF SlidingBooks
  <2> QED BY <1>1, <1>3, <2>1, <2>2, <2>3 DEF SlidingBooks
<1>4. ASSUME FixedBooks(a, e, r, t) PROVE FixedBooks(a, e, r, t + 1)
  <2>1. PICK w \in Nat, v \in Nat : w = t \div r.period /\ v = (t + 1) \div r.period /\ w <= v
    <3>1. t \div r.period \in Nat /\ (t + 1) \div r.period \in Nat
      BY <1>p, WindowOf
    <3>2. t \div r.period <= (t + 1) \div r.period
      BY <1>p, LaterWindow
    <3> QED BY <3>1, <3>2
  <2>2. CASE e = NoEntry
    <3>1. ASSUME NEW i \in 1..n PROVE a[i].t \div r.period < v
      <4>1. a[i].t \div r.period < w
        BY <1>1, <1>4, <2>1, <2>2 DEF FixedBooks
      <4>2. a[i].t \div r.period \in Nat
        BY <1>1, <1>p, WindowOf
      <4> QED BY <2>1, <4>1, <4>2
    <3> QED BY <1>1, <1>4, <2>1, <2>2, <3>1 DEF FixedBooks
  <2>3. CASE e # NoEntry
    <3>1. e.last \in 0..t + 1
      BY <1>4, <2>3 DEF FixedBooks
    <3> QED BY <1>4, <2>3, <3>1 DEF FixedBooks
  <2> QED BY <2>2, <2>3
<1>5. ASSUME NEW b \in Nat, TokenBooks(a, e, r, b, t) PROVE TokenBooks(a, e, r, b, t + 1)
  <2>1. CASE e = NoEntry
    <3>0. PICK later \in Nat : later = t + 1
      BY <1>p
    <3>1. ASSUME b <= StalePeriods * r.count, NEW i \in 1..n
          PROVE  (n - i + 1) * r.period <= (later - a[i].t) * r.count
      <4>1. (n - i + 1) * r.period <= (t - a[i].t) * r.count
        BY <1>1, <1>5, <2>1, <3>1 DEF TokenBooks
      <4>2. PICK x \in Nat : x = a[i].t
        BY <1>1
      <4>3. PICK y \in Int, z \in Int, u \in Int : /\ y = (n - i + 1) * r.period /\ z = (t - x) * r.count
                                                   /\ u = (later - x) * r.count /\ z <= u
        <5>1. (t - x) * r.count <= (later - x) * r.count /\ (t - x) * r.count \in Int /\ (later - x) * r.count \in Int
          BY <1>p, <3>0, TimesGrows
        <5>2. (n - i + 1) * r.period \in Int
          BY <1>p
        <5> QED BY <5>1, <5>2
      <4> QED BY <4>1, <4>2, <4>3
    <3>2. b <= StalePeriods * r.count => \A i \in 1..Len(a) : (Len(a) - i + 1) * r.period <= (later - a[i].t) * r.count
      BY <1>1, <3>1
    <3>3. b <= StalePeriods * r.count => Paid(a, r, b)
      BY <1>5 DEF TokenBooks
    <3>4. TokenBooks(a, e, r, b, later)
      BY <2>1, <3>2, <3>3 DEF TokenBooks
    <3> QED BY <3>0, <3>4
  <2>2. CASE e # NoEntry
    <3>1. e.last \in 0..t + 1
      BY <1>5, <2>2 DEF TokenBooks
    <3> QED BY <1>5, <2>2, <3>1 DEF TokenBooks
  <2> QED BY <2>1, <2>2
<1>6. BurstOf(p.burst, r) \in Nat
  BY <1>p DEF BurstOf
<1> QED BY <1>2, <1>3, <1>4, <1>5, <1>6 DEF Books

\* An entry nobody asked for StalePeriods can be forgotten.
LEMMA BooksForget ==
    ASSUME NEW p, p.burst \in Int, NEW r \in Rates, NEW t \in Nat, NEW a, NEW e, e # NoEntry, Books(p, a, e, r, t),
           t - e.last >= staleAfter(r)
    PROVE  Books(p, a, NoEntry, r, t)
<1>0. Booked(a, t)
  BY DEF Books
<1>1. PICK n \in Nat : /\ n = Len(a) /\ \A i \in 1..n : a[i].t \in Nat /\ a[i].t <= t
                       /\ \A i, j \in 1..n : i <= j => a[i].t <= a[j].t
  BY <1>0, BookedFacts
<1>p. r.count \in Nat \ {0} /\ r.period \in Nat \ {0} /\ StalePeriods \in Nat \ {0}
  BY RateBoundsAssumption DEF Rates
<1>2. PICK idle \in Nat : idle = StalePeriods * r.period /\ idle >= r.period
  <2>1. 1 * r.period <= StalePeriods * r.period /\ 1 * r.period = r.period
    BY <1>p, TimesGrows
  <2>2. StalePeriods * r.period \in Nat
    BY <1>p
  <2> QED BY <1>p, <2>1, <2>2
<1>3. ASSUME e.last \in 0..t, \A i \in 1..n : a[i].t <= e.last, NEW i \in 1..n
      PROVE  a[i].t + idle <= t /\ a[i].t + r.period <= t
  <2>1. t - e.last >= idle /\ e.last \in 0..t
    BY <1>2, <1>3 DEF staleAfter
  <2>2. a[i].t \in Nat /\ a[i].t <= e.last
    BY <1>1, <1>3
  <2> QED BY <2>1, <2>2, <1>2, <1>p
<1>4. ASSUME SlidingBooks(a, e, r, t) PROVE SlidingBooks(a, NoEntry, r, t)
  <2>1. e.last \in 0..t /\ \A i \in 1..n : a[i].t <= e.last
    BY <1>1, <1>4 DEF SlidingBooks
  <2>2. HitsOf(NoEntry) = <<>> /\ <<>> \in Seq(Nat) /\ Len(<<>>) = 0 /\ n - 0 = n /\ 1..0 = {}
    BY DEF HitsOf
  <2>3. \A i \in 1..n : a[i].t + r.period <= t
    BY <1>3, <2>1
  <2>4. Spaced(a, r)
    BY <1>4 DEF SlidingBooks
  <2> QED BY <1>1, <1>p, <2>2, <2>3, <2>4 DEF SlidingBooks
<1>5. ASSUME FixedBooks(a, e, r, t) PROVE FixedBooks(a, NoEntry, r, t)
  <2>1. e.last \in 0..t /\ \A i \in 1..n : a[i].t <= e.last
    BY <1>1, <1>5 DEF FixedBooks
  <2>2. \A i \in 1..n : a[i].t \div r.period < t \div r.period
    BY <1>1, <1>3, <1>p, <2>1, LaterWindow
  <2>3. Windowed(a, r)
    BY <1>5 DEF FixedBooks
  <2> QED BY <1>1, <2>2, <2>3 DEF FixedBooks
<1>6. ASSUME NEW b \in Nat, TokenBooks(a, e, r, b, t) PROVE TokenBooks(a, NoEntry, r, b, t)
  <2>1. e.last \in 0..t /\ e.tokens \in 0..b * r.period /\ \A i \in 1..n : a[i].t <= e.last
    BY <1>1, <1>6 DEF TokenBooks
  <2>2. PICK last \in Nat, tokens \in Nat, cap \in Nat : last = e.last /\ tokens = e.tokens /\ cap = b * r.period
    <3>1. b * r.period \in Nat
      BY <1>p
    <3> QED BY <2>1, <3>1
  <2>3. ASSUME b <= StalePeriods * r.count, NEW i \in 1..n
        PROVE  (n - i + 1) * r.period <= (t - a[i].t) * r.count
    <3>1. PICK x \in Nat : x = a[i].t
      BY <1>1
    <3>2. PICK y \in Int, z \in Int : y = (n - i + 1) * r.period /\ z = (last - x) * r.count
      BY <1>p
    <3>3. y + tokens <= cap + z
      BY <1>1, <1>6, <2>2, <2>3, <3>1, <3>2 DEF TokenBooks
    <3>4. PICK owed \in Int : owed = idle * r.count /\ cap <= owed
      <4>1. PICK s \in Nat : s = StalePeriods * r.count
        BY <1>p
      <4>2. b * r.period <= s * r.period
        BY <1>p, <2>3, <4>1, TimesGrows
      <4>3. s * r.period = idle * r.count /\ idle * r.count \in Int
        BY <1>2, <1>p, <4>1
      <4> QED BY <2>2, <4>2, <4>3
    <3>5. idle * r.count <= (t - last) * r.count /\ (t - last) * r.count \in Int
      <4>1. idle <= t - last /\ t - last \in Int
        BY <1>2, <2>2 DEF staleAfter
      <4> QED BY <1>p, <4>1, TimesGrows
    <3>6. z + (t - last) * r.count = (t - x) * r.count
      BY <1>p, <3>2, EarnedBetween
    <3>7. PICK u \in Int : u = (t - last) * r.count
      BY <3>5
    <3> QED BY <3>1, <3>2, <3>3, <3>4, <3>5, <3>6, <3>7
  <2>4. b <= StalePeriods * r.count => Paid(a, r, b)
    BY <1>6 DEF TokenBooks
  <2> QED BY <1>1, <2>3, <2>4 DEF TokenBooks
<1>7. BurstOf(p.burst, r) \in Nat
  BY <1>p DEF BurstOf
<1> QED BY <1>0, <1>4, <1>5, <1>6, <1>7 DEF Books

\* The waiting time of an answer is exact: allowed after it, and not a tick before.
Exact(p, e, r, t, w) ==
    /\ w \in Nat \ {0} /\ Allow(p, e, r, t + w).allowed
    /\ \A d \in Nat : d < w => ~Allow(p, e, r, t + d).allowed

\* The waiting time of a token bucket.
LEMMA TokenRetry ==
    ASSUME NEW p, p.burst \in Int, p.algorithm \notin {"sliding_window", "fixed_window"}, NEW r \in Rates, NEW t \in Nat,
           NEW a, NEW e, e # NoEntry, Books(p, a, e, r, t), ~Allow(p, e, r, t).allowed
    PROVE  Exact(p, e, r, t, Allow(p, e, r, t).retryAfter)
<1>1. PICK b \in Nat \ {0} : b = BurstOf(p.burst, r)
  BY DEF BurstOf, Rates
<1>p. r.count \in Nat \ {0} /\ r.period \in Nat \ {0}
  BY DEF Rates
<1>2. PICK cap \in Nat : cap = b * r.period /\ cap >= r.period
  <2>1. 1 * r.period <= b * r.period /\ 1 * r.period = r.period
    BY <1>p, TimesGrows
  <2>2. b * r.period \in Nat
    BY <1>p
  <2> QED BY <1>p, <2>1, <2>2
<1>3. TokenBooks(a, e, r, b, t)
  BY <1>1 DEF Books
<1>4. PICK last \in Nat, tokens \in Nat : last = e.last /\ tokens = e.tokens /\ last <= t
  <2>1. e.last \in 0..t /\ e.tokens \in 0..cap
    BY <1>2, <1>3 DEF TokenBooks
  <2> QED BY <2>1
<1>5. ASSUME NEW u \in Nat
      PROVE  /\ Allow(p, e, r, u).allowed = (Full(e, r, b, u) >= r.period)
             /\ Full(e, r, b, u) = IF cap <= tokens + (u - last) * r.count THEN cap
                                   ELSE tokens + (u - last) * r.count
  <2>1. Allow(p, e, r, u) = TokenAllow(e, r, b, u)
    BY <1>1 DEF Allow
  <2>2. Allow(p, e, r, u).allowed = (Full(e, r, b, u) >= r.period)
    <3>1. TokenAllow(e, r, b, u).allowed = (Full(e, r, b, u) >= r.period)
      BY Zenon DEF TokenAllow, Full
    <3> QED BY <2>1, <3>1, Zenon
  <2>3. PICK x \in Int : x = tokens + (u - last) * r.count
    BY <1>p
  <2>4. Full(e, r, b, u) = Min({cap, x})
    <3>1. x = e.tokens + (u - e.last) * r.count
      BY <1>4, <2>3
    <3>2. Full(e, r, b, u) = Min({b * r.period, e.tokens + (u - e.last) * r.count})
      BY DEF Full
    <3> QED BY <1>2, <3>1, <3>2, Zenon
  <2>5. Full(e, r, b, u) = IF cap <= x THEN cap ELSE x
    BY <2>4, OfTwo
  <2> QED BY <2>2, <2>3, <2>5, Zenon
<1>6. PICK full \in Nat : full = Full(e, r, b, t) /\ full = tokens + (t - last) * r.count /\ full < r.period
  <2>1. Allow(p, e, r, t).allowed = (Full(e, r, b, t) >= r.period)
    BY <1>5, Zenon
  <2>3. ~(Full(e, r, b, t) >= r.period)
    BY <2>1, Zenon
  <2>4. Full(e, r, b, t) = IF cap <= tokens + (t - last) * r.count THEN cap ELSE tokens + (t - last) * r.count
    BY <1>5, Zenon
  <2>5. PICK x \in Nat : x = tokens + (t - last) * r.count
    <3>1. t - last \in Nat
      BY <1>4
    <3>2. (t - last) * r.count \in Nat
      BY <1>p, <3>1
    <3> QED BY <3>2
  <2> QED BY <1>2, <1>p, <2>3, <2>4, <2>5
<1>7. PICK x \in Nat : x = r.period - full + r.count - 1
  BY <1>6, <1>p
<1>8. PICK w \in Nat : w = x \div r.count /\ w * r.count <= x /\ x < w * r.count + r.count
  BY <1>p, WindowOf
<1>9. Allow(p, e, r, t).retryAfter = w
  <2>1. Allow(p, e, r, t) = TokenAllow(e, r, b, t)
    BY <1>1 DEF Allow
  <2>2. ~(full >= r.period)
    BY <1>6, <1>p
  <2>3. TokenAllow(e, r, b, t).retryAfter = CeilDiv(r.period - full, r.count)
    BY <1>6, <2>2, Zenon DEF TokenAllow, Full
  <2>4. CeilDiv(r.period - full, r.count) = x \div r.count
    BY <1>7 DEF CeilDiv
  <2> QED BY <1>8, <2>1, <2>3, <2>4
<1>10. ASSUME NEW d \in Nat PROVE tokens + (t + d - last) * r.count = full + d * r.count /\ d * r.count \in Nat
  <2>1. (t - last) * r.count + (t + d - t) * r.count = (t + d - last) * r.count
    BY <1>p, EarnedBetween
  <2>2. (t + d - t) * r.count = d * r.count /\ d * r.count \in Nat
    BY <1>p
  <2>3. (t - last) * r.count \in Int
    BY <1>p
  <2> QED BY <1>6, <2>1, <2>2, <2>3
<1>11. w # 0
  <2> SUFFICES ASSUME w = 0 PROVE FALSE
    OBVIOUS
  <2>1. w * r.count = 0
    BY <1>p
  <2>2. x < r.count
    BY <1>8, <1>p, <2>1
  <2> QED BY <1>6, <1>7, <1>p, <2>2
<1>12. Allow(p, e, r, t + w).allowed
  <2>0. PICK u \in Nat : u = t + w
    OBVIOUS
  <2>1. PICK y \in Nat : y = w * r.count
    BY <1>10
  <2>2. tokens + (u - last) * r.count = full + y
    BY <1>10, <2>0, <2>1
  <2>3. full + y >= r.period
    BY <1>6, <1>7, <1>8, <1>p, <2>1
  <2>4. Full(e, r, b, u) = IF cap <= full + y THEN cap ELSE full + y
    BY <1>5, <2>2
  <2>5. Full(e, r, b, u) >= r.period
    BY <1>2, <2>3, <2>4
  <2>9. Allow(p, e, r, u).allowed
    BY <1>5, <2>5, Zenon
  <2> QED BY <2>0, <2>9
<1>13. ASSUME NEW d \in Nat, d < w PROVE ~Allow(p, e, r, t + d).allowed
  <2>0. PICK u \in Nat : u = t + d
    OBVIOUS
  <2>1. PICK y \in Nat : y = d * r.count
    BY <1>10
  <2>2. tokens + (u - last) * r.count = full + y
    BY <1>10, <2>0, <2>1
  <2>3. (d + 1) * r.count <= w * r.count /\ (d + 1) * r.count = y + r.count
    BY <1>13, <1>p, <2>1, TimesGrows
  <2>4. PICK z \in Nat : z = w * r.count
    BY <1>10
  <2>5. full + y < r.period
    BY <1>6, <1>7, <1>8, <1>p, <2>3, <2>4
  <2>6. Full(e, r, b, u) = full + y
    <3>1. Full(e, r, b, u) = IF cap <= full + y THEN cap ELSE full + y
      BY <1>5, <2>2, Zenon
    <3>2. ~(cap <= full + y)
      BY <1>2, <1>6, <1>p, <2>5
    <3> QED BY <3>1, <3>2
  <2>7. ~(Full(e, r, b, u) >= r.period)
    BY <1>p, <2>5, <2>6
  <2>9. ~Allow(p, e, r, u).allowed
    BY <1>5, <2>7, Zenon
  <2> QED BY <2>0, <2>9
<1> QED BY <1>9, <1>11, <1>12, <1>13 DEF Exact

\* The waiting time of a sliding window.
LEMMA SlidingRetry ==
    ASSUME NEW p, p.algorithm = "sliding_window", NEW r \in Rates, NEW t \in Nat,
           NEW a, NEW e, e # NoEntry, Books(p, a, e, r, t), ~Allow(p, e, r, t).allowed
    PROVE  Exact(p, e, r, t, Allow(p, e, r, t).retryAfter)
<1>p. r.count \in Nat \ {0} /\ r.period \in Nat \ {0}
  BY DEF Rates
<1>1. PICK h : h = HitsOf(e)
  OBVIOUS
<1>2. PICK l \in Nat : l = Len(h) /\ l <= r.count /\ h \in Seq(Nat) /\ Ascends(h)
  <2>1. Booked(a, t) /\ SlidingBooks(a, e, r, t)
    BY DEF Books
  <2> QED BY <1>1, <2>1, SlidingFacts
<1>3. ASSUME NEW u \in Nat
      PROVE  /\ Allow(p, e, r, u) = SlidingAllow(e, r, u)
             /\ Allow(p, e, r, u).allowed = (Len(Live(e, r, u)) < r.count)
             /\ \E m \in 0..l : LeftAfter(m, h, u - r.period, Live(e, r, u))
  <2>1. Allow(p, e, r, u) = SlidingAllow(e, r, u)
    BY DEF Allow
  <2>2. Allow(p, e, r, u).allowed = (Len(Live(e, r, u)) < r.count)
    <3>1. SlidingAllow(e, r, u).allowed = (Len(Live(e, r, u)) < r.count)
      BY Zenon DEF SlidingAllow, Live
    <3> QED BY <2>1, <3>1, Zenon
  <2>3. \E m \in 0..l : LeftAfter(m, HitsOf(e), u - r.period, Live(e, r, u))
    BY <1>1, <1>2, CutHits
  <2> QED BY <1>1, <2>1, <2>2, <2>3
<1>4. l = r.count /\ LeftAfter(0, h, t - r.period, Live(e, r, t)) /\ Allow(p, e, r, t) = SlidingAllow(e, r, t)
  <2>1. ~(Len(Live(e, r, t)) < r.count)
    BY <1>3, Zenon
  <2>2. PICK m \in 0..l : LeftAfter(m, h, t - r.period, Live(e, r, t))
    BY <1>3, Zenon
  <2>3. Len(Live(e, r, t)) = l - m
    BY <1>2, <2>2 DEF LeftAfter
  <2>4. l - m >= r.count
    BY <1>p, <2>1, <2>3
  <2>5. m = 0 /\ l = r.count
    BY <1>2, <1>p, <2>4
  <2> QED BY <1>3, <2>2, <2>5
<1>5. PICK first \in Nat : first = h[1] /\ Live(e, r, t)[1] = first /\ first > t - r.period /\ 1 \in 1..l
  <2>1. 1 \in 1..l /\ 1 \in 1..l - 0 /\ 0 + 1 = 1
    BY <1>4, <1>p
  <2>2. h[1] \in Nat
    BY <1>2, <2>1, ElementOfSeq
  <2>3. Live(e, r, t)[1] = h[1] /\ h[1] > t - r.period
    BY <1>2, <1>4, <2>1 DEF LeftAfter
  <2> QED BY <2>1, <2>2, <2>3
<1>6. PICK w \in Nat \ {0} : w = first + r.period - t
  BY <1>5, <1>p
<1>7. Allow(p, e, r, t).retryAfter = w
  <2>1. ~(Len(Live(e, r, t)) < r.count)
    BY <1>3, Zenon
  <2>2. SlidingAllow(e, r, t).retryAfter = Live(e, r, t)[1] + r.period - t
    BY <2>1, Zenon DEF SlidingAllow, Live
  <2> QED BY <1>4, <1>5, <1>6, <2>2
<1>8. Allow(p, e, r, t + w).allowed
  <2>0. PICK u \in Nat : u = t + w
    OBVIOUS
  <2>1. PICK m \in 0..l : LeftAfter(m, h, u - r.period, Live(e, r, u))
    BY <1>3
  <2>2. u - r.period = first
    BY <1>6, <1>p, <2>0
  <2>3. m # 0
    <3> SUFFICES ASSUME m = 0 PROVE FALSE
      OBVIOUS
    <3>1. 1 \in 1..l - m /\ m + 1 = 1
      BY <1>5
    <3>2. h[1] > first
      BY <1>2, <2>1, <2>2, <3>1 DEF LeftAfter
    <3> QED BY <1>5, <3>2
  <2>4. Len(Live(e, r, u)) = l - m
    BY <1>2, <2>1 DEF LeftAfter
  <2>5. Len(Live(e, r, u)) < r.count
    BY <1>4, <1>p, <2>3, <2>4
  <2>9. Allow(p, e, r, u).allowed
    BY <1>3, <2>5, Zenon
  <2> QED BY <2>0, <2>9
<1>9. ASSUME NEW d \in Nat, d < w PROVE ~Allow(p, e, r, t + d).allowed
  <2>0. PICK u \in Nat : u = t + d
    OBVIOUS
  <2>1. PICK m \in 0..l : LeftAfter(m, h, u - r.period, Live(e, r, u))
    BY <1>3
  <2>2. u - r.period < first
    BY <1>6, <1>9, <1>p, <2>0
  <2>3. m = 0
    <3> SUFFICES ASSUME m # 0 PROVE FALSE
      OBVIOUS
    <3>1. 1 \in 1..m
      OBVIOUS
    <3>2. h[1] <= u - r.period
      BY <2>1, <3>1 DEF LeftAfter
    <3> QED BY <1>5, <1>p, <2>2, <3>2
  <2>4. Len(Live(e, r, u)) = l
    BY <1>2, <2>1, <2>3 DEF LeftAfter
  <2>5. ~(Len(Live(e, r, u)) < r.count)
    BY <1>4, <1>p, <2>4
  <2>9. ~Allow(p, e, r, u).allowed
    BY <1>3, <2>5, Zenon
  <2> QED BY <2>0, <2>9
<1> QED BY <1>6, <1>7, <1>8, <1>9 DEF Exact

\* The waiting time of a fixed window.
LEMMA FixedRetry ==
    ASSUME NEW p, p.algorithm = "fixed_window", NEW r \in Rates, NEW t \in Nat,
           NEW a, NEW e, e # NoEntry, Books(p, a, e, r, t), ~Allow(p, e, r, t).allowed
    PROVE  Exact(p, e, r, t, Allow(p, e, r, t).retryAfter)
<1>p. r.count \in Nat \ {0} /\ r.period \in Nat \ {0}
  BY DEF Rates
<1> DEFINE Spent(d) == IF e = NoEntry \/ e.window # ((t + d) \div r.period) * r.period THEN 0 ELSE e.count
<1>1. ASSUME NEW d \in Nat
      PROVE  /\ Allow(p, e, r, t + d) = FixedAllow(e, r, t + d)
             /\ Allow(p, e, r, t + d).allowed = (Spent(d) < r.count)
  <2>1. Allow(p, e, r, t + d) = FixedAllow(e, r, t + d)
    BY DEF Allow
  <2>2. FixedAllow(e, r, t + d).allowed = (Spent(d) < r.count)
    BY Zenon DEF FixedAllow
  <2> QED BY <2>1, <2>2, Zenon
<1>2. t + 0 = t /\ 0 \in Nat
  OBVIOUS
<1>3. PICK v \in Nat, base \in Nat : v = t \div r.period /\ base = v * r.period /\ base <= t /\ t < base + r.period
  BY <1>p, WindowOf
<1>4. ~(Spent(0) < r.count) /\ Allow(p, e, r, t) = FixedAllow(e, r, t)
  <2> HIDE DEF Spent
  <2> QED BY <1>1, <1>2, Zenon
<1>5. e.window = base /\ ~(e.count < r.count)
  BY <1>2, <1>3, <1>4, <1>p
<1>6. PICK w \in Nat \ {0} : w = base + r.period - t
  BY <1>3, <1>p
<1>7. Allow(p, e, r, t).retryAfter = w
  <2>1. FixedAllow(e, r, t).retryAfter = base + r.period - t
    BY <1>3, <1>5, Zenon DEF FixedAllow
  <2> QED BY <1>4, <1>6, <2>1
<1>8. Allow(p, e, r, t + w).allowed
  <2>1. PICK x \in Nat : x = t + w /\ x = base + r.period
    BY <1>6, <1>p
  <2>2. (v + 1) * r.period = base + r.period
    BY <1>3, <1>p
  <2>3. x \div r.period = v + 1
    BY <1>p, <2>1, <2>2, OnlyWindow
  <2>4. e.window # (x \div r.period) * r.period
    BY <1>5, <1>p, <2>2, <2>3
  <2>5. Spent(w) = 0
    BY <2>1, <2>4
  <2>6. Spent(w) < r.count
    BY <1>p, <2>5
  <2> HIDE DEF Spent
  <2> QED BY <1>1, <2>6, Zenon
<1>9. ASSUME NEW d \in Nat, d < w PROVE ~Allow(p, e, r, t + d).allowed
  <2>1. PICK x \in Nat : x = t + d /\ base <= x /\ x < base + r.period
    BY <1>3, <1>6, <1>9, <1>p
  <2>2. x \div r.period = v
    <3>1. v * r.period <= x /\ x < v * r.period + r.period
      BY <1>3, <2>1
    <3> QED BY <1>p, <3>1, OnlyWindow
  <2>3. Spent(d) = e.count
    BY <1>3, <1>5, <2>1, <2>2
  <2>4. ~(Spent(d) < r.count)
    BY <1>5, <2>3
  <2> HIDE DEF Spent
  <2> QED BY <1>1, <2>4, Zenon
<1> QED BY <1>6, <1>7, <1>8, <1>9 DEF Exact

\* The rates a declaration may give.
Literals == [count : Nat, period : Nat \ {0}]

\* A limiter works with a rate that lets something through.
LEMMA NormalRate ==
    ASSUME NEW r \in Literals
    PROVE  Normal(r) \in Rates
<1>1. r.count \in Nat /\ r.period \in Nat \ {0} /\ r = [count |-> r.count, period |-> r.period]
  BY DEF Literals
<1>2. Max({1, r.count}) \in Nat \ {0}
  BY <1>1, OfTwo
<1> DEFINE m == Max({1, r.count})
<1>3. m \in Nat \ {0}
  BY <1>2
<1>4. Normal(r) = [r EXCEPT !.count = m]
  BY Zenon DEF Normal
<1> HIDE DEF m
<1>5. [r EXCEPT !.count = m] \in [count : Nat \ {0}, period : Nat \ {0}]
  BY <1>1, <1>3
<1> QED BY <1>4, <1>5 DEF Rates

\* Whatever level declares a dimension, its rate is a literal.
LEMMA DeclaredLiterals ==
    ASSUME setup \in RouteSetups, plan = PlanOf(setup), plan # NoPlan, plan # RatePlanError
    PROVE  /\ plan.burst \in Int
           /\ \A tier \in DOMAIN plan.tiers : (plan.byTier \/ tier = Nobody) =>
                 \E dims : /\ plan.tiers[tier] = rateLimitRulesFromDims(dims)
                           /\ \A d \in DOMAIN dims : dims[d] \in Literals /\ Normal(dims[d]) = Declared(tier, d)
<1> DEFINE cfg == mergeRateLimitConfig(setup.iface, setup.route)
           lists == IF cfg.byTier THEN [t \in DOMAIN TierRules |-> rateLimitRulesFromDims(TierRules[t])]
                    ELSE [t \in {Nobody} |-> rateLimitRulesFromDims(cfg.dims)]
<1>1. plan = [error |-> FALSE, tiers |-> lists, byTier |-> cfg.byTier, burst |-> cfg.burst,
              algorithm |-> setup.mod.algorithm, backend |-> setup.mod.backend]
  BY Zenon DEF PlanOf, planRouteRateLimit
<1> DEFINE high == setup.route.dims
           low == setup.iface.dims
<1>2. cfg.burst \in Int /\ (cfg.byTier \/ cfg.dims = Over(high, low))
  <2>1. setup.iface.burst \in Int /\ setup.route.burst \in Int
    BY RatesAssumption
  <2>2. PICK b \in Int : b = IF setup.route.burst > 0 THEN setup.route.burst ELSE Max({setup.iface.burst, 0})
    <3>1. Max({setup.iface.burst, 0}) \in Int
      <4>1. PICK x \in Int : x = setup.iface.burst
        BY <2>1
      <4>2. Max({x, 0}) = IF x >= 0 THEN x ELSE 0
        BY OfTwo
      <4> QED BY <4>1, <4>2
    <3> QED BY <2>1, <3>1
  <2>3. \/ cfg = [byTier |-> TRUE, dims |-> <<>>, burst |-> 0]
        \/ cfg = [byTier |-> FALSE, dims |-> Over(high, low), burst |-> b]
    BY <2>2, Zenon DEF mergeRateLimitConfig
  <2> HIDE DEF cfg, high, low
  <2> QED BY <2>3
<1>3. plan.burst = cfg.burst /\ plan.tiers = lists
  <2> HIDE DEF cfg, lists
  <2> QED BY <1>1
<1>4. plan.byTier = cfg.byTier
  <2> HIDE DEF cfg, lists
  <2> QED BY <1>1
<1> HIDE DEF cfg
<1>5. ASSUME NEW tier \in DOMAIN plan.tiers, plan.byTier \/ tier = Nobody
      PROVE  \E dims : /\ plan.tiers[tier] = rateLimitRulesFromDims(dims)
                       /\ \A d \in DOMAIN dims : dims[d] \in Literals /\ Normal(dims[d]) = Declared(tier, d)
  <2>1. CASE cfg.byTier
    <3>1. plan.tiers = [t \in DOMAIN TierRules |-> rateLimitRulesFromDims(TierRules[t])]
      BY <1>3, <2>1, Zenon
    <3>2. tier \in DOMAIN TierRules
      BY <1>5, <3>1, Zenon
    <3>3. plan.tiers[tier] = rateLimitRulesFromDims(TierRules[tier])
      BY <3>1, <3>2, Zenon
    <3>4. \A d \in DOMAIN TierRules[tier] : TierRules[tier][d] \in Literals
      <4>1. TierRules[tier] \in {TierRules[t] : t \in DOMAIN TierRules}
        BY <3>2
      <4>2. TierRules[tier] \in (UNION {{s.iface.dims, s.route.dims} : s \in RouteSetups}) \cup {TierRules[t] : t \in DOMAIN TierRules}
        BY <4>1, Zenon
      <4> QED BY <4>2, RatesAssumption, Zenon DEF Literals
    <3>5. \A d : Declared(tier, d) = Normal(TierRules[tier][d])
      <4>1. tier # Nobody
        BY <3>2, RateNamesAssumption
      <4> QED BY <4>1 DEF Declared
    <3> QED BY <3>3, <3>4, <3>5, Zenon
  <2>2. CASE ~cfg.byTier
    <3>1. plan.tiers = [t \in {Nobody} |-> rateLimitRulesFromDims(cfg.dims)]
      BY <1>3, <2>2, Zenon
    <3>2. tier = Nobody
      BY <1>5, <3>1, Zenon
    <3>3. plan.tiers[tier] = rateLimitRulesFromDims(Over(high, low))
      BY <1>2, <2>2, <3>1, <3>2, Zenon
    <3>4. /\ \A d \in DOMAIN high : high[d] \in Literals
          /\ \A d \in DOMAIN low : low[d] \in Literals
      <4>1. {low, high} \in {{s.iface.dims, s.route.dims} : s \in RouteSetups}
        OBVIOUS
      <4>2. \A x \in {low, high} :
               x \in (UNION {{s.iface.dims, s.route.dims} : s \in RouteSetups}) \cup {TierRules[t] : t \in DOMAIN TierRules}
        BY <4>1, Zenon
      <4>3. low \in {low, high} /\ high \in {low, high}
        OBVIOUS
      <4> HIDE DEF high, low
      <4> QED BY <4>2, <4>3, RatesAssumption, Zenon DEF Literals
    <3>5. \A d : Declared(tier, d) = Normal(IF d \in DOMAIN high THEN high[d] ELSE low[d])
      BY <3>2, Zenon DEF Declared
    <3> HIDE DEF high, low
    <3>6. DOMAIN Over(high, low) = DOMAIN high \cup DOMAIN low
      BY DEF Over
    <3>7. \A d \in DOMAIN Over(high, low) : Over(high, low)[d] = IF d \in DOMAIN high THEN high[d] ELSE low[d]
      BY DEF Over
    <3>8. ASSUME NEW d \in DOMAIN Over(high, low)
          PROVE  Over(high, low)[d] \in Literals /\ Normal(Over(high, low)[d]) = Declared(tier, d)
      <4>1. CASE d \in DOMAIN high
        BY <3>4, <3>5, <3>7, <4>1, Zenon
      <4>2. CASE d \notin DOMAIN high
        <5>1. d \in DOMAIN low
          BY <3>6, <4>2
        <5> QED BY <3>4, <3>5, <3>7, <4>2, <5>1, Zenon
      <4> QED BY <4>1, <4>2
    <3> QED BY <3>3, <3>8, Zenon
  <2> QED BY <2>1, <2>2
<1> QED BY <1>2, <1>3, <1>5

\* A check at the rate somebody declared for it.
IsDeclared(c) == c.rate = Declared(c.tier, c.dim) /\ c.rate \in Rates

\* The checks of a request are of the dimensions and at the rates that are declared.
LEMMA DeclaredChecks ==
    ASSUME setup \in RouteSetups, plan = PlanOf(setup), plan # NoPlan, plan # RatePlanError,
           NEW q \in LimitedRequests
    PROVE  /\ ChecksOf(q) \in Seq(ToSet(ChecksOf(q)))
           /\ \A c \in ToSet(ChecksOf(q)) : IsDeclared(c)
<1> DEFINE client == ClientOf[q]
           tier == IF plan.byTier THEN client.tier ELSE Nobody
<1>1. CASE tier \notin DOMAIN plan.tiers
  <2>1. ChecksOf(q) = <<>>
    BY <1>1, Zenon DEF ChecksOf
  <2>2. ToSet(<<>>) = {}
    BY DEF ToSet
  <2>3. <<>> \in Seq({})
    OBVIOUS
  <2> QED BY <2>1, <2>2, <2>3, Zenon
<1>2. CASE tier \in DOMAIN plan.tiers
  <2>1. plan.byTier \/ tier = Nobody
    BY Zenon
  <2> DEFINE rules == plan.tiers[tier]
             known == Only(rules, {x \in ToSet(rules) : client[x.dim] # Nobody})
             check == [i \in 1..Len(known) |-> [tier |-> tier, dim |-> known[i].dim, rate |-> Normal(known[i].rate)]]
  <2>2. ChecksOf(q) = [i \in DOMAIN known |-> [tier |-> tier, dim |-> known[i].dim, rate |-> Normal(known[i].rate)]]
    BY <1>2, Zenon DEF ChecksOf
  <2> HIDE DEF tier, client
  <2>3. PICK dims : /\ rules = rateLimitRulesFromDims(dims)
                    /\ \A d \in DOMAIN dims : dims[d] \in Literals /\ Normal(dims[d]) = Declared(tier, d)
    BY <1>2, <2>1, DeclaredLiterals
  <2> DEFINE Ruled == {[dim |-> d, rate |-> dims[d]] : d \in DOMAIN dims}
             present == Only(DimensionOrder, DOMAIN dims)
  <2>4. present \in Seq(DOMAIN dims)
    <3>1. DimensionOrder \in Seq({"perIp", "perUser", "perTenant", "perApiKey", "global"})
      BY DEF DimensionOrder
    <3>2. present \in Seq({"perIp", "perUser", "perTenant", "perApiKey", "global"} \cap DOMAIN dims)
      BY <3>1, OnlyElements
    <3> HIDE DEF present
    <3>3. PICK n \in Nat : n = Len(present) /\ DOMAIN present = 1..n
      BY <3>2, LenProperties
    <3>4. \A i \in 1..n : present[i] \in DOMAIN dims
      BY <3>2, <3>3, ElementOfSeq
    <3> QED BY <3>2, <3>3, <3>4
  <2>5. rules \in Seq(Ruled)
    <3>1. rules = [i \in DOMAIN present |-> [dim |-> present[i], rate |-> dims[present[i]]]]
      BY <2>3, Zenon DEF rateLimitRulesFromDims
    <3> HIDE DEF present, rules
    <3>2. PICK n \in Nat : n = Len(present) /\ DOMAIN present = 1..n
      BY <2>4, LenProperties
    <3>3. \A i \in 1..n : present[i] \in DOMAIN dims
      BY <2>4, <3>2, ElementOfSeq
    <3>4. \A i \in 1..n : [dim |-> present[i], rate |-> dims[present[i]]] \in Ruled
      BY <3>3
    <3> HIDE DEF Ruled
    <3> QED BY <3>1, <3>2, <3>4
  <2>6. known \in Seq(Ruled)
    <3> DEFINE S == {x \in ToSet(rules) : client[x.dim] # Nobody}
    <3>1. Only(rules, S) \in Seq(Ruled \cap S)
      <4> HIDE DEF rules, S, Ruled
      <4> QED BY <2>5, OnlyElements
    <3> HIDE DEF known, S, Ruled
    <3>2. known \in Seq(Ruled \cap S)
      BY <3>1 DEF known, S
    <3>3. PICK n \in Nat : n = Len(known) /\ DOMAIN known = 1..n
      BY <3>2, LenProperties
    <3>4. \A i \in 1..n : known[i] \in Ruled
      BY <3>2, <3>3, ElementOfSeq
    <3> QED BY <3>2, <3>3, <3>4
  <2> HIDE DEF known, rules
  <2>7. PICK n \in Nat : n = Len(known) /\ DOMAIN known = 1..n
    BY <2>6, LenProperties
  <2>8. ASSUME NEW i \in 1..n
        PROVE  IsDeclared([tier |-> tier, dim |-> known[i].dim, rate |-> Normal(known[i].rate)])
    <3>1. known[i] \in Ruled
      BY <2>6, <2>7, ElementOfSeq
    <3>2. PICK d \in DOMAIN dims : known[i] = [dim |-> d, rate |-> dims[d]]
      BY <3>1
    <3>3. known[i].dim = d /\ known[i].rate = dims[d]
      BY <3>2
    <3>4. Normal(dims[d]) = Declared(tier, d) /\ Normal(dims[d]) \in Rates
      BY <2>3, NormalRate
    <3> DEFINE c == [tier |-> tier, dim |-> known[i].dim, rate |-> Normal(known[i].rate)]
    <3>5. c.tier = tier /\ c.dim = known[i].dim /\ c.rate = Normal(known[i].rate)
      OBVIOUS
    <3> HIDE DEF c
    <3>6. IsDeclared(c)
      BY <3>3, <3>4, <3>5, Zenon DEF IsDeclared
    <3> QED BY <3>6 DEF c
  <2> DEFINE f == ChecksOf(q)
  <2>9. DOMAIN f = 1..n /\ \A i \in 1..n : f[i] = [tier |-> tier, dim |-> known[i].dim, rate |-> Normal(known[i].rate)]
    BY <2>2, <2>7
  <2>10. f = [i \in 1..n |-> f[i]]
    BY <2>2, <2>7
  <2> HIDE DEF f
  <2>11. \A i \in 1..n : IsDeclared(f[i])
    BY <2>8, <2>9
  <2>12. ToSet(f) = {f[i] : i \in 1..n}
    BY <2>9 DEF ToSet
  <2>13. \A i \in 1..n : f[i] \in ToSet(f)
    BY <2>12
  <2>14. f \in Seq(ToSet(f))
    BY <2>10, <2>13
  <2>15. \A c \in ToSet(f) : IsDeclared(c)
    BY <2>11, <2>12
  <2> QED BY <2>14, <2>15 DEF f
<1> QED BY <1>1, <1>2

\* A map after m[k] = v: its keys, and what it holds.
LEMMA PutDomain ==
    ASSUME NEW m, NEW k, NEW v, NEW x
    PROVE  x \in DOMAIN Put(m, k, v) <=> x \in DOMAIN m \/ x = k
BY DEF Put

\* A map after m[k] = v, at k.
LEMMA PutAt ==
    ASSUME NEW m, NEW k, NEW v
    PROVE  Put(m, k, v)[k] = v
BY DEF Put

\* A map after m[k] = v, at the other keys.
LEMMA PutOther ==
    ASSUME NEW m, NEW k, NEW v, NEW x \in DOMAIN m, x # k
    PROVE  Put(m, k, v)[x] = m[x]
BY DEF Put

\* A map after m[k] = v, looked up with a default.
LEMMA PutLookup ==
    ASSUME NEW m, NEW k, NEW v, NEW x, NEW other
    PROVE  Lookup(Put(m, k, v), x, other) = IF x = k THEN v ELSE Lookup(m, x, other)
BY DEF Put, Lookup

\* A map cut down to S, looked up with a default.
LEMMA CutLookup ==
    ASSUME NEW m, NEW S, S \subseteq DOMAIN m, NEW x, NEW other
    PROVE  Lookup(Restrict(m, S), x, other) = IF x \in S THEN Lookup(m, x, other) ELSE other
BY DEF Restrict, Lookup

\* The books of one entry: k is a place, a tier, a dimension and a key.
EntryKept(k, st, ad, t) ==
    /\ k[1] \in Replicas \cup {"redis"} /\ Declared(k[2], k[3]) \in Rates
    /\ Books(plan, Lookup(ad, k, <<>>), Lookup(st, k, NoEntry), Declared(k[2], k[3]), t)
    /\ k \in DOMAIN st => st[k] # NoEntry
BooksKept(st, ad, t) == \A k \in DOMAIN st \cup DOMAIN ad : EntryKept(k, st, ad, t)

\* A request on its way has every check of its plan behind it, or still before it.
PassedBy(q, c, ad) ==
    \E k \in DOMAIN ad : /\ k[2] = c.tier /\ k[3] = c.dim /\ k[4] = ClientOf[q][c.dim]
                         /\ \E i \in DOMAIN ad[k] : ad[k][i].by = q
Underway(q, all, rq, ad) ==
    /\ DOMAIN rq = {"stage", "replica", "checks", "result"}
    /\ rq.stage \in {"new", "checking", "denied", "admitted"}
    /\ rq.stage = "checking" =>
          /\ rq.replica \in Replicas /\ rq.checks \in Seq(ToSet(all)) /\ rq.checks # <<>>
          /\ \A c \in ToSet(all) : c \in ToSet(rq.checks) \/ PassedBy(q, c, ad)
    /\ rq.stage = "admitted" => \A c \in ToSet(all) : PassedBy(q, c, ad)

PlanInv == setup \in RouteSetups /\ plan = PlanOf(setup) /\ plan # NoPlan /\ plan # RatePlanError
\* Every entry's books are kept, and every request has its checks behind it or before it.
RateInv ==
    /\ PlanInv
    /\ clock \in 0..MaxTime /\ connected \subseteq Replicas
    /\ BooksKept(store, admissions, clock)
    /\ \A L \in DOMAIN calls : calls[L] \in 0..SweepEvery - 1
    /\ DOMAIN request = LimitedRequests /\ \A q \in LimitedRequests : Underway(q, ChecksOf(q), request[q], admissions)

\* Who was let through before is still in the history.
LEMMA StillPassed ==
    ASSUME NEW q, NEW c, NEW ad, PassedBy(q, c, ad), NEW k, Lookup(ad, k, <<>>) \in Seq(Admission),
           NEW x \in Admission
    PROVE  PassedBy(q, c, Put(ad, k, Append(Lookup(ad, k, <<>>), x)))
<1>1. PICK j \in DOMAIN ad : /\ j[2] = c.tier /\ j[3] = c.dim /\ j[4] = ClientOf[q][c.dim]
                             /\ \E i \in DOMAIN ad[j] : ad[j][i].by = q
  BY DEF PassedBy
<1>2. PICK i \in DOMAIN ad[j] : ad[j][i].by = q
  BY <1>1
<1>v. PICK v : v = Append(Lookup(ad, k, <<>>), x)
  OBVIOUS
<1> DEFINE next == Put(ad, k, v)
<1>0. /\ \A y : y \in DOMAIN next <=> y \in DOMAIN ad \/ y = k
      /\ next[k] = v
      /\ \A y \in DOMAIN ad : y # k => next[y] = ad[y]
  <2>1. \A y : y \in DOMAIN next <=> y \in DOMAIN ad \/ y = k
    BY PutDomain
  <2>2. next[k] = v
    BY PutAt
  <2>3. \A y \in DOMAIN ad : y # k => next[y] = ad[y]
    BY PutOther
  <2> QED BY <2>1, <2>2, <2>3
<1> HIDE DEF next
<1>3. j \in DOMAIN next
  BY <1>0, <1>1
<1>4. i \in DOMAIN next[j] /\ next[j][i].by = q
  <2>1. CASE j = k
    <3>1. PICK a \in Seq(Admission) : a = Lookup(ad, k, <<>>) /\ a = ad[j]
      BY <1>1, <2>1 DEF Lookup
    <3>2. next[j] = Append(a, x)
      BY <1>0, <1>v, <2>1, <3>1
    <3>3. PICK n \in Nat : n = Len(a) /\ DOMAIN a = 1..n
      BY <3>1, LenProperties
    <3>4. i \in 1..n
      BY <1>2, <3>1, <3>3
    <3>5. Append(a, x) \in Seq(Admission) /\ Len(Append(a, x)) = n + 1 /\ Append(a, x)[i] = a[i]
      BY <3>1, <3>3, <3>4, AppendProperties
    <3>6. DOMAIN Append(a, x) = 1..n + 1
      BY <3>5, LenProperties
    <3>7. i \in 1..n + 1
      BY <3>4
    <3> QED BY <1>2, <3>1, <3>2, <3>5, <3>6, <3>7
  <2>2. CASE j # k
    BY <1>0, <1>1, <1>2, <2>2
  <2> QED BY <2>1, <2>2
<1>5. PassedBy(q, c, next)
  BY <1>1, <1>3, <1>4, Zenon DEF PassedBy
<1> QED BY <1>5, <1>v DEF next

\* Books of an entry that is asked at a moment when its books hold.
LEMMA BooksAfterCharge ==
    ASSUME PlanInv, BooksKept(store, admissions, clock), clock \in Nat,
           NEW q \in LimitedRequests, NEW place \in Replicas \cup {"redis"}, NEW c, IsDeclared(c),
           NEW e, Books(plan, Lookup(admissions, <<place, c.tier, c.dim, ClientOf[q][c.dim]>>, <<>>), e, c.rate, clock),
           ChargeBucket(q, place, c, Allow(plan, e, c.rate, clock))
    PROVE  BooksKept(Put(store, <<place, c.tier, c.dim, ClientOf[q][c.dim]>>, Allow(plan, e, c.rate, clock).entry),
                     admissions', clock)
<1> DEFINE k == <<place, c.tier, c.dim, ClientOf[q][c.dim]>>
           ans == Allow(plan, e, c.rate, clock)
           a == Lookup(admissions, k, <<>>)
           hit == [by |-> q, t |-> clock]
           next == IF ans.allowed THEN Append(a, hit) ELSE a
           kept == Put(store, k, ans.entry)
<1>1. c.rate = Declared(c.tier, c.dim) /\ c.rate \in Rates /\ plan.burst \in Int
  BY DeclaredLiterals DEF IsDeclared, PlanInv
<1>2. ans.entry # NoEntry /\ Books(plan, next, ans.entry, c.rate, clock)
  BY <1>1, AllowKeeps
<1>3. admissions' = IF ans.allowed THEN Put(admissions, k, Append(a, hit)) ELSE admissions
  BY DEF ChargeBucket
<1>4. k[1] = place /\ k[2] = c.tier /\ k[3] = c.dim /\ k[4] = ClientOf[q][c.dim]
  OBVIOUS
<1> HIDE DEF k, ans, a, hit
<1>5. /\ \A x : x \in DOMAIN kept <=> x \in DOMAIN store \/ x = k
      /\ kept[k] = ans.entry
      /\ \A x \in DOMAIN store : x # k => kept[x] = store[x]
      /\ \A x : Lookup(kept, x, NoEntry) = IF x = k THEN ans.entry ELSE Lookup(store, x, NoEntry)
  BY PutDomain, PutAt, PutOther, PutLookup
<1>6. /\ DOMAIN admissions' \subseteq DOMAIN admissions \cup {k}
      /\ \A x : Lookup(admissions', x, <<>>) = IF x = k THEN next ELSE Lookup(admissions, x, <<>>)
  <2>1. CASE ans.allowed
    <3>1. admissions' = Put(admissions, k, Append(a, hit)) /\ next = Append(a, hit)
      BY <1>3, <2>1
    <3>0. PICK v : v = Append(a, hit)
      OBVIOUS
    <3> DEFINE f == Put(admissions, k, v)
    <3>2. /\ \A x : x \in DOMAIN f <=> x \in DOMAIN admissions \/ x = k
          /\ \A x : Lookup(f, x, <<>>) = IF x = k THEN v ELSE Lookup(admissions, x, <<>>)
      <4>1. \A x : x \in DOMAIN f <=> x \in DOMAIN admissions \/ x = k
        BY PutDomain
      <4>2. \A x : Lookup(f, x, <<>>) = IF x = k THEN v ELSE Lookup(admissions, x, <<>>)
        BY PutLookup
      <4> QED BY <4>1, <4>2
    <3> HIDE DEF f
    <3> QED BY <3>0, <3>1, <3>2 DEF f
  <2>2. CASE ~ans.allowed
    <3>1. admissions' = admissions /\ next = a
      BY <1>3, <2>2
    <3> QED BY <3>1 DEF a
  <2> QED BY <2>1, <2>2
<1> HIDE DEF next, kept
<1>7. EntryKept(k, kept, admissions', clock)
  BY <1>1, <1>2, <1>4, <1>5, <1>6 DEF EntryKept
<1>8. ASSUME NEW x \in DOMAIN kept \cup DOMAIN admissions', x # k
      PROVE  EntryKept(x, kept, admissions', clock)
  <2>1. x \in DOMAIN store \cup DOMAIN admissions
    BY <1>5, <1>6, <1>8
  <2>2. EntryKept(x, store, admissions, clock)
    BY <2>1 DEF BooksKept
  <2>3. /\ Lookup(kept, x, NoEntry) = Lookup(store, x, NoEntry)
        /\ Lookup(admissions', x, <<>>) = Lookup(admissions, x, <<>>)
    BY <1>5, <1>6, <1>8
  <2>4. x \in DOMAIN kept => x \in DOMAIN store /\ kept[x] = store[x]
    BY <1>5, <1>8
  <2> QED BY <2>2, <2>3, <2>4 DEF EntryKept
<1>9. BooksKept(kept, admissions', clock)
  BY <1>7, <1>8 DEF BooksKept
<1> QED BY <1>9 DEF kept, k, ans

\* What the requests look like after one of them was answered.
LEMMA RequestsAfterCharge ==
    ASSUME clock \in Nat, DOMAIN request = LimitedRequests, \A q \in LimitedRequests : Underway(q, ChecksOf(q), request[q], admissions),
           NEW q \in LimitedRequests, request[q].stage = "checking", NEW place, NEW c, c = Head(request[q].checks),
           NEW ans, ChargeBucket(q, place, c, ans),
           Lookup(admissions, <<place, c.tier, c.dim, ClientOf[q][c.dim]>>, <<>>) \in Seq(Admission)
    PROVE  /\ DOMAIN request' = LimitedRequests
           /\ \A p \in LimitedRequests : Underway(p, ChecksOf(p), request'[p], admissions')
<1> DEFINE k == <<place, c.tier, c.dim, ClientOf[q][c.dim]>>
           hit == [by |-> q, t |-> clock]
           a == Lookup(admissions, k, <<>>)
           rq == request[q]
           T == ToSet(ChecksOf(q))
<1>1. /\ request' = [request EXCEPT ![q] = AfterCheck(@, ans)]
      /\ admissions' = IF ans.allowed THEN Put(admissions, k, Append(a, hit)) ELSE admissions
  BY DEF ChargeBucket
<1>2. hit \in Admission /\ hit.by = q
  BY DEF Admission
<1>3. k[2] = c.tier /\ k[3] = c.dim /\ k[4] = ClientOf[q][c.dim]
  OBVIOUS
<1> HIDE DEF hit, k
<1>5. ASSUME NEW p, NEW d, PassedBy(p, d, admissions) PROVE PassedBy(p, d, admissions')
  <2>1. CASE ans.allowed
    <3>1. admissions' = Put(admissions, k, Append(Lookup(admissions, k, <<>>), hit))
      BY <1>1, <2>1
    <3>2. Lookup(admissions, k, <<>>) \in Seq(Admission)
      BY DEF k
    <3> QED BY <1>2, <1>5, <3>1, <3>2, StillPassed
  <2>2. CASE ~ans.allowed
    BY <1>1, <1>5, <2>2
  <2> QED BY <2>1, <2>2
<1>6. ASSUME ans.allowed PROVE PassedBy(q, c, admissions')
  <2>1. admissions' = Put(admissions, k, Append(a, hit))
    BY <1>1, <1>6
  <2>2. k \in DOMAIN admissions' /\ admissions'[k] = Append(a, hit)
    <3> DEFINE f == Put(admissions, k, Append(a, hit))
    <3>1. k \in DOMAIN f /\ f[k] = Append(a, hit)
      <4>1. PICK v : v = Append(a, hit)
        OBVIOUS
      <4>2. k \in DOMAIN Put(admissions, k, v) /\ Put(admissions, k, v)[k] = v
        BY PutAt, PutDomain
      <4> QED BY <4>1, <4>2
    <3> HIDE DEF f
    <3> QED BY <2>1, <3>1 DEF f
  <2>3. a \in Seq(Admission)
    BY DEF k
  <2> HIDE DEF a
  <2>4. PICK n \in Nat : n = Len(a)
    BY <2>3, LenProperties
  <2>5. Append(a, hit) \in Seq(Admission) /\ Len(Append(a, hit)) = n + 1 /\ Append(a, hit)[n + 1] = hit
    BY <1>2, <2>3, <2>4, AppendProperties
  <2>6. DOMAIN Append(a, hit) = 1..n + 1 /\ n + 1 \in 1..n + 1
    BY <2>5, LenProperties
  <2>7. n + 1 \in DOMAIN admissions'[k] /\ admissions'[k][n + 1].by = q
    BY <1>2, <2>2, <2>5, <2>6
  <2> QED BY <1>3, <2>2, <2>7, Zenon DEF PassedBy
<1>7. DOMAIN request' = LimitedRequests
  BY <1>1
<1>8. ASSUME NEW p \in LimitedRequests, p # q PROVE Underway(p, ChecksOf(p), request'[p], admissions')
  <2>1. request'[p] = request[p]
    BY <1>1, <1>8
  <2>2. Underway(p, ChecksOf(p), request[p], admissions)
    OBVIOUS
  <2> QED BY <1>5, <2>1, <2>2 DEF Underway
<1>9. Underway(q, ChecksOf(q), request'[q], admissions')
  <2>1. Underway(q, ChecksOf(q), rq, admissions)
    OBVIOUS
  <2>2. rq.checks \in Seq(T) /\ rq.checks # <<>> /\ \A d \in T : d \in ToSet(rq.checks) \/ PassedBy(q, d, admissions)
    BY <2>1 DEF Underway
  <2>3. request'[q] = AfterCheck(rq, ans)
    BY <1>1
  <2> DEFINE nq == AfterCheck(rq, ans)
  <2>4. /\ nq.stage = IF ~ans.allowed THEN "denied" ELSE IF Len(rq.checks) = 1 THEN "admitted" ELSE "checking"
        /\ nq.checks = Tail(rq.checks) /\ nq.replica = rq.replica
        /\ DOMAIN nq = {"stage", "replica", "checks", "result"}
    BY <2>1 DEF Underway, AfterCheck
  <2> HIDE DEF nq
  <2>5. PICK n \in Nat : n = Len(rq.checks) /\ n > 0 /\ c = rq.checks[1]
    <3>1. Len(rq.checks) \in Nat
      BY <2>2, LenProperties
    <3>2. Head(rq.checks) = rq.checks[1] /\ Len(rq.checks) > 0
      BY <2>2, HeadTailProperties, EmptySeq
    <3> QED BY <3>1, <3>2
  <2>6. /\ Tail(rq.checks) \in Seq(T) /\ Len(Tail(rq.checks)) = n - 1
        /\ \A i \in 1..n - 1 : Tail(rq.checks)[i] = rq.checks[i + 1]
    BY <2>2, <2>5, HeadTailProperties, EmptySeq
  <2>7. \A d \in ToSet(rq.checks) : d = c \/ d \in ToSet(Tail(rq.checks))
    <3> SUFFICES ASSUME NEW d \in ToSet(rq.checks), d # c PROVE d \in ToSet(Tail(rq.checks))
      OBVIOUS
    <3>1. DOMAIN rq.checks = 1..n /\ DOMAIN Tail(rq.checks) = 1..n - 1
      BY <2>2, <2>5, <2>6, LenProperties
    <3>2. PICK i \in 1..n : d = rq.checks[i]
      BY <3>1 DEF ToSet
    <3>3. i - 1 \in 1..n - 1 /\ i - 1 + 1 = i
      BY <2>5, <3>2
    <3>4. d = Tail(rq.checks)[i - 1]
      BY <2>6, <3>2, <3>3
    <3> QED BY <3>1, <3>3, <3>4 DEF ToSet
  <2>8. ASSUME ans.allowed, NEW d \in T PROVE d \in ToSet(Tail(rq.checks)) \/ PassedBy(q, d, admissions')
    <3>1. CASE d \in ToSet(rq.checks)
      <4>1. d = c \/ d \in ToSet(Tail(rq.checks))
        BY <2>7, <3>1
      <4> QED BY <1>6, <2>8, <4>1
    <3>2. CASE PassedBy(q, d, admissions)
      BY <1>5, <3>2
    <3> QED BY <2>2, <3>1, <3>2
  <2>9. nq.stage = "checking" =>
          /\ nq.replica \in Replicas /\ nq.checks \in Seq(T) /\ nq.checks # <<>>
          /\ \A d \in T : d \in ToSet(nq.checks) \/ PassedBy(q, d, admissions')
    <3> SUFFICES ASSUME nq.stage = "checking" PROVE /\ nq.replica \in Replicas /\ nq.checks \in Seq(T) /\ nq.checks # <<>>
                                                   /\ \A d \in T : d \in ToSet(nq.checks) \/ PassedBy(q, d, admissions')
      OBVIOUS
    <3>1. ans.allowed /\ n # 1
      BY <2>4, <2>5
    <3>2. Tail(rq.checks) # <<>>
      <4>1. Len(<<>>) = 0 /\ n - 1 # 0
        BY <2>5, <3>1
      <4> QED BY <2>6, <4>1
    <3>3. nq.replica \in Replicas
      BY <2>1, <2>4 DEF Underway
    <3> QED BY <2>4, <2>6, <2>8, <3>1, <3>2, <3>3
  <2>10. nq.stage = "admitted" => \A d \in T : PassedBy(q, d, admissions')
    <3> SUFFICES ASSUME nq.stage = "admitted", NEW d \in T PROVE PassedBy(q, d, admissions')
      OBVIOUS
    <3>1. ans.allowed /\ n = 1
      BY <2>4, <2>5
    <3>2. ToSet(Tail(rq.checks)) = {}
      <4>1. DOMAIN Tail(rq.checks) = {}
        <5>1. PICK u \in Seq(T) : u = Tail(rq.checks) /\ Len(u) = 0
          <6>1. Tail(rq.checks) \in Seq(T)
            BY <2>6
          <6>2. Len(Tail(rq.checks)) = 0
            BY <2>6, <3>1
          <6> QED BY <6>1, <6>2
        <5>2. DOMAIN u = 1..Len(u)
          BY LenProperties
        <5>3. DOMAIN u = {}
          BY <5>1, <5>2
        <5> QED BY <5>1, <5>3
      <4> QED BY <4>1 DEF ToSet
    <3> QED BY <2>8, <3>1, <3>2
  <2>11. nq.stage \in {"new", "checking", "denied", "admitted"}
    BY <2>4
  <2> QED BY <2>3, <2>4, <2>9, <2>10, <2>11 DEF Underway, nq
<1> QED BY <1>7, <1>8, <1>9

\* What the books of an entry say of its last request.
LEMMA LastOf ==
    ASSUME NEW p, NEW a, NEW e, NEW r, NEW t, Books(p, a, e, r, t), e # NoEntry
    PROVE  e.last \in 0..t
BY DEF Books, SlidingBooks, FixedBooks, TokenBooks

\* An entry whose key nobody asked for yet has open books, and the others have kept ones.
LEMMA BooksOfKey ==
    ASSUME PlanInv, clock \in Nat, BooksKept(store, admissions, clock), NEW k, Declared(k[2], k[3]) \in Rates
    PROVE  Books(plan, Lookup(admissions, k, <<>>), Lookup(store, k, NoEntry), Declared(k[2], k[3]), clock)
<1>1. CASE k \in DOMAIN store \cup DOMAIN admissions
  BY <1>1 DEF BooksKept, EntryKept
<1>2. CASE k \notin DOMAIN store \cup DOMAIN admissions
  <2>1. Lookup(admissions, k, <<>>) = <<>> /\ Lookup(store, k, NoEntry) = NoEntry
    BY <1>2 DEF Lookup
  <2>2. Books(plan, <<>>, NoEntry, Declared(k[2], k[3]), clock)
    BY BooksOpen
  <2> QED BY <2>1, <2>2
<1> QED BY <1>1, <1>2

\* Entries that nobody asked for long enough can be forgotten together.
LEMMA ForgetTogether ==
    ASSUME PlanInv, clock \in Nat, NEW st, NEW ad, BooksKept(st, ad, clock), NEW S, S \subseteq DOMAIN st,
           \A k \in DOMAIN st : k \notin S => clock - st[k].last >= staleAfter(Declared(k[2], k[3]))
    PROVE  BooksKept(Restrict(st, S), ad, clock)
<1>1. plan.burst \in Int
  BY DeclaredLiterals DEF PlanInv
<1> DEFINE left == Restrict(st, S)
<1>2. DOMAIN left = S /\ \A k \in S : left[k] = st[k]
  BY DEF Restrict
<1>3. \A x : Lookup(left, x, NoEntry) = IF x \in S THEN Lookup(st, x, NoEntry) ELSE NoEntry
  BY CutLookup
<1> HIDE DEF left
<1>4. ASSUME NEW k \in DOMAIN left \cup DOMAIN ad PROVE EntryKept(k, left, ad, clock)
  <2>1. EntryKept(k, st, ad, clock)
    BY <1>2, <1>4 DEF BooksKept
  <2>2. Books(plan, Lookup(ad, k, <<>>), Lookup(left, k, NoEntry), Declared(k[2], k[3]), clock)
    <3>1. CASE k \in S
      BY <1>3, <2>1, <3>1 DEF EntryKept
    <3>2. CASE k \notin S /\ k \notin DOMAIN st
      <4>1. Lookup(left, k, NoEntry) = NoEntry /\ Lookup(st, k, NoEntry) = NoEntry
        BY <1>3, <3>2 DEF Lookup
      <4> QED BY <2>1, <4>1 DEF EntryKept
    <3>3. CASE k \notin S /\ k \in DOMAIN st
      <4>1. Lookup(left, k, NoEntry) = NoEntry /\ Lookup(st, k, NoEntry) = st[k]
        BY <1>3, <3>3 DEF Lookup
      <4>2. st[k] # NoEntry /\ Declared(k[2], k[3]) \in Rates
        BY <2>1, <3>3 DEF EntryKept
      <4>3. clock - st[k].last >= staleAfter(Declared(k[2], k[3]))
        BY <3>3
      <4>4. Books(plan, Lookup(ad, k, <<>>), st[k], Declared(k[2], k[3]), clock)
        BY <2>1, <4>1 DEF EntryKept
      <4>5. Books(plan, Lookup(ad, k, <<>>), NoEntry, Declared(k[2], k[3]), clock)
        BY <1>1, <4>2, <4>3, <4>4, BooksForget
      <4> QED BY <4>1, <4>5
    <3> QED BY <3>1, <3>2, <3>3
  <2>3. k \in DOMAIN left => left[k] # NoEntry
    BY <1>2, <2>1 DEF EntryKept
  <2> QED BY <2>1, <2>2, <2>3 DEF EntryKept
<1>5. BooksKept(left, ad, clock)
  BY <1>4 DEF BooksKept
<1> QED BY <1>5 DEF left

\* The check a request on its way is at.
LEMMA AtCheck ==
    ASSUME PlanInv, NEW q \in LimitedRequests, Underway(q, ChecksOf(q), request[q], admissions), request[q].stage = "checking"
    PROVE  /\ request[q].replica \in Replicas /\ Head(request[q].checks) \in ToSet(ChecksOf(q))
           /\ IsDeclared(Head(request[q].checks))
<1>1. /\ request[q].replica \in Replicas /\ request[q].checks \in Seq(ToSet(ChecksOf(q)))
      /\ request[q].checks # <<>>
  BY DEF Underway
<1>2. Head(request[q].checks) \in ToSet(ChecksOf(q))
  BY <1>1, HeadTailProperties
<1> QED BY <1>1, <1>2, DeclaredChecks DEF PlanInv

\* The invariant of the next state, said of the plan that stays as it is.
LEMMA RateInvNext ==
    ASSUME PlanInv, setup' = setup, plan' = plan, clock' \in 0..MaxTime, connected' \subseteq Replicas,
           BooksKept(store', admissions', clock'), \A L \in DOMAIN calls' : calls'[L] \in 0..SweepEvery - 1,
           DOMAIN request' = LimitedRequests,
           \A q \in LimitedRequests : Underway(q, ChecksOf(q), request'[q], admissions')
    PROVE  RateInv'
<1>1. PlanInv'
  BY DEF PlanInv
<1>2. \A q \in LimitedRequests : ChecksOf(q)' = ChecksOf(q)
  BY ZenonT(60) DEF ChecksOf
<1>3. \A tier, dim : Declared(tier, dim)' = Declared(tier, dim)
  BY DEF Declared
<1>4. BooksKept(store, admissions, clock)'
  BY <1>3 DEF BooksKept, EntryKept
<1>5. \A q \in LimitedRequests : Underway(q, ChecksOf(q), request[q], admissions)'
  BY <1>2
<1> QED BY <1>1, <1>4, <1>5 DEF RateInv

\* It holds before the first request.
LEMMA RateInitInv == RateInit => RateInv
<1> SUFFICES ASSUME RateInit PROVE RateInv
  OBVIOUS
<1>1. PlanInv
  BY DEF RateInit, PlanInv
<1>2. clock \in 0..MaxTime /\ connected \subseteq Replicas
  BY RateBoundsAssumption DEF RateInit
<1>3. DOMAIN store = {} /\ DOMAIN calls = {} /\ DOMAIN admissions = {}
  BY DEF RateInit
<1>4. BooksKept(store, admissions, clock)
  BY <1>3 DEF BooksKept
<1>5. \A L \in DOMAIN calls : calls[L] \in 0..SweepEvery - 1
  BY <1>3
<1>6. DOMAIN request = LimitedRequests /\ \A q \in LimitedRequests : request[q] = Waiting
  BY DEF RateInit
<1>7. DOMAIN Waiting = {"stage", "replica", "checks", "result"} /\ Waiting.stage = "new"
  BY DEF Waiting
<1>8. \A q \in LimitedRequests : Underway(q, ChecksOf(q), request[q], admissions)
  BY <1>6, <1>7 DEF Underway
<1> QED BY <1>1, <1>2, <1>4, <1>5, <1>6, <1>8 DEF RateInv

\* A request starts with the checks of its plan, or without one is through.
LEMMA StartChecksInv ==
    ASSUME RateInv, NEW q \in LimitedRequests, StartChecks(q)
    PROVE  RateInv'
<1>1. PICK r \in Replicas : request' = [request EXCEPT ![q] =
              [stage |-> IF ChecksOf(q) = <<>> THEN "admitted" ELSE "checking",
               replica |-> r, checks |-> ChecksOf(q), result |-> NoResult]]
  BY DEF StartChecks
<1>2. UNCHANGED <<setup, plan, clock, connected, store, calls, admissions>>
  BY DEF StartChecks
<1> DEFINE all == ChecksOf(q)
           rq == [stage |-> IF all = <<>> THEN "admitted" ELSE "checking", replica |-> r, checks |-> all, result |-> NoResult]
<1>3. request' = [request EXCEPT ![q] = rq] /\ DOMAIN request = LimitedRequests
  BY <1>1 DEF RateInv
<1>4. /\ DOMAIN rq = {"stage", "replica", "checks", "result"} /\ rq.replica = r /\ rq.checks = all
      /\ rq.stage = IF all = <<>> THEN "admitted" ELSE "checking"
  OBVIOUS
<1>5. all \in Seq(ToSet(all))
  BY DeclaredChecks DEF RateInv, PlanInv
<1> HIDE DEF all, rq
<1>6. Underway(q, all, rq, admissions)
  <2>1. all = <<>> => ToSet(all) = {}
    BY DEF ToSet
  <2> QED BY <1>4, <1>5, <2>1 DEF Underway
<1>7. \A p \in LimitedRequests : Underway(p, ChecksOf(p), request'[p], admissions')
  <2> SUFFICES ASSUME NEW p \in LimitedRequests PROVE Underway(p, ChecksOf(p), request'[p], admissions)
    BY <1>2
  <2>1. CASE p = q
    <3>1. request'[q] = rq
      BY <1>3
    <3> QED BY <1>6, <2>1, <3>1 DEF all
  <2>2. CASE p # q
    <3>1. request'[p] = request[p]
      BY <1>3, <2>2
    <3> QED BY <3>1 DEF RateInv
  <2> QED BY <2>1, <2>2
<1>8. /\ PlanInv /\ clock' \in 0..MaxTime /\ connected' \subseteq Replicas
      /\ \A L \in DOMAIN calls' : calls'[L] \in 0..SweepEvery - 1
  BY <1>2 DEF RateInv
<1>9. BooksKept(store', admissions', clock')
  <2>1. BooksKept(store, admissions, clock)
    BY DEF RateInv
  <2> QED BY <1>2, <2>1
<1>10. DOMAIN request' = LimitedRequests
  BY <1>3
<1> QED BY <1>2, <1>7, <1>8, <1>9, <1>10, RateInvNext

\* One answer, in a replica or in Redis, from an entry whose books are kept.
LEMMA ChargeInv ==
    ASSUME RateInv, NEW q \in LimitedRequests, request[q].stage = "checking", NEW place \in Replicas \cup {"redis"},
           NEW c, c = Head(request[q].checks), NEW e,
           Books(plan, Lookup(admissions, <<place, c.tier, c.dim, ClientOf[q][c.dim]>>, <<>>), e, c.rate, clock),
           ChargeBucket(q, place, c, Allow(plan, e, c.rate, clock))
    PROVE  /\ DOMAIN request' = LimitedRequests
           /\ \A p \in LimitedRequests : Underway(p, ChecksOf(p), request'[p], admissions')
           /\ BooksKept(Put(store, <<place, c.tier, c.dim, ClientOf[q][c.dim]>>, Allow(plan, e, c.rate, clock).entry),
                        admissions', clock)
<1>1. PlanInv /\ clock \in Nat /\ BooksKept(store, admissions, clock) /\ DOMAIN request = LimitedRequests
  BY RateBoundsAssumption DEF RateInv
<1>2. \A p \in LimitedRequests : Underway(p, ChecksOf(p), request[p], admissions)
  BY DEF RateInv
<1>3. IsDeclared(c)
  BY <1>1, <1>2, AtCheck
<1>4. Lookup(admissions, <<place, c.tier, c.dim, ClientOf[q][c.dim]>>, <<>>) \in Seq(Admission)
  BY DEF Books, Booked
<1>5. /\ DOMAIN request' = LimitedRequests
      /\ \A p \in LimitedRequests : Underway(p, ChecksOf(p), request'[p], admissions')
  BY <1>1, <1>2, <1>4, RequestsAfterCharge
<1> QED BY <1>1, <1>3, <1>5, BooksAfterCharge

\* A dimension is asked in a replica, and every so often its idle entries go.
LEMMA CheckLocallyInv ==
    ASSUME RateInv, NEW q \in LimitedRequests, CheckLocally(q)
    PROVE  RateInv'
<1> DEFINE rq == request[q]
           c == Head(rq.checks)
           L == <<rq.replica, c.tier, c.dim>>
           k == <<rq.replica, c.tier, c.dim, ClientOf[q][c.dim]>>
           e == Lookup(store, k, NoEntry)
           given == Allow(plan, e, c.rate, clock)
           n == Lookup(calls, L, 0) + 1
           kept == Put(store, k, given.entry)
<1>1. /\ rq.stage = "checking" /\ ChargeBucket(q, rq.replica, c, given)
      /\ calls' = Put(calls, L, CallsSinceSweep(n))
      /\ store' = IF CallsSinceSweep(n) = 0 THEN Restrict(kept, DOMAIN kept \ Swept(L, c.rate, kept)) ELSE kept
      /\ UNCHANGED <<setup, plan, clock, connected>>
  BY Zenon DEF CheckLocally
<1>2. PlanInv /\ clock \in Nat /\ BooksKept(store, admissions, clock)
  BY RateBoundsAssumption DEF RateInv
<1>3. rq.replica \in Replicas /\ IsDeclared(c)
  <2>1. Underway(q, ChecksOf(q), rq, admissions)
    BY DEF RateInv
  <2> QED BY <1>1, <1>2, <2>1, AtCheck
<1>4. Books(plan, Lookup(admissions, k, <<>>), e, c.rate, clock)
  <2>1. k[2] = c.tier /\ k[3] = c.dim
    OBVIOUS
  <2> HIDE DEF k, c
  <2>2. Declared(k[2], k[3]) = c.rate /\ c.rate \in Rates
    BY <1>3, <2>1 DEF IsDeclared
  <2> QED BY <1>2, <2>2, BooksOfKey
<1>5. /\ DOMAIN request' = LimitedRequests
      /\ \A p \in LimitedRequests : Underway(p, ChecksOf(p), request'[p], admissions')
      /\ BooksKept(kept, admissions', clock)
  <2>1. PICK place \in Replicas \cup {"redis"} : place = rq.replica
    BY <1>3
  <2> HIDE DEF e, c
  <2> QED BY <1>1, <1>4, <2>1, ChargeInv DEF c
<1>6. BooksKept(store', admissions', clock)
  <2> DEFINE S == DOMAIN kept \ Swept(L, c.rate, kept)
  <2>1. ASSUME NEW x \in DOMAIN kept, x \notin S PROVE clock - kept[x].last >= staleAfter(Declared(x[2], x[3]))
    <3>1. <<x[1], x[2], x[3]>> = L /\ clock - kept[x].last > staleAfter(c.rate)
      BY <2>1, Zenon DEF Swept
    <3>2. x[2] = c.tier /\ x[3] = c.dim
      BY <3>1
    <3>3. Declared(x[2], x[3]) = c.rate /\ c.rate \in Rates
      BY <1>3, <3>2 DEF IsDeclared
    <3>4. EntryKept(x, kept, admissions', clock)
      <4> HIDE DEF kept
      <4> QED BY <1>5, <2>1 DEF BooksKept
    <3> HIDE DEF kept
    <3>5. kept[x].last \in 0..clock
      <4>1. Lookup(kept, x, NoEntry) = kept[x] /\ kept[x] # NoEntry
        BY <2>1, <3>4 DEF Lookup, EntryKept
      <4> QED BY <3>4, <4>1, LastOf DEF EntryKept
    <3>6. staleAfter(c.rate) \in Nat
      <4>1. c.rate.period \in Nat /\ StalePeriods \in Nat
        BY <3>3, RateBoundsAssumption DEF Rates
      <4> QED BY <4>1 DEF staleAfter
    <3> QED BY <1>2, <3>1, <3>3, <3>5, <3>6
  <2>2. S \subseteq DOMAIN kept
    OBVIOUS
  <2>3. store' = IF CallsSinceSweep(n) = 0 THEN Restrict(kept, S) ELSE kept
    BY <1>1
  <2> HIDE DEF S, kept, n
  <2>4. BooksKept(Restrict(kept, S), admissions', clock)
    BY <1>2, <1>5, <2>1, <2>2, ForgetTogether
  <2> QED BY <1>5, <2>3, <2>4
<1>7. \A M \in DOMAIN calls' : calls'[M] \in 0..SweepEvery - 1
  <2>1. \A M \in DOMAIN calls : calls[M] \in 0..SweepEvery - 1
    BY DEF RateInv
  <2> HIDE DEF L
  <2>2. n \in Nat
    BY <2>1 DEF Lookup
  <2> HIDE DEF n
  <2>3. CallsSinceSweep(n) \in 0..SweepEvery - 1
    BY <2>2, RateBoundsAssumption DEF CallsSinceSweep
  <2> DEFINE v == CallsSinceSweep(n)
  <2> HIDE DEF v
  <2>4. calls' = Put(calls, L, v)
    BY <1>1 DEF v
  <2>5. ASSUME NEW M \in DOMAIN calls' PROVE calls'[M] \in 0..SweepEvery - 1
    <3>1. M \in DOMAIN calls \/ M = L
      BY <2>4, PutDomain
    <3>2. CASE M = L
      BY <2>3, <2>4, <3>2, PutAt DEF v
    <3>3. CASE M # L
      BY <2>1, <2>4, <3>1, <3>3, PutOther
    <3> QED BY <3>2, <3>3
  <2> QED BY <2>5
<1>8. clock' \in 0..MaxTime /\ connected' \subseteq Replicas /\ setup' = setup /\ plan' = plan /\ clock' = clock
  BY <1>1 DEF RateInv
<1> HIDE DEF kept
<1>9. BooksKept(store', admissions', clock')
  BY <1>6, <1>8
<1> QED BY <1>2, <1>5, <1>7, <1>8, <1>9, RateInvNext

\* A dimension is asked in Redis, where an idle entry has expired.
LEMMA CheckInRedisInv ==
    ASSUME RateInv, NEW q \in LimitedRequests, CheckInRedis(q)
    PROVE  RateInv'
<1> DEFINE rq == request[q]
           c == Head(rq.checks)
           k == <<"redis", c.tier, c.dim, ClientOf[q][c.dim]>>
           stored == Lookup(store, k, NoEntry)
           live == IF stored # NoEntry /\ clock - stored.last >= staleAfter(c.rate) THEN NoEntry ELSE stored
           given == Allow(plan, live, c.rate, clock)
<1>1. /\ rq.stage = "checking" /\ ChargeBucket(q, "redis", c, given)
      /\ store' = Put(store, k, given.entry)
      /\ UNCHANGED <<setup, plan, clock, connected, calls>>
  BY Zenon DEF CheckInRedis
<1>2. PlanInv /\ clock \in Nat /\ BooksKept(store, admissions, clock)
  BY RateBoundsAssumption DEF RateInv
<1>3. IsDeclared(c)
  <2>1. Underway(q, ChecksOf(q), rq, admissions)
    BY DEF RateInv
  <2> QED BY <1>1, <1>2, <2>1, AtCheck
<1>4. Books(plan, Lookup(admissions, k, <<>>), live, c.rate, clock)
  <2>1. k[2] = c.tier /\ k[3] = c.dim
    OBVIOUS
  <2> HIDE DEF k, c
  <2>2. Declared(k[2], k[3]) = c.rate /\ c.rate \in Rates
    BY <1>3, <2>1 DEF IsDeclared
  <2>3. Books(plan, Lookup(admissions, k, <<>>), stored, c.rate, clock)
    BY <1>2, <2>2, BooksOfKey
  <2> HIDE DEF stored
  <2>4. CASE stored # NoEntry /\ clock - stored.last >= staleAfter(c.rate)
    <3>1. plan.burst \in Int
      BY <1>2, DeclaredLiterals DEF PlanInv
    <3> QED BY <1>2, <2>2, <2>3, <2>4, <3>1, BooksForget
  <2>5. CASE ~(stored # NoEntry /\ clock - stored.last >= staleAfter(c.rate))
    BY <2>3, <2>5
  <2> QED BY <2>4, <2>5
<1>5. /\ DOMAIN request' = LimitedRequests
      /\ \A p \in LimitedRequests : Underway(p, ChecksOf(p), request'[p], admissions')
      /\ BooksKept(Put(store, k, given.entry), admissions', clock)
  <2>1. PICK place \in Replicas \cup {"redis"} : place = "redis"
    OBVIOUS
  <2> HIDE DEF live, c
  <2> QED BY <1>1, <1>4, <2>1, ChargeInv DEF c
<1>6. /\ clock' \in 0..MaxTime /\ connected' \subseteq Replicas /\ setup' = setup /\ plan' = plan /\ clock' = clock
      /\ \A M \in DOMAIN calls' : calls'[M] \in 0..SweepEvery - 1
  BY <1>1 DEF RateInv
<1>7. BooksKept(store', admissions', clock')
  <2> HIDE DEF given, k
  <2> QED BY <1>1, <1>5, <1>6
<1> HIDE DEF given, k
<1> QED BY <1>2, <1>5, <1>6, <1>7, RateInvNext

\* A tick passes.
LEMMA RateTickInv ==
    ASSUME RateInv, RateTick
    PROVE  RateInv'
<1>1. clock < MaxTime /\ clock' = clock + 1 /\ UNCHANGED <<setup, plan, connected, store, calls, request, admissions>>
  BY DEF RateTick
<1>2. PlanInv /\ clock \in 0..MaxTime /\ clock \in Nat /\ BooksKept(store, admissions, clock)
  BY RateBoundsAssumption DEF RateInv
<1>3. plan.burst \in Int
  BY <1>2, DeclaredLiterals DEF PlanInv
<1>4. BooksKept(store, admissions, clock + 1)
  BY <1>2, <1>3, BooksLapse DEF BooksKept, EntryKept
<1>5. BooksKept(store', admissions', clock')
  BY <1>1, <1>4
<1>6. /\ clock' \in 0..MaxTime /\ connected' \subseteq Replicas /\ setup' = setup /\ plan' = plan
      /\ \A M \in DOMAIN calls' : calls'[M] \in 0..SweepEvery - 1
      /\ DOMAIN request' = LimitedRequests
  BY <1>1, <1>2, RateBoundsAssumption DEF RateInv
<1>7. \A p \in LimitedRequests : Underway(p, ChecksOf(p), request'[p], admissions')
  BY <1>1 DEF RateInv
<1> QED BY <1>2, <1>5, <1>6, <1>7, RateInvNext

\* The invariant is inductive.
LEMMA RateInvInductive == RateSpec => []RateInv
<1>1. RateInit => RateInv
  BY RateInitInv
<1>2. RateInv /\ [RateNext]_rateVars => RateInv'
  <2> SUFFICES ASSUME RateInv, [RateNext]_rateVars PROVE RateInv'
    OBVIOUS
  <2>1. CASE \E q \in LimitedRequests : StartChecks(q) \/ CheckLocally(q) \/ CheckInRedis(q)
    BY <2>1, StartChecksInv, CheckLocallyInv, CheckInRedisInv
  <2>2. CASE RateTick
    BY <2>2, RateTickInv
  <2>3. CASE UNCHANGED rateVars
    <3>1. /\ setup' = setup /\ plan' = plan /\ clock' = clock /\ connected' = connected
          /\ store' = store /\ calls' = calls /\ request' = request /\ admissions' = admissions
      BY <2>3 DEF rateVars
    <3>2. BooksKept(store', admissions', clock')
      BY <3>1 DEF RateInv
    <3> QED BY <3>1, <3>2, RateInvNext DEF RateInv
  <2> QED BY <2>1, <2>2, <2>3 DEF RateNext
<1> QED BY <1>1, <1>2, PTL DEF RateSpec

\* What the invariant says of one history of admissions.
LEMMA RateInvImplies == RateInv => LimitsHold /\ RetryAfterIsExact
<1> SUFFICES ASSUME RateInv PROVE LimitsHold /\ RetryAfterIsExact
  OBVIOUS
<1>1. PlanInv /\ clock \in 0..MaxTime /\ clock \in Nat /\ BooksKept(store, admissions, clock)
  BY RateBoundsAssumption DEF RateInv
<1>2. plan.burst \in Int
  BY <1>1, DeclaredLiterals DEF PlanInv
<1>3. ASSUME NEW k \in DOMAIN store
      PROVE  /\ k[1] \in Replicas \cup {"redis"} /\ Declared(k[2], k[3]) \in Rates /\ store[k] # NoEntry
             /\ Books(plan, Lookup(admissions, k, <<>>), store[k], Declared(k[2], k[3]), clock)
  <2>1. Lookup(store, k, NoEntry) = store[k]
    BY DEF Lookup
  <2> QED BY <1>1, <2>1 DEF BooksKept, EntryKept
<1>4. RateTypeOK
  <2>1. \A k \in DOMAIN store : k[1] \in Replicas \union {"redis"} /\ store[k].last \in 0..clock
    BY <1>3, LastOf
  <2>2. \A q \in LimitedRequests : request[q].stage \in {"new", "checking", "denied", "admitted"}
    BY DEF RateInv, Underway
  <2> QED BY <1>1, <2>1, <2>2 DEF RateInv, RateTypeOK
<1>5. AdmissionsWithinRate
  <2> SUFFICES ASSUME NEW k \in DOMAIN admissions
               PROVE LET a == admissions[k]
                         rate == Declared(k[2], k[3])
                         burst == BurstOf(plan.burst, rate)
                     IN  CASE plan.algorithm = "sliding_window" ->
                                \A i, j \in DOMAIN a : j = i + rate.count => a[j].t - a[i].t >= rate.period
                           [] plan.algorithm = "fixed_window" ->
                                \A i, j \in DOMAIN a : j = i + rate.count => a[j].t \div rate.period > a[i].t \div rate.period
                           [] OTHER -> burst <= StalePeriods * rate.count =>
                                \A i, j \in DOMAIN a : i <= j =>
                                    (j - i + 1) * rate.period <= burst * rate.period + (a[j].t - a[i].t) * rate.count
    BY Zenon DEF AdmissionsWithinRate
  <2>1. PICK a, e, r : /\ a = admissions[k] /\ r = Declared(k[2], k[3]) /\ Books(plan, a, e, r, clock)
    <3>1. Lookup(admissions, k, <<>>) = admissions[k]
      BY DEF Lookup
    <3>2. Books(plan, Lookup(admissions, k, <<>>), Lookup(store, k, NoEntry), Declared(k[2], k[3]), clock)
      BY <1>1 DEF BooksKept, EntryKept
    <3> QED BY <3>1, <3>2, Zenon
  <2>2. DOMAIN a = 1..Len(a)
    BY <2>1, LenProperties DEF Books, Booked
  <2>3. CASE plan.algorithm = "sliding_window"
    <3>1. Spaced(a, r)
      BY <2>1, <2>3 DEF Books, SlidingBooks
    <3>2. \A i, j \in DOMAIN a : j = i + r.count => a[j].t - a[i].t >= r.period
      BY <2>2, <3>1, Zenon DEF Spaced
    <3> QED BY <2>1, <2>3, <3>2
  <2>4. CASE plan.algorithm = "fixed_window"
    <3>1. Windowed(a, r)
      BY <2>1, <2>4 DEF Books, FixedBooks
    <3>2. \A i, j \in DOMAIN a : j = i + r.count => a[j].t \div r.period > a[i].t \div r.period
      BY <2>2, <3>1, Zenon DEF Windowed
    <3> QED BY <2>1, <2>4, <3>2
  <2>5. CASE plan.algorithm \notin {"sliding_window", "fixed_window"}
    <3>0. PICK b : b = BurstOf(plan.burst, r)
      OBVIOUS
    <3>1. b <= StalePeriods * r.count => Paid(a, r, b)
      BY <2>1, <2>5, <3>0 DEF Books, TokenBooks
    <3>2. b <= StalePeriods * r.count => \A i, j \in DOMAIN a : i <= j =>
              (j - i + 1) * r.period <= b * r.period + (a[j].t - a[i].t) * r.count
      BY <2>2, <3>1, Zenon DEF Paid
    <3> QED BY <2>1, <2>5, <3>0, <3>2
  <2> QED BY <2>3, <2>4, <2>5
<1>6. AdmittedByEveryDimension
  BY DEF RateInv, Underway, PassedBy, AdmittedByEveryDimension
<1>7. RetryAfterIsExact
  <2>1. ASSUME NEW k \in DOMAIN store, NEW r, r = Declared(k[2], k[3]), ~Allow(plan, store[k], r, clock).allowed
        PROVE  Exact(plan, store[k], r, clock, Allow(plan, store[k], r, clock).retryAfter)
    <3>1. /\ r \in Rates /\ store[k] # NoEntry
          /\ Books(plan, Lookup(admissions, k, <<>>), store[k], r, clock)
      BY <1>3, <2>1
    <3>2. CASE plan.algorithm = "sliding_window"
      BY <1>1, <2>1, <3>1, <3>2, SlidingRetry
    <3>3. CASE plan.algorithm = "fixed_window"
      BY <1>1, <2>1, <3>1, <3>3, FixedRetry
    <3>4. CASE plan.algorithm \notin {"sliding_window", "fixed_window"}
      BY <1>1, <1>2, <2>1, <3>1, <3>4, TokenRetry
    <3> QED BY <3>2, <3>3, <3>4
  <2> SUFFICES ASSUME NEW k \in DOMAIN store
               PROVE LET rate == Declared(k[2], k[3])
                         now == Allow(plan, store[k], rate, clock)
                         then(d) == Allow(plan, store[k], rate, clock + d)
                     IN  ~now.allowed => /\ now.retryAfter > 0 /\ then(now.retryAfter).allowed
                                         /\ \A d \in 0..(now.retryAfter - 1) : ~then(d).allowed
    BY Zenon DEF RetryAfterIsExact
  <2>2. PICK r : r = Declared(k[2], k[3])
    OBVIOUS
  <2>3. PICK w : w = Allow(plan, store[k], r, clock).retryAfter
    OBVIOUS
  <2>4. ASSUME ~Allow(plan, store[k], r, clock).allowed
        PROVE  /\ w > 0 /\ Allow(plan, store[k], r, clock + w).allowed
               /\ \A d \in 0..(w - 1) : ~Allow(plan, store[k], r, clock + d).allowed
    <3>1. Exact(plan, store[k], r, clock, w)
      BY <2>1, <2>2, <2>3, <2>4
    <3>2. w \in Nat \ {0} /\ Allow(plan, store[k], r, clock + w).allowed
      BY <3>1 DEF Exact
    <3>3. \A d \in Nat : d < w => ~Allow(plan, store[k], r, clock + d).allowed
      BY <3>1 DEF Exact
    <3>4. \A d \in 0..(w - 1) : d \in Nat /\ d < w
      BY <3>2
    <3> QED BY <3>2, <3>3, <3>4
  <2> QED BY <2>2, <2>3, <2>4, Zenon
<1> QED BY <1>4, <1>5, <1>6, <1>7 DEF LimitsHold

\* The declared limits hold: no entry lets through more than its rate in a period, a
\* window or beyond the burst, whatever is swept, expired or refilled in between, and a
\* request that is let through was let through by every dimension of its plan.
THEOREM HeldLimits == RateSpec => []LimitsHold
BY RateInvInductive, RateInvImplies, PTL

\* A limiter that refuses says exactly how long to wait.
THEOREM ExactRetries == RateSpec => []RetryAfterIsExact
BY RateInvInductive, RateInvImplies, PTL

-----------------------------------------------------------------------------
(* Reads: any fields, values, queries, views and rows.                      *)

\* The steps of the three recursive functions over terms, told apart by a name.
TermStep(which, x, f, env) ==
    CASE which = "value" -> Evaluate(x, f, env)
      [] which = "parts" -> WithParts(x, f)
      [] which = "flat"  -> Flattened(x, f)

\* A step asks only for what the operands of the term were given.
LEMMA StepsAskOperands ==
    ASSUME NEW which \in {"value", "parts", "flat"}, NEW x \in Terms, NEW f, NEW g, NEW env,
           \A o \in Operands(x) : f[o] = g[o]
    PROVE  TermStep(which, x, f, env) = TermStep(which, x, g, env)
<1>1. x[1] \in TermOperators => f[x[2]] = g[x[2]] /\ f[x[3]] = g[x[3]]
  BY DEF Operands
<1>2. CASE which = "value"
  <2>1. Evaluate(x, f, env) = Evaluate(x, g, env)
    <3>1. CASE x[1] \in TermOperators
      <4>1. f[x[2]] = g[x[2]] /\ f[x[3]] = g[x[3]]
        BY <1>1, <3>1
      <4> QED BY <4>1, Zenon DEF Evaluate
    <3>2. CASE x[1] \notin TermOperators
      <4>1. x[1] # "and" /\ x[1] # "or" /\ x[1] # "==" /\ x[1] # "<" /\ x[1] # "/"
        BY <3>2 DEF TermOperators
      <4>2. x[1] = "item" \/ x[1] = "other" \/ x[1] = "param" \/ x[1] = "lit"
        BY <4>1, TermsAssumption DEF IsNumber, TermOperators
      <4> QED BY <4>2 DEF Evaluate
    <3> QED BY <3>1, <3>2
  <2> QED BY <1>2, <2>1 DEF TermStep
<1>3. CASE which = "parts"
  <2>1. \A o \in Operands(x) : f[o] = g[o]
    OBVIOUS
  <2>2. {f[o] : o \in Operands(x)} = {g[o] : o \in Operands(x)}
    BY <2>1
  <2>3. WithParts(x, f) = WithParts(x, g)
    BY <2>2, Zenon DEF WithParts
  <2> QED BY <1>3, <2>3 DEF TermStep
<1>4. CASE which = "flat"
  BY <1>1, <1>4 DEF TermStep, Flattened, TermOperators
<1> QED BY <1>2, <1>3, <1>4

\* Terms of a nesting below n.
Shallow(n) == {x \in Terms : Depth[x] < n}

\* A function that takes the steps exists: by induction on the nesting.
LEMMA TermRecursion ==
    ASSUME NEW which \in {"value", "parts", "flat"}, NEW env
    PROVE  \E f : f = [x \in Terms |-> TermStep(which, x, f, env)]
<1> DEFINE Good == {n \in Nat : \E f : f = [x \in Shallow(n) |-> TermStep(which, x, f, env)]}
<1>1. 0 \in Good
  <2>1. Shallow(0) = {}
    BY TermsAssumption, ReadBoundsAssumption DEF Shallow
  <2> DEFINE f == [x \in {} |-> 0]
  <2>2. f = [x \in {} |-> TermStep(which, x, f, env)]
    OBVIOUS
  <2> HIDE DEF f
  <2> QED BY <2>1, <2>2
<1>2. ASSUME NEW n \in Nat, n \in Good PROVE n + 1 \in Good
  <2>1. PICK f : f = [x \in Shallow(n) |-> TermStep(which, x, f, env)]
    BY <1>2
  <2> DEFINE g == [x \in Shallow(n + 1) |-> TermStep(which, x, f, env)]
  <2>2. \A x \in Shallow(n + 1) : Operands(x) \subseteq Shallow(n)
    BY TermsAssumption, ReadBoundsAssumption DEF Shallow
  <2>3. Shallow(n) \subseteq Shallow(n + 1)
    BY TermsAssumption, ReadBoundsAssumption DEF Shallow
  <2>4. \A x \in Shallow(n) : f[x] = TermStep(which, x, f, env)
    BY <2>1, Zenon
  <2>5. \A x \in Shallow(n) : g[x] = f[x]
    BY <2>3, <2>4
  <2>6. \A x \in Shallow(n + 1) : TermStep(which, x, g, env) = TermStep(which, x, f, env)
    <3> SUFFICES ASSUME NEW x \in Shallow(n + 1)
                 PROVE  TermStep(which, x, g, env) = TermStep(which, x, f, env)
      OBVIOUS
    <3>1. x \in Terms /\ \A o \in Operands(x) : g[o] = f[o]
      BY <2>2, <2>5 DEF Shallow
    <3> HIDE DEF g
    <3> QED BY <3>1, StepsAskOperands
  <2>7. g = [x \in Shallow(n + 1) |-> TermStep(which, x, g, env)]
    BY <2>6
  <2> HIDE DEF g
  <2>8. n + 1 \in Nat
    OBVIOUS
  <2> QED BY <2>7, <2>8
<1> HIDE DEF Good
<1>3. MaxDepth + 1 \in Good
  BY <1>1, <1>2, Induction, ReadBoundsAssumption
<1>4. Shallow(MaxDepth + 1) = Terms
  BY TermsAssumption, ReadBoundsAssumption DEF Shallow
<1> QED BY <1>3, <1>4 DEF Good
\* The value of an expression, from those of its operands.
LEMMA ValueSteps ==
    ASSUME NEW e \in Terms, NEW env
    PROVE  Value(e, env) = Evaluate(e, [x \in Terms |-> Value(x, env)], env)
<1> DEFINE Walk(f) == f = [x \in Terms |-> Evaluate(x, f, env)]
           val == CHOOSE f : Walk(f)
<1>1. \E f : Walk(f)
  <2>1. PICK f : f = [x \in Terms |-> TermStep("value", x, f, env)]
    BY TermRecursion
  <2>2. \A x \in Terms : TermStep("value", x, f, env) = Evaluate(x, f, env)
    BY Zenon DEF TermStep
  <2>3. [x \in Terms |-> TermStep("value", x, f, env)] = [x \in Terms |-> Evaluate(x, f, env)]
    BY <2>2
  <2>4. f = [x \in Terms |-> Evaluate(x, f, env)]
    BY <2>1, <2>3, Zenon
  <2> QED BY <2>4
<1>2. Walk(val)
  BY <1>1, Zenon
<1>3. \A x : Value(x, env) = val[x]
  BY Zenon DEF Value
<1> HIDE DEF val
<1>4. val = [x \in Terms |-> Evaluate(x, val, env)]
  BY <1>2
<1>5. val = [x \in Terms |-> val[x]] /\ val[e] = Evaluate(e, val, env)
  BY <1>4, Zenon
<1>6. [x \in Terms |-> Value(x, env)] = [x \in Terms |-> val[x]]
  BY <1>3, Zenon
<1> QED BY <1>3, <1>5, <1>6, Zenon

\* The same, for each form an expression has.
LEMMA Values ==
    ASSUME NEW e \in Terms, NEW env
    PROVE  /\ e[1] = "item" => Value(e, env) = env.item[e[2]]
           /\ e[1] = "other" => Value(e, env) = env.other[e[2]]
           /\ e[1] = "param" => Value(e, env) = env.param
           /\ e[1] = "lit" => Value(e, env) = e[2]
           /\ e[1] = "and" => Value(e, env) = (Value(e[2], env) /\ Value(e[3], env))
           /\ e[1] = "or" => Value(e, env) = (Value(e[2], env) \/ Value(e[3], env))
           /\ e[1] = "==" => Value(e, env) = (Value(e[2], env) = Value(e[3], env))
           /\ e[1] = "<" => Value(e, env) = (Value(e[2], env) < Value(e[3], env))
           /\ e[1] = "/" => Value(e, env) = Value(e[2], env) \div Value(e[3], env)
<1> DEFINE val == [x \in Terms |-> Value(x, env)]
<1>1. Value(e, env) = Evaluate(e, val, env)
  BY ValueSteps
<1>2. e[1] \in TermOperators => e[2] \in Terms /\ e[3] \in Terms
  BY TermsAssumption DEF Operands
<1>3. e[1] \in TermOperators => val[e[2]] = Value(e[2], env) /\ val[e[3]] = Value(e[3], env)
  BY <1>2, Zenon
<1> HIDE DEF val
<1>4. /\ e[1] = "item" => Evaluate(e, val, env) = env.item[e[2]]
      /\ e[1] = "other" => Evaluate(e, val, env) = env.other[e[2]]
      /\ e[1] = "param" => Evaluate(e, val, env) = env.param
      /\ e[1] = "lit" => Evaluate(e, val, env) = e[2]
  BY DEF Evaluate
<1>5. e[1] = "and" => Evaluate(e, val, env) = (val[e[2]] /\ val[e[3]])
  BY DEF Evaluate
<1>6. e[1] = "or" => Evaluate(e, val, env) = (val[e[2]] \/ val[e[3]])
  BY DEF Evaluate
<1>7. e[1] = "==" => Evaluate(e, val, env) = (val[e[2]] = val[e[3]])
  BY DEF Evaluate
<1>8. e[1] = "<" => Evaluate(e, val, env) = (val[e[2]] < val[e[3]])
  BY DEF Evaluate
<1>9. e[1] = "/" => Evaluate(e, val, env) = val[e[2]] \div val[e[3]]
  BY DEF Evaluate
<1>10. {"and", "or", "==", "<", "/"} \subseteq TermOperators
  BY DEF TermOperators
<1> QED BY <1>1, <1>3, <1>4, <1>5, <1>6, <1>7, <1>8, <1>9, <1>10, Zenon

\* The expressions in an expression, from those in its operands.
LEMMA PartsSteps ==
    ASSUME NEW e \in Terms
    PROVE  Parts(e) = {e} \cup UNION {Parts(o) : o \in Operands(e)}
<1> DEFINE Walk(f) == f = [x \in Terms |-> WithParts(x, f)]
           val == CHOOSE f : Walk(f)
<1>1. \E f : Walk(f)
  <2>1. PICK f : f = [x \in Terms |-> TermStep("parts", x, f, 0)]
    BY TermRecursion
  <2>2. \A x \in Terms : TermStep("parts", x, f, 0) = WithParts(x, f)
    BY Zenon DEF TermStep
  <2>3. [x \in Terms |-> TermStep("parts", x, f, 0)] = [x \in Terms |-> WithParts(x, f)]
    BY <2>2
  <2>4. f = [x \in Terms |-> WithParts(x, f)]
    BY <2>1, <2>3, Zenon
  <2> QED BY <2>4
<1>2. Walk(val)
  BY <1>1, Zenon
<1>3. \A x : Parts(x) = val[x]
  BY Zenon DEF Parts
<1> HIDE DEF val
<1>4. val = [x \in Terms |-> WithParts(x, val)]
  BY <1>2
<1>5. val[e] = WithParts(e, val)
  BY <1>4, Zenon
<1>6. {val[o] : o \in Operands(e)} = {Parts(o) : o \in Operands(e)}
  BY <1>3
<1> QED BY <1>3, <1>5, <1>6, Zenon DEF WithParts

\* The conjuncts of an expression, from those of its operands.
LEMMA ConjunctsSteps ==
    ASSUME NEW e \in Terms
    PROVE  Conjuncts(e) = IF e[1] = "and" THEN Conjuncts(e[2]) \cup Conjuncts(e[3]) ELSE {e}
<1> DEFINE Walk(f) == f = [x \in Terms |-> Flattened(x, f)]
           val == CHOOSE f : Walk(f)
<1>1. \E f : Walk(f)
  <2>1. PICK f : f = [x \in Terms |-> TermStep("flat", x, f, 0)]
    BY TermRecursion
  <2>2. \A x \in Terms : TermStep("flat", x, f, 0) = Flattened(x, f)
    BY Zenon DEF TermStep
  <2>3. [x \in Terms |-> TermStep("flat", x, f, 0)] = [x \in Terms |-> Flattened(x, f)]
    BY <2>2
  <2>4. f = [x \in Terms |-> Flattened(x, f)]
    BY <2>1, <2>3, Zenon
  <2> QED BY <2>4
<1>2. Walk(val)
  BY <1>1, Zenon
<1>3. \A x : Conjuncts(x) = val[x]
  BY Zenon DEF Conjuncts
<1> HIDE DEF val
<1>4. val = [x \in Terms |-> Flattened(x, val)]
  BY <1>2
<1>5. val[e] = Flattened(e, val)
  BY <1>4, Zenon
<1> QED BY <1>3, <1>5, Zenon DEF Flattened
\* Induction over terms: what holds of a term when it holds of its operands.
LEMMA TermInduction ==
    ASSUME NEW S, \A e \in Terms : (\A o \in Operands(e) : o \in S) => e \in S
    PROVE  \A e \in Terms : e \in S
<1> DEFINE Good == {n \in Nat : Shallow(n) \subseteq S}
<1>1. 0 \in Good
  BY TermsAssumption, ReadBoundsAssumption DEF Shallow
<1>2. ASSUME NEW n \in Nat, n \in Good PROVE n + 1 \in Good
  <2>1. \A e \in Shallow(n + 1) : e \in Terms /\ Operands(e) \subseteq Shallow(n)
    BY TermsAssumption, ReadBoundsAssumption DEF Shallow
  <2>2. Shallow(n + 1) \subseteq S
    BY <1>2, <2>1
  <2> QED BY <2>2
<1> HIDE DEF Good
<1>3. MaxDepth + 1 \in Good
  BY <1>1, <1>2, Induction, ReadBoundsAssumption
<1>4. Shallow(MaxDepth + 1) = Terms
  BY TermsAssumption, ReadBoundsAssumption DEF Shallow
<1> QED BY <1>3, <1>4 DEF Good

\* An expression is one of its parts, the parts of an operand are among them, and all are
\* expressions.
LEMMA PartsFacts ==
    ASSUME NEW e \in Terms
    PROVE  /\ e \in Parts(e) /\ Parts(e) \subseteq Terms
           /\ \A o \in Operands(e) : o \in Terms /\ Parts(o) \subseteq Parts(e)
           /\ \A x \in Parts(e) : x = e \/ \E o \in Operands(e) : x \in Parts(o)
<1>1. \A x \in Terms : Parts(x) = {x} \cup UNION {Parts(o) : o \in Operands(x)}
  BY PartsSteps
<1>2. \A x \in Terms : \A o \in Operands(x) : o \in Terms
  BY TermsAssumption
<1> DEFINE S == {x \in Terms : Parts(x) \subseteq Terms}
<1>3. \A x \in Terms : (\A o \in Operands(x) : o \in S) => x \in S
  BY <1>1
<1> HIDE DEF S
<1>4. \A x \in Terms : x \in S
  BY <1>3, TermInduction
<1>5. Parts(e) \subseteq Terms
  BY <1>4 DEF S
<1> QED BY <1>1, <1>2, <1>5

\* A filter holds when its conjuncts do.
LEMMA ConjunctsHold ==
    ASSUME NEW e \in Terms, NEW env
    PROVE  Value(e, env) <=> \A c \in Conjuncts(e) : Value(c, env)
<1> DEFINE IsTrue(x) == Value(x, env)
           S == {x \in Terms : IsTrue(x) <=> \A c \in Conjuncts(x) : IsTrue(c)}
<1>1. ASSUME NEW x \in Terms, \A o \in Operands(x) : o \in S PROVE x \in S
  <2>1. CASE x[1] = "and"
    <3>1. x[2] \in S /\ x[3] \in S
      BY <1>1, <2>1 DEF Operands, TermOperators
    <3>2. IsTrue(x) <=> IsTrue(x[2]) /\ IsTrue(x[3])
      BY <2>1, Values
    <3>3. Conjuncts(x) = Conjuncts(x[2]) \cup Conjuncts(x[3])
      BY <2>1, ConjunctsSteps
    <3> HIDE DEF IsTrue
    <3> QED BY <3>1, <3>2, <3>3
  <2>2. CASE x[1] # "and"
    <3>1. Conjuncts(x) = {x}
      BY <2>2, ConjunctsSteps
    <3> HIDE DEF IsTrue
    <3> QED BY <3>1
  <2> QED BY <2>1, <2>2
<1> HIDE DEF S
<1>2. e \in S
  BY <1>1, TermInduction
<1> QED BY <1>2, Zenon DEF S

\* The conjuncts of a filter are expressions within it, and an operator that may fail is in one of them.
LEMMA ConjunctsCover ==
    ASSUME NEW e \in Terms
    PROVE  /\ Conjuncts(e) \subseteq Terms
           /\ \A c \in Conjuncts(e) : Parts(c) \subseteq Parts(e)
           /\ \A x \in Parts(e) : x[1] = "/" => \E c \in Conjuncts(e) : x \in Parts(c)
<1> DEFINE S == {x \in Terms : /\ Conjuncts(x) \subseteq Terms
                               /\ \A c \in Conjuncts(x) : Parts(c) \subseteq Parts(x)
                               /\ \A y \in Parts(x) : y[1] = "/" => \E c \in Conjuncts(x) : y \in Parts(c)}
<1>1. ASSUME NEW x \in Terms, \A o \in Operands(x) : o \in S PROVE x \in S
  <2>1. CASE x[1] = "and"
    <3>1. x[2] \in S /\ x[3] \in S /\ Operands(x) = {x[2], x[3]}
      BY <1>1, <2>1 DEF Operands, TermOperators
    <3>2. Conjuncts(x) = Conjuncts(x[2]) \cup Conjuncts(x[3])
      BY <2>1, ConjunctsSteps
    <3>3. \A y \in Parts(x) : y = x \/ y \in Parts(x[2]) \/ y \in Parts(x[3])
      BY <3>1, PartsFacts
    <3>4. Parts(x[2]) \subseteq Parts(x) /\ Parts(x[3]) \subseteq Parts(x)
      BY <3>1, PartsFacts
    <3> QED BY <2>1, <3>1, <3>2, <3>3, <3>4
  <2>2. CASE x[1] # "and"
    BY <2>2, ConjunctsSteps
  <2> QED BY <2>1, <2>2
<1> HIDE DEF S
<1>2. e \in S
  BY <1>1, TermInduction
<1> QED BY <1>2 DEF S

\* An expression of the parameter and literals alone has one value for every row.
LEMMA SameForAllRows ==
    ASSUME NEW e \in Terms, ~Mentions(e, "item"), ~Mentions(e, "other"), NEW v, NEW w, v.param = w.param
    PROVE  Value(e, v) = Value(e, w)
<1> DEFINE Same(x) == Value(x, v) = Value(x, w)
           S == {x \in Terms : ~Mentions(x, "item") /\ ~Mentions(x, "other") => Same(x)}
<1>1. ASSUME NEW x \in Terms, \A o \in Operands(x) : o \in S PROVE x \in S
  <2> SUFFICES ASSUME ~Mentions(x, "item"), ~Mentions(x, "other") PROVE Same(x)
    OBVIOUS
  <2>1. x[1] # "item" /\ x[1] # "other"
    BY PartsFacts DEF Mentions
  <2>2. \A o \in Operands(x) : Same(o)
    <3> SUFFICES ASSUME NEW o \in Operands(x) PROVE ~Mentions(o, "item") /\ ~Mentions(o, "other")
      BY <1>1
    <3> QED BY PartsFacts DEF Mentions
  <2>3. CASE x[1] \in TermOperators
    <3>1. Value(x[2], v) = Value(x[2], w) /\ Value(x[3], v) = Value(x[3], w)
      BY <2>2, <2>3 DEF Operands
    <3>2. \A env : /\ x[1] = "and" => Value(x, env) = (Value(x[2], env) /\ Value(x[3], env))
                   /\ x[1] = "or" => Value(x, env) = (Value(x[2], env) \/ Value(x[3], env))
                   /\ x[1] = "==" => Value(x, env) = (Value(x[2], env) = Value(x[3], env))
                   /\ x[1] = "<" => Value(x, env) = (Value(x[2], env) < Value(x[3], env))
                   /\ x[1] = "/" => Value(x, env) = Value(x[2], env) \div Value(x[3], env)
      BY Values, Zenon
    <3>3. x[1] = "and" \/ x[1] = "or" \/ x[1] = "==" \/ x[1] = "<" \/ x[1] = "/"
      BY <2>3 DEF TermOperators
    <3> QED BY <3>1, <3>2, <3>3, Zenon
  <2>4. CASE x[1] \notin TermOperators
    <3>1. x[1] = "param" \/ x[1] = "lit"
      BY <2>1, <2>4, TermsAssumption DEF IsNumber, TermOperators
    <3>2. Value(x, v) = Value(x, w)
      BY <3>1, Values
    <3> QED BY <3>2
  <2> QED BY <2>3, <2>4
<1> HIDE DEF S
<1>2. e \in S
  BY <1>1, TermInduction
<1> QED BY <1>2 DEF S

\* What a row is to an expression: naturals, in its fields and in the parameter.
IsRowEnv(env) == env.item \in [ReadFields -> Nat] /\ env.param \in Nat

\* An expression fails exactly when one of its parts divides by zero.
LEMMA FailingPart ==
    ASSUME NEW e \in Terms, NEW env
    PROVE  Fails(e, env) <=> \E x \in Parts(e) : x[1] = "/" /\ Value(x[3], env) = 0
BY DEF Fails, PartsTable

\* A number that does not fail is a natural.
LEMMA NumbersAreNaturals ==
    ASSUME NEW e \in Terms, IsNumber(e), ~Mentions(e, "other"), NEW env, IsRowEnv(env), ~Fails(e, env)
    PROVE  Value(e, env) \in Nat
<1> DEFINE S == {x \in Terms : IsNumber(x) /\ ~Mentions(x, "other") /\ ~Fails(x, env) => Value(x, env) \in Nat}
<1>1. ASSUME NEW x \in Terms, \A o \in Operands(x) : o \in S PROVE x \in S
  <2> SUFFICES ASSUME IsNumber(x), ~Mentions(x, "other"), ~Fails(x, env) PROVE Value(x, env) \in Nat
    OBVIOUS
  <2>1. x[1] # "other"
    BY PartsFacts DEF Mentions
  <2>2. CASE x[1] = "/"
    <3>1. x[2] \in Operands(x) /\ x[3] \in Operands(x)
      BY <2>2 DEF Operands, TermOperators
    <3>2. ASSUME NEW o \in Operands(x) PROVE Value(o, env) \in Nat
      <4>1. IsNumber(o)
        BY <2>2, TermsAssumption
      <4>2. ~Mentions(o, "other") /\ ~Fails(o, env)
        BY PartsFacts, FailingPart DEF Mentions
      <4> QED BY <1>1, <4>1, <4>2
    <3>3. Value(x[3], env) # 0
      BY <2>2, PartsFacts, FailingPart
    <3>4. Value(x, env) = Value(x[2], env) \div Value(x[3], env)
      BY <2>2, Values
    <3>5. Value(x[2], env) \in Nat /\ Value(x[3], env) \in Nat
      BY <3>1, <3>2
    <3>6. \A a, b \in Nat : b # 0 => a \div b \in Nat
      OBVIOUS
    <3> QED BY <3>3, <3>4, <3>5, <3>6
  <2>3. CASE x[1] = "item"
    <3>1. Value(x, env) = env.item[x[2]] /\ x[2] \in ReadFields
      BY <2>3, Values, TermsAssumption
    <3> QED BY <3>1 DEF IsRowEnv
  <2>4. CASE x[1] = "param"
    BY <2>4, Values DEF IsRowEnv
  <2>5. CASE x[1] = "lit"
    BY <2>5, Values, TermsAssumption
  <2> QED BY <2>1, <2>2, <2>3, <2>4, <2>5 DEF IsNumber
<1> HIDE DEF S
<1>2. e \in S
  BY <1>1, TermInduction
<1> QED BY <1>2 DEF S

\* A set of numbers up to n has a largest, and Max is it.
LEMMA Largest ==
    ASSUME NEW n \in Nat, NEW S \in SUBSET (0..n), S # {}
    PROVE  Max(S) \in S /\ \A y \in S : Max(S) >= y
<1> DEFINE Good == {m \in Nat : \A T \in SUBSET (0..m) : T # {} => \E x \in T : \A y \in T : x >= y}
<1>1. 0 \in Good
  <2> SUFFICES ASSUME NEW T \in SUBSET (0..0), T # {} PROVE \E x \in T : \A y \in T : x >= y
    OBVIOUS
  <2>1. \A y \in 0..0 : y = 0
    OBVIOUS
  <2>2. \A y \in T : y = 0
    BY <2>1
  <2>3. PICK x \in T : x = 0
    BY <2>2
  <2>4. \A y \in T : x >= y
    BY <2>2, <2>3
  <2> QED BY <2>4
<1>2. ASSUME NEW m \in Nat, m \in Good PROVE m + 1 \in Good
  <2> SUFFICES ASSUME NEW T \in SUBSET (0..m + 1), T # {} PROVE \E x \in T : \A y \in T : x >= y
    OBVIOUS
  <2>1. CASE m + 1 \in T
    BY <2>1
  <2>2. CASE m + 1 \notin T
    <3>1. T \in SUBSET (0..m)
      BY <2>2
    <3> QED BY <1>2, <3>1
  <2> QED BY <2>1, <2>2
<1> HIDE DEF Good
<1>3. n \in Good
  BY <1>1, <1>2, Induction
<1>4. \E x \in S : \A y \in S : x >= y
  BY <1>3 DEF Good
<1> QED BY <1>4, Zenon DEF Max

\* Items by their key, and those of one key in the order of insertion.
Before(key, i, j) == key[i] < key[j] \/ (key[i] = key[j] /\ i < j)

\* A set of items in that order.
InKeyOrder(s, K, key) ==
    /\ s \in Seq(K)
    /\ \A i \in K : \E a \in 1..Len(s) : s[a] = i
    /\ \A a, b \in 1..Len(s) : a < b => Before(key, s[a], s[b])

\* Where an item goes among items in order that were inserted before it.
LEMMA InsertPlace ==
    ASSUME NEW K \in SUBSET Nat, NEW i \in Nat, \A j \in K : j < i,
           NEW key, \A j \in K \cup {i} : key[j] \in Int,
           NEW s, InKeyOrder(s, K, key), NEW k,
           k = Max({0} \cup {j \in DOMAIN s : ~(key[i] < key[s[j]])})
    PROVE  /\ k \in 0..Len(s)
           /\ \A j \in 1..Len(s) : j <= k => Before(key, s[j], i)
           /\ \A j \in 1..Len(s) : j > k => Before(key, i, s[j])
<1>1. PICK n \in Nat : n = Len(s) /\ DOMAIN s = 1..n /\ \A j \in 1..n : s[j] \in K
  BY LenProperties, ElementOfSeq DEF InKeyOrder
<1> DEFINE S == {0} \cup {j \in DOMAIN s : ~(key[i] < key[s[j]])}
<1>2. S \in SUBSET (0..n) /\ 0 \in S
  BY <1>1
<1>3. k \in S /\ \A y \in S : k >= y
  <2> HIDE DEF S
  <2>1. S # {}
    BY <1>2
  <2>2. Max(S) \in S /\ \A y \in S : Max(S) >= y
    BY <1>2, <2>1, Largest
  <2>3. k = Max(S)
    BY Zenon DEF S
  <2> QED BY <2>2, <2>3
<1>4. \A j \in 1..n : key[s[j]] \in Int /\ key[i] \in Int /\ s[j] \in Nat /\ s[j] < i
  BY <1>1
<1>5. \A a, b \in 1..n : a < b => key[s[a]] <= key[s[b]]
  BY <1>1, <1>4 DEF InKeyOrder, Before
<1>6. ASSUME NEW j \in 1..n, j <= k PROVE Before(key, s[j], i)
  <2>1. k \in 1..n /\ ~(key[i] < key[s[k]])
    BY <1>1, <1>3, <1>6
  <2>2. key[s[j]] <= key[s[k]]
    <3>1. j = k \/ j < k
      BY <1>6, <2>1
    <3> QED BY <1>4, <1>5, <2>1, <3>1
  <2> QED BY <1>4, <2>1, <2>2 DEF Before
<1>7. ASSUME NEW j \in 1..n, j > k PROVE Before(key, i, s[j])
  <2>1. j \notin S
    BY <1>2, <1>3, <1>7
  <2>2. key[i] < key[s[j]]
    BY <1>1, <2>1
  <2> QED BY <2>2 DEF Before
<1>8. k \in 0..n
  BY <1>2, <1>3
<1> QED BY <1>1, <1>6, <1>7, <1>8

\* Insertion keeps the order.
LEMMA InsertKeepsOrder ==
    ASSUME NEW K \in SUBSET Nat, NEW i \in Nat, \A j \in K : j < i,
           NEW key, \A j \in K \cup {i} : key[j] \in Int,
           NEW s, InKeyOrder(s, K, key), NEW table, NEW q, NEW p,
           \A j \in K : hoistOrderBy(q, Env(table, i, p), Env(table, j, p)) <=> key[i] < key[j]
    PROVE  InKeyOrder(Insert(table, q, p, s, i), K \cup {i}, key)
<1>1. PICK n \in Nat : n = Len(s) /\ DOMAIN s = 1..n /\ \A j \in 1..n : s[j] \in K
  BY LenProperties, ElementOfSeq DEF InKeyOrder
<1> DEFINE less(j) == hoistOrderBy(q, Env(table, i, p), Env(table, s[j], p))
           k == Max({0} \cup {j \in DOMAIN s : ~less(j)})
           t == [j \in 1..(Len(s) + 1) |-> IF j <= k THEN s[j] ELSE IF j = k + 1 THEN i ELSE s[j - 1]]
<1>2. Insert(table, q, p, s, i) = t
  BY Zenon DEF Insert
<1>3. {j \in DOMAIN s : ~less(j)} = {j \in DOMAIN s : ~(key[i] < key[s[j]])}
  <2>1. \A j \in DOMAIN s : less(j) <=> key[i] < key[s[j]]
    BY <1>1
  <2> HIDE DEF less
  <2> QED BY <2>1
<1> HIDE DEF less
<1>4. k = Max({0} \cup {j \in DOMAIN s : ~(key[i] < key[s[j]])})
  BY <1>3, Zenon
<1> HIDE DEF k
<1>5. /\ k \in 0..n
      /\ \A j \in 1..n : j <= k => Before(key, s[j], i)
      /\ \A j \in 1..n : j > k => Before(key, i, s[j])
  BY <1>1, <1>4, InsertPlace
<1>6. /\ t \in Seq(K \cup {i}) /\ Len(t) = n + 1
      /\ \A j \in 1..n + 1 : t[j] = IF j <= k THEN s[j] ELSE IF j = k + 1 THEN i ELSE s[j - 1]
  <2>1. \A j \in 1..n + 1 : j > k /\ j # k + 1 => j - 1 \in 1..n
    BY <1>5
  <2>2. \A j \in 1..n + 1 : j <= k => j \in 1..n
    BY <1>5
  <2>3. t \in [1..n + 1 -> K \cup {i}]
    <3>1. \A j \in 1..n + 1 : (IF j <= k THEN s[j] ELSE IF j = k + 1 THEN i ELSE s[j - 1]) \in K \cup {i}
      <4> SUFFICES ASSUME NEW j \in 1..n + 1
                   PROVE  (IF j <= k THEN s[j] ELSE IF j = k + 1 THEN i ELSE s[j - 1]) \in K \cup {i}
        OBVIOUS
      <4>1. CASE j <= k
        <5>1. s[j] \in K
          BY <1>1, <2>2, <4>1
        <5> QED BY <4>1, <5>1
      <4>2. CASE ~(j <= k) /\ j = k + 1
        BY <4>2
      <4>3. CASE ~(j <= k) /\ j # k + 1
        <5>1. j > k
          BY <1>5, <4>3
        <5>2. s[j - 1] \in K
          BY <1>1, <2>1, <4>3, <5>1
        <5> QED BY <4>3, <5>2, Zenon
      <4> QED BY <4>1, <4>2, <4>3
    <3> QED BY <1>1, <3>1
  <2>4. t \in Seq(K \cup {i}) /\ DOMAIN t = 1..n + 1
    BY <2>3
  <2>5. Len(t) = n + 1
    BY <2>4, LenProperties
  <2> QED BY <1>1, <2>4, <2>5
<1> HIDE DEF t
<1>7. \A j \in K \cup {i} : \E a \in 1..n + 1 : t[a] = j
  <2> SUFFICES ASSUME NEW j \in K \cup {i} PROVE \E a \in 1..n + 1 : t[a] = j
    OBVIOUS
  <2>1. CASE j = i
    <3>1. k + 1 \in 1..n + 1 /\ t[k + 1] = i
      BY <1>5, <1>6
    <3> QED BY <2>1, <3>1
  <2>2. CASE j \in K
    <3>1. PICK a \in 1..n : s[a] = j
      BY <1>1, <2>2 DEF InKeyOrder
    <3>2. CASE a <= k
      BY <1>6, <3>1, <3>2
    <3>3. CASE a > k
      <4>1. a + 1 \in 1..n + 1 /\ ~(a + 1 <= k) /\ a + 1 # k + 1 /\ (a + 1) - 1 = a
        BY <1>5, <3>3
      <4>2. t[a + 1] = s[(a + 1) - 1]
        BY <1>6, <4>1
      <4> QED BY <3>1, <4>1, <4>2
    <3> QED BY <1>5, <3>2, <3>3
  <2> QED BY <2>1, <2>2
<1>8. \A a, b \in 1..n + 1 : a < b => Before(key, t[a], t[b])
  <2> SUFFICES ASSUME NEW a \in 1..n + 1, NEW b \in 1..n + 1, a < b PROVE Before(key, t[a], t[b])
    OBVIOUS
  <2>1. \A c, d \in 1..n : c < d => Before(key, s[c], s[d])
    BY <1>1 DEF InKeyOrder
  <2>2. CASE b <= k
    <3>1. a \in 1..n /\ b \in 1..n /\ t[a] = s[a] /\ t[b] = s[b]
      BY <1>5, <1>6, <2>2
    <3> QED BY <2>1, <3>1
  <2>3. CASE b = k + 1
    <3>1. a \in 1..n /\ a <= k /\ t[a] = s[a] /\ t[b] = i
      BY <1>5, <1>6, <2>3
    <3> QED BY <1>5, <3>1
  <2>4. CASE b > k + 1
    <3>1. b - 1 \in 1..n /\ b - 1 > k /\ t[b] = s[b - 1]
      BY <1>5, <1>6, <2>4
    <3>2. CASE a <= k
      <4>1. a \in 1..n /\ a < b - 1 /\ t[a] = s[a]
        BY <1>5, <1>6, <2>4, <3>2
      <4> QED BY <2>1, <3>1, <4>1
    <3>3. CASE a = k + 1
      <4>1. ~(a <= k)
        BY <1>5, <3>3
      <4>2. t[a] = i
        BY <1>6, <3>3, <4>1, Zenon
      <4> QED BY <1>5, <3>1, <4>2
    <3>4. CASE a > k + 1
      <4>1. a - 1 \in 1..n /\ a - 1 < b - 1 /\ t[a] = s[a - 1]
        BY <1>5, <1>6, <3>4
      <4> QED BY <2>1, <3>1, <4>1
    <3> QED BY <1>5, <3>2, <3>3, <3>4
  <2> QED BY <1>5, <2>2, <2>3, <2>4
<1>9. InKeyOrder(t, K \cup {i}, key)
  BY <1>6, <1>7, <1>8 DEF InKeyOrder
<1> QED BY <1>2, <1>9
\* The steps of the sort, for a function of how many rows were looked at.
SortStep(table, q, p, K, n, f) ==
    IF n = 0 THEN <<>> ELSE IF n \in K THEN Insert(table, q, p, f[n - 1], n) ELSE f[n - 1]

\* The function exists, and Sorted is where it ends.
LEMMA SortedWalks ==
    ASSUME NEW table, Len(table) \in Nat, NEW q, NEW p, NEW K
    PROVE  \E f : /\ \A n \in 0..Len(table) : f[n] = SortStep(table, q, p, K, n, f)
                 /\ Sorted(table, q, p, K) = f[Len(table)]
<1> DEFINE H(n, f) == SortStep(table, q, p, K, n, f)
           Good == {m \in Nat : \E f : f = [n \in 0..m |-> H(n, f)]}
<1>0. \A f, g, n : (n # 0 => f[n - 1] = g[n - 1]) => H(n, f) = H(n, g)
  BY Zenon DEF SortStep
<1> HIDE DEF H
<1>1. 0 \in Good
  <2> DEFINE f == [n \in 0..0 |-> H(0, 0)]
  <2>1. \A n \in 0..0 : n = 0
    OBVIOUS
  <2>2. \A n \in 0..0 : H(0, 0) = H(n, f)
    BY <2>1
  <2>3. f = [n \in 0..0 |-> H(n, f)]
    BY <2>2
  <2> HIDE DEF f
  <2> QED BY <2>3
<1>2. ASSUME NEW m \in Nat, m \in Good PROVE m + 1 \in Good
  <2>1. PICK f : f = [n \in 0..m |-> H(n, f)]
    BY <1>2
  <2> DEFINE g == [n \in 0..m + 1 |-> H(n, f)]
  <2>2. \A n \in 0..m : f[n] = H(n, f)
    BY <2>1, Zenon
  <2>3. \A n \in 0..m : n \in 0..m + 1
    OBVIOUS
  <2>4. \A n \in 0..m : g[n] = f[n]
    BY <2>2, <2>3
  <2>5. \A n \in 0..m + 1 : n # 0 => n - 1 \in 0..m
    OBVIOUS
  <2>6. \A n \in 0..m + 1 : H(n, f) = H(n, g)
    <3> HIDE DEF g
    <3> QED BY <1>0, <2>4, <2>5
  <2>7. g = [n \in 0..m + 1 |-> H(n, g)]
    BY <2>6
  <2> HIDE DEF g
  <2> QED BY <2>7
<1> HIDE DEF Good
<1>3. Len(table) \in Good
  BY <1>1, <1>2, Induction
<1> DEFINE Walk(f) == f = [n \in 0..Len(table) |->
                             IF n = 0 THEN <<>>
                             ELSE IF n \in K THEN Insert(table, q, p, f[n - 1], n) ELSE f[n - 1]]
           val == CHOOSE f : Walk(f)
<1>4. \E f : Walk(f)
  <2>1. PICK f : f = [n \in 0..Len(table) |-> H(n, f)]
    BY <1>3 DEF Good
  <2>2. Walk(f)
    BY <2>1, Zenon DEF H, SortStep
  <2> QED BY <2>2
<1>5. Walk(val)
  BY <1>4, Zenon
<1>6. Sorted(table, q, p, K) = val[Len(table)]
  BY Zenon DEF Sorted
<1> HIDE DEF val
<1>7. \A n \in 0..Len(table) : val[n] = SortStep(table, q, p, K, n, val)
  BY <1>5, Zenon DEF SortStep
<1> QED BY <1>6, <1>7

\* What a key says of the comparisons of a query: that they compare it.
Compares(key, table, q, p, K) ==
    /\ \A i \in K : key[i] \in Int
    /\ \A i, j \in K : i # j => (hoistOrderBy(q, Env(table, i, p), Env(table, j, p)) <=> key[i] < key[j])

\* The sort puts the items in order.
LEMMA SortedInOrder ==
    ASSUME NEW table, Len(table) \in Nat, NEW q, NEW p,
           NEW K, \A i \in K : i \in Nat /\ i >= 1 /\ i <= Len(table),
           NEW key, Compares(key, table, q, p, K)
    PROVE  InKeyOrder(Sorted(table, q, p, K), K, key)
<1>1. PICK f : /\ \A n \in 0..Len(table) : f[n] = SortStep(table, q, p, K, n, f)
              /\ Sorted(table, q, p, K) = f[Len(table)]
  BY SortedWalks
<1> DEFINE UpTo(n) == {i \in K : i <= n}
           Good == {n \in Nat : n <= Len(table) => InKeyOrder(f[n], UpTo(n), key)}
<1>2. 0 \in Good
  <2>1. f[0] = <<>>
    BY <1>1 DEF SortStep
  <2>2. UpTo(0) = {}
    OBVIOUS
  <2>3. InKeyOrder(<<>>, {}, key)
    BY EmptySeq DEF InKeyOrder
  <2> QED BY <2>1, <2>2, <2>3
<1>3. ASSUME NEW m \in Nat, m \in Good PROVE m + 1 \in Good
  <2> SUFFICES ASSUME m + 1 <= Len(table) PROVE InKeyOrder(f[m + 1], UpTo(m + 1), key)
    OBVIOUS
  <2>1. InKeyOrder(f[m], UpTo(m), key)
    BY <1>3
  <2>2. f[m + 1] = IF m + 1 \in K THEN Insert(table, q, p, f[m], m + 1) ELSE f[m]
    <3>1. PICK n \in 0..Len(table) : n = m + 1 /\ n # 0 /\ n - 1 = m
      OBVIOUS
    <3>2. f[n] = IF n \in K THEN Insert(table, q, p, f[n - 1], n) ELSE f[n - 1]
      BY <1>1, <3>1, Zenon DEF SortStep
    <3> QED BY <3>1, <3>2, Zenon
  <2>3. CASE m + 1 \in K
    <3>1. UpTo(m + 1) = UpTo(m) \cup {m + 1}
      BY <2>3
    <3>2. UpTo(m) \in SUBSET Nat /\ \A j \in UpTo(m) : j < m + 1 /\ j \in K
      OBVIOUS
    <3> HIDE DEF UpTo
    <3>3. \A j \in UpTo(m) \cup {m + 1} : key[j] \in Int
      BY <2>3, <3>2 DEF Compares
    <3>4. \A j \in UpTo(m) : hoistOrderBy(q, Env(table, m + 1, p), Env(table, j, p)) <=> key[m + 1] < key[j]
      BY <2>3, <3>2 DEF Compares
    <3>5. m + 1 \in Nat
      OBVIOUS
    <3>6. InKeyOrder(Insert(table, q, p, f[m], m + 1), UpTo(m) \cup {m + 1}, key)
      BY <2>1, <3>2, <3>3, <3>4, <3>5, InsertKeepsOrder
    <3> QED BY <2>2, <2>3, <3>1, <3>6
  <2>4. CASE m + 1 \notin K
    <3>1. UpTo(m + 1) = UpTo(m)
      BY <2>4
    <3> QED BY <2>1, <2>2, <2>4, <3>1
  <2> QED BY <2>3, <2>4
<1> HIDE DEF Good
<1>4. Len(table) \in Good
  BY <1>2, <1>3, Induction
<1>5. UpTo(Len(table)) = K
  OBVIOUS
<1>6. InKeyOrder(f[Len(table)], UpTo(Len(table)), key)
  BY <1>4 DEF Good
<1> HIDE DEF UpTo
<1> QED BY <1>1, <1>5, <1>6

\* The items of a set in front of one of them.
Ahead(key, K, i) == {j \in K \ {i} : Before(key, j, i)}

\* In an ordered sequence of a set of items, each item is preceded by as many of the set as
\* stand in front of it, and all of them are there once.
LEMMA OrderedRanks ==
    ASSUME NEW K \in SUBSET Nat, NEW key, \A i \in K : key[i] \in Int, NEW s, InKeyOrder(s, K, key)
    PROVE  /\ IsFiniteSet(K) /\ Len(s) = Cardinality(K)
           /\ \A n \in 1..Len(s) : Cardinality(Ahead(key, K, s[n])) = n - 1
<1>1. PICK n \in Nat : n = Len(s) /\ DOMAIN s = 1..n /\ s \in [1..n -> K] /\ \A j \in 1..n : s[j] \in K
  BY LenProperties DEF InKeyOrder
<1>2. \A a, b \in 1..n : a < b => Before(key, s[a], s[b]) /\ ~Before(key, s[b], s[a]) /\ s[a] # s[b]
  <2> SUFFICES ASSUME NEW a \in 1..n, NEW b \in 1..n, a < b
               PROVE  Before(key, s[a], s[b]) /\ ~Before(key, s[b], s[a]) /\ s[a] # s[b]
    OBVIOUS
  <2>1. Before(key, s[a], s[b])
    BY <1>1 DEF InKeyOrder
  <2>2. key[s[a]] \in Int /\ key[s[b]] \in Int /\ s[a] \in Nat /\ s[b] \in Nat
    BY <1>1
  <2> QED BY <2>1, <2>2 DEF Before
<1>3. \A i \in K : \E a \in 1..n : s[a] = i
  BY <1>1 DEF InKeyOrder
<1>4. ASSUME NEW m \in 0..n PROVE /\ IsFiniteSet({s[a] : a \in 1..m})
                                 /\ Cardinality({s[a] : a \in 1..m}) = m
  <2> DEFINE T == {s[a] : a \in 1..m}
             front == [a \in 1..m |-> s[a]]
  <2>1. front \in Bijection(1..m, T)
    <3>1. \A a, b \in 1..m : a # b => s[a] # s[b]
      <4> SUFFICES ASSUME NEW a \in 1..m, NEW b \in 1..m, a # b PROVE s[a] # s[b]
        OBVIOUS
      <4>1. a \in 1..n /\ b \in 1..n /\ (a < b \/ b < a)
        OBVIOUS
      <4> QED BY <1>2, <4>1
    <3> QED BY <3>1 DEF Bijection, Injection, Surjection, IsInjective
  <2>2. IsFiniteSet(1..m) /\ Cardinality(1..m) = m
    BY FS_Interval
  <2> HIDE DEF T, front
  <2>3. IsFiniteSet(T) /\ Cardinality(T) = m
    BY <2>1, <2>2, FS_Bijection DEF ExistsBijection
  <2> QED BY <2>3 DEF T
<1>5. K = {s[a] : a \in 1..n}
  BY <1>1, <1>3
<1>6. ASSUME NEW m \in 1..n
      PROVE  Ahead(key, K, s[m]) = {s[a] : a \in 1..m - 1}
  <2>1. ASSUME NEW a \in 1..m - 1 PROVE s[a] \in K \ {s[m]} /\ Before(key, s[a], s[m])
    <3>1. a \in 1..n /\ a < m
      OBVIOUS
    <3> QED BY <1>1, <1>2, <3>1
  <2>2. ASSUME NEW j \in K \ {s[m]}, Before(key, j, s[m]) PROVE \E a \in 1..m - 1 : s[a] = j
    <3>1. PICK a \in 1..n : s[a] = j
      BY <1>3
    <3>2. ~(m < a) /\ a # m
      BY <1>2, <2>2, <3>1
    <3>3. a \in 1..m - 1
      BY <3>2
    <3> QED BY <3>1, <3>3
  <2> QED BY <2>1, <2>2 DEF Ahead
<1>7. ASSUME NEW m \in 1..n PROVE Cardinality(Ahead(key, K, s[m])) = m - 1
  <2>1. m - 1 \in 0..n
    OBVIOUS
  <2> QED BY <1>4, <1>6, <2>1
<1>8. n \in 0..n
  OBVIOUS
<1> QED BY <1>1, <1>4, <1>5, <1>7, <1>8

\* The clauses of a keyword, as a set.
Said(q, kw) == {c \in Range(q.clauses) : c.kw = kw}

LEMMA NothingIsNoTerm == NoExpr \notin Terms
<1>1. NoExpr[1] = "none"
  BY DEF NoExpr
<1> QED BY <1>1, TermsAssumption DEF IsNumber, TermOperators

\* A keyword that is said at most once: not at all, or by the clause that Clause takes.
LEMMA ClauseSaid ==
    ASSUME NEW q \in Queries, NEW kw, AtMostOne(q, kw)
    PROVE  \/ PlacesOf(q, kw) = {} /\ Said(q, kw) = {} /\ Clause(q, kw) = NoExpr
           \/ \E c : /\ Said(q, kw) = {c} /\ ClauseIsTyped(q, c) /\ c.kw = kw
                     /\ Clause(q, kw) = c.expr
                     /\ \A i \in PlacesOf(q, kw) : q.clauses[i] = c
                     /\ PlacesOf(q, kw) # {}
<1>1. Said(q, kw) = {q.clauses[i] : i \in PlacesOf(q, kw)}
  BY DEF Said, PlacesOf, Range
<1>2. \A i \in PlacesOf(q, kw) : ClauseIsTyped(q, q.clauses[i]) /\ q.clauses[i].kw = kw /\ i \in Nat
  <2>1. DOMAIN q.clauses = 1..Len(q.clauses)
    BY QueriesAssumption, LenProperties
  <2> QED BY <2>1, QueriesAssumption DEF PlacesOf
<1>3. CASE PlacesOf(q, kw) = {}
  BY <1>1, <1>3 DEF Clause
<1>4. CASE PlacesOf(q, kw) # {}
  <2>1. PICK i \in PlacesOf(q, kw) : TRUE
    BY <1>4
  <2>2. PlacesOf(q, kw) = {i}
    BY <2>1 DEF AtMostOne
  <2>3. Min({i}) = i
    <3>1. i <= i
      BY <1>2, <2>1
    <3> QED BY <3>1, Zenon DEF Min
  <2>4. Clause(q, kw) = q.clauses[i].expr
    BY <1>4, <2>2, <2>3, Zenon DEF Clause
  <2> QED BY <1>1, <1>2, <2>1, <2>2, <2>4
<1> QED BY <1>3, <1>4

\* The filter of a query, as its clauses say it.
LEMMA FilterSaid ==
    ASSUME NEW q \in Queries, AtMostOne(q, "where"), NEW table, NEW i, NEW p
    PROVE  /\ Passes(table, q, i, p) <=> \A c \in Said(q, "where") : Value(c.expr, Env(table, i, p))
           /\ PredicateFails(table, q, i, p) <=> \E c \in Said(q, "where") : Fails(c.expr, Env(table, i, p))
<1>1. CASE Said(q, "where") = {} /\ Clause(q, "where") = NoExpr
  BY <1>1 DEF Passes, PredicateFails
<1>2. ASSUME NEW c, Said(q, "where") = {c}, ClauseIsTyped(q, c), c.kw = "where", Clause(q, "where") = c.expr
      PROVE  /\ Passes(table, q, i, p) <=> \A d \in Said(q, "where") : Value(d.expr, Env(table, i, p))
             /\ PredicateFails(table, q, i, p) <=> \E d \in Said(q, "where") : Fails(d.expr, Env(table, i, p))
  <2>1. c.expr # NoExpr
    BY <1>2, NothingIsNoTerm DEF ClauseIsTyped
  <2>2. Passes(table, q, i, p) <=> Value(c.expr, Env(table, i, p))
    BY <1>2, <2>1 DEF Passes
  <2>3. PredicateFails(table, q, i, p) <=> Fails(c.expr, Env(table, i, p))
    BY <1>2, <2>1 DEF PredicateFails
  <2> QED BY <1>2, <2>2, <2>3
<1>3. \/ Said(q, "where") = {} /\ Clause(q, "where") = NoExpr
      \/ \E c : Said(q, "where") = {c} /\ ClauseIsTyped(q, c) /\ c.kw = "where" /\ Clause(q, "where") = c.expr
  BY ClauseSaid
<1> QED BY <1>1, <1>2, <1>3, Zenon

\* The number of a clause that takes one, as its clauses say it.
LEMMA NumberSaid ==
    ASSUME NEW q \in Queries, NEW kw \in {"skip", "take"}, AtMostOne(q, kw)
    PROVE  Number(q, kw) \in Nat /\ Number(q, kw) = Max({0} \cup {c.expr[2] : c \in Said(q, kw)})
<1>1. CASE Said(q, kw) = {} /\ Clause(q, kw) = NoExpr
  <2>1. {0} \cup {c.expr[2] : c \in Said(q, kw)} = {0, 0}
    BY <1>1
  <2>2. Max({0, 0}) = 0
    BY OfTwo
  <2> QED BY <1>1, <2>1, <2>2 DEF Number
<1>2. ASSUME NEW c, Said(q, kw) = {c}, ClauseIsTyped(q, c), c.kw = kw, Clause(q, kw) = c.expr
      PROVE  Number(q, kw) \in Nat /\ Number(q, kw) = Max({0} \cup {d.expr[2] : d \in Said(q, kw)})
  <2>1. c.expr \in Terms /\ c.expr # NoExpr /\ c.expr[1] = "lit"
    BY <1>2, NothingIsNoTerm DEF ClauseIsTyped
  <2>2. c.expr[2] \in Nat
    BY <2>1, TermsAssumption
  <2>3. Number(q, kw) = c.expr[2]
    BY <1>2, <2>1 DEF Number
  <2>4. {0} \cup {d.expr[2] : d \in Said(q, kw)} = {c.expr[2], 0}
    BY <1>2
  <2>5. Max({c.expr[2], 0}) = c.expr[2]
    <3>1. \A n \in Nat : n \in Int /\ 0 \in Int /\ n >= 0
      OBVIOUS
    <3>2. \A n \in Nat : Max({n, 0}) = n
      BY <3>1, OfTwo
    <3> QED BY <2>2, <3>2
  <2> QED BY <2>2, <2>3, <2>4, <2>5
<1>3. \/ Said(q, kw) = {} /\ Clause(q, kw) = NoExpr
      \/ \E c : Said(q, kw) = {c} /\ ClauseIsTyped(q, c) /\ c.kw = kw /\ Clause(q, kw) = c.expr
  BY ClauseSaid
<1> QED BY <1>1, <1>2, <1>3, Zenon

\* A table: rows of the fields, where only the field of the second release may be missing.
IsTable(table) ==
    /\ Len(table) \in Nat /\ DOMAIN table = 1..Len(table)
    /\ \A i \in DOMAIN table :
         /\ table[i] \in [ReadFields -> ReadValues \cup {Absent}]
         /\ \A f \in ReadFields : table[i][f] = Absent => f = NewField

\* An expression is evaluated over naturals.
LEMMA RowsAreNaturals ==
    ASSUME NEW table, IsTable(table), NEW i \in DOMAIN table, NEW p \in ReadValues
    PROVE  IsRowEnv(Env(table, i, p))
<1>1. Decoded(table[i]) \in [ReadFields -> Nat]
  BY ReadValuesAssumption DEF IsTable, Decoded
<1> QED BY <1>1, ReadValuesAssumption DEF IsRowEnv, Env

\* A key that is compared is a number.
LEMMA KeysAreNumbers ==
    ASSUME NEW e \in Terms, Orderable(KeyType(e))
    PROVE  IsNumber(e)
<1>1. ~IsNumber(e) => KeyType(e) = "boolean"
  BY DEF KeyType, IsItemField, IsNumber
<1>2. ~Orderable("boolean")
  BY DEF Orderable
<1> QED BY <1>1, <1>2

\* The comparison of a query, as its clauses say it, and a key that it compares: when no two
\* items are there to compare, when there is no key, and when no key fails.
LEMMA OrderSaid ==
    ASSUME NEW q \in Queries, AtMostOne(q, "orderBy"), q.op # "join",
           Clause(q, "orderBy") # NoExpr => Orderable(KeyType(Clause(q, "orderBy"))),
           NEW table, IsTable(table), NEW p \in ReadValues, NEW K \in SUBSET DOMAIN table,
           ~ \E i, j \in K : i # j /\ KeyFails(table, q, i, p)
    PROVE  \E key : /\ Compares(key, table, q, p, K)
                    /\ \A i, j \in K : i # j =>
                         (key[i] < key[j] <=>
                            \E c \in Said(q, "orderBy") :
                              IF c.desc THEN Value(c.expr, Env(table, j, p)) < Value(c.expr, Env(table, i, p))
                                        ELSE Value(c.expr, Env(table, i, p)) < Value(c.expr, Env(table, j, p)))
<1>1. CASE \A i, j \in K : i = j
  <2> DEFINE key == [i \in K |-> 0]
  <2>1. Compares(key, table, q, p, K)
    BY <1>1 DEF Compares
  <2> HIDE DEF key
  <2> QED BY <1>1, <2>1
<1>2. CASE Said(q, "orderBy") = {} /\ Clause(q, "orderBy") = NoExpr
  <2> DEFINE key == [i \in K |-> 0]
  <2>1. \A x, y : ~hoistOrderBy(q, x, y)
    BY <1>2 DEF hoistOrderBy
  <2>2. \A i, j \in K : key[i] \in Int /\ ~(key[i] < key[j])
    OBVIOUS
  <2>3. Compares(key, table, q, p, K)
    BY <2>1, <2>2 DEF Compares
  <2> HIDE DEF key
  <2> QED BY <1>2, <2>2, <2>3
<1>3. ASSUME NEW c, Said(q, "orderBy") = {c}, ClauseIsTyped(q, c), c.kw = "orderBy",
             Clause(q, "orderBy") = c.expr,
             \A i \in PlacesOf(q, "orderBy") : q.clauses[i] = c, PlacesOf(q, "orderBy") # {},
             ~ \A i, j \in K : i = j
      PROVE  \E key : /\ Compares(key, table, q, p, K)
                      /\ \A i, j \in K : i # j =>
                           (key[i] < key[j] <=>
                              \E d \in Said(q, "orderBy") :
                                IF d.desc THEN Value(d.expr, Env(table, j, p)) < Value(d.expr, Env(table, i, p))
                                          ELSE Value(d.expr, Env(table, i, p)) < Value(d.expr, Env(table, j, p)))
  <2> DEFINE V(i) == Value(c.expr, Env(table, i, p))
             key == [i \in K |-> IF c.desc THEN 0 - V(i) ELSE V(i)]
  <2>1. c.expr \in Terms /\ c.expr # NoExpr /\ c.desc \in BOOLEAN /\ ~Mentions(c.expr, "other")
    BY <1>3, NothingIsNoTerm DEF ClauseIsTyped
  <2>2. IsNumber(c.expr)
    BY <1>3, <2>1, KeysAreNumbers
  <2>3. \A i \in K : ~Fails(c.expr, Env(table, i, p))
    <3>1. \A i \in K : \E j \in K : i # j
      BY <1>3
    <3>2. \A i \in K : ~KeyFails(table, q, i, p)
      BY <3>1
    <3> QED BY <1>3, <2>1, <3>2 DEF KeyFails
  <2>4. \A i \in K : V(i) \in Nat
    <3> SUFFICES ASSUME NEW i \in K PROVE V(i) \in Nat
      OBVIOUS
    <3>1. IsRowEnv(Env(table, i, p))
      BY RowsAreNaturals
    <3> QED BY <2>1, <2>2, <2>3, <3>1, NumbersAreNaturals
  <2>5. Descending(q) <=> c.desc
    BY <1>3 DEF Descending
  <2>6. \A type, x, y : x \in Nat /\ y \in Nat => (LessThan(type, x, y) <=> x < y)
    BY DEF LessThan
  <2>7. \A i, j \in K : hoistOrderBy(q, Env(table, i, p), Env(table, j, p))
                          <=> IF c.desc THEN V(j) < V(i) ELSE V(i) < V(j)
    <3> SUFFICES ASSUME NEW i \in K, NEW j \in K
                 PROVE  hoistOrderBy(q, Env(table, i, p), Env(table, j, p))
                          <=> IF c.desc THEN V(j) < V(i) ELSE V(i) < V(j)
      OBVIOUS
    <3> DEFINE type == KeyType(c.expr)
    <3>1. hoistOrderBy(q, Env(table, i, p), Env(table, j, p))
            <=> IF c.desc THEN LessThan(type, V(j), V(i)) ELSE LessThan(type, V(i), V(j))
      BY <1>3, <2>1, <2>5, Zenon DEF hoistOrderBy
    <3> HIDE DEF V, type
    <3> QED BY <2>4, <2>6, <3>1
  <2>8. \A i, j \in K : (\E d \in Said(q, "orderBy") :
                            IF d.desc THEN Value(d.expr, Env(table, j, p)) < Value(d.expr, Env(table, i, p))
                                      ELSE Value(d.expr, Env(table, i, p)) < Value(d.expr, Env(table, j, p)))
                          <=> IF c.desc THEN V(j) < V(i) ELSE V(i) < V(j)
    BY <1>3, Zenon
  <2> HIDE DEF V
  <2>9. \A i, j \in K : /\ key[i] \in Int
                        /\ key[i] < key[j] <=> IF c.desc THEN V(j) < V(i) ELSE V(i) < V(j)
    BY <2>1, <2>4
  <2> HIDE DEF key
  <2>10. Compares(key, table, q, p, K)
    BY <2>7, <2>9, Zenon DEF Compares
  <2> QED BY <2>8, <2>9, <2>10
<1>4. CASE ~ \A i, j \in K : i = j
  <2>1. \/ Said(q, "orderBy") = {} /\ Clause(q, "orderBy") = NoExpr
        \/ \E c : /\ Said(q, "orderBy") = {c} /\ ClauseIsTyped(q, c) /\ c.kw = "orderBy"
                  /\ Clause(q, "orderBy") = c.expr
                  /\ \A i \in PlacesOf(q, "orderBy") : q.clauses[i] = c
                  /\ PlacesOf(q, "orderBy") # {}
    BY ClauseSaid, Zenon
  <2> QED BY <1>2, <1>3, <1>4, <2>1, Zenon
<1> QED BY <1>1, <1>4

\* A page of a sequence.
LEMMA PageOf ==
    ASSUME NEW K, NEW s \in Seq(K), NEW skip \in Nat, NEW take \in Nat, NEW pg, pg = paginate(s, skip, take),
           NEW left \in Nat, left = IF Len(s) - skip > 0 THEN Len(s) - skip ELSE 0
    PROVE  /\ Len(pg) = IF take = 0 \/ left <= take THEN left ELSE take
           /\ DOMAIN pg = 1..Len(pg)
           /\ \A k \in DOMAIN pg : skip + k \in 1..Len(s) /\ pg[k] = s[skip + k]
<1>1. PICK n \in Nat : n = Len(s) /\ DOMAIN s = 1..n /\ \A j \in 1..n : s[j] \in K
  BY LenProperties
<1> DEFINE rest == IF skip > 0 THEN SubSeq(s, skip + 1, Len(s)) ELSE s
<1>2. /\ rest \in Seq(K) /\ Len(rest) = left
      /\ \A k \in 1..left : skip + k \in 1..n /\ rest[k] = s[skip + k]
  <2>1. CASE skip > 0
    <3>1. rest = SubSeq(s, skip + 1, n)
      BY <1>1, <2>1
    <3>2. \A j \in skip + 1..n : s[j] \in K
      BY <1>1
    <3>3. /\ rest \in Seq(K)
          /\ Len(rest) = IF skip + 1 <= n THEN n - (skip + 1) + 1 ELSE 0
          /\ \A k \in 1..n - (skip + 1) + 1 : rest[k] = s[(skip + 1) + k - 1]
      <4> HIDE DEF rest
      <4> QED BY <3>1, <3>2, SubSeqProperties
    <3> HIDE DEF rest
    <3>4. left = IF skip + 1 <= n THEN n - (skip + 1) + 1 ELSE 0
      BY <1>1
    <3>5. \A k \in 1..left : k \in 1..n - (skip + 1) + 1 /\ (skip + 1) + k - 1 = skip + k /\ skip + k \in 1..n
      BY <1>1
    <3> QED BY <3>3, <3>4, <3>5
  <2>2. CASE skip = 0
    <3>1. rest = s /\ left = n
      BY <1>1, <2>2
    <3> HIDE DEF rest
    <3>2. \A k \in 1..n : skip + k = k
      BY <2>2
    <3> QED BY <1>1, <3>1, <3>2
  <2>3. skip > 0 \/ skip = 0
    OBVIOUS
  <2> QED BY <2>1, <2>2, <2>3, Zenon
<1>3. pg = IF take > 0 /\ take < Len(rest) THEN SubSeq(rest, 1, take) ELSE rest
  BY Zenon DEF paginate
<1> HIDE DEF rest
<1>4. DOMAIN rest = 1..left /\ \A j \in 1..left : rest[j] \in K
  BY <1>2, LenProperties
<1>5. CASE take > 0 /\ take < left
  <2>1. \A j \in 1..take : rest[j] \in K
    BY <1>4, <1>5
  <2>2. pg = SubSeq(rest, 1, take)
    BY <1>2, <1>3, <1>5
  <2>3. /\ pg \in Seq(K) /\ Len(pg) = IF 1 <= take THEN take - 1 + 1 ELSE 0
        /\ \A k \in 1..take - 1 + 1 : pg[k] = rest[1 + k - 1]
    BY <2>1, <2>2, SubSeqProperties
  <2>4. \A k \in 1..take : k \in 1..take - 1 + 1 /\ 1 + k - 1 = k /\ k \in 1..left
    BY <1>5
  <2>5. Len(pg) = take /\ DOMAIN pg = 1..take
    BY <1>5, <2>3, LenProperties
  <2>6. \A k \in 1..take : pg[k] = rest[k]
    BY <2>3, <2>4
  <2>7. take # 0 /\ ~(left <= take)
    BY <1>5
  <2> QED BY <1>1, <1>2, <2>4, <2>5, <2>6, <2>7
<1>6. CASE ~(take > 0 /\ take < left)
  <2>1. pg = rest /\ (take = 0 \/ left <= take)
    BY <1>2, <1>3, <1>6
  <2> QED BY <1>1, <1>2, <1>4, <2>1
<1> QED BY <1>5, <1>6

\* The filter that is pushed down: one that never fails, and that the database reads as the
\* program does, of a row that holds every field.
LEMMA PushedFilter ==
    ASSUME NEW q \in Queries, AtMostOne(q, "where"), q.op # "join", WhereEqOf(q) # {},
           \A eq \in WhereEqOf(q) : ~Mentions(eq.rhs, "/")
    PROVE  /\ \A env : ~Fails(Clause(q, "where"), env)
           /\ \A table, p : \A i \in DOMAIN table :
                IsTable(table) /\ (\A f \in ReadFields : table[i][f] # Absent) =>
                  ((\A eq \in WhereEqOf(q) : SqlEquals(table, i, eq, p)) <=> Passes(table, q, i, p))
<1> DEFINE e == Clause(q, "where")
<1>1. e # NoExpr /\ WhereEqOf(q) = hoistWhereEq(q)
  BY DEF WhereEqOf
<1>2. e \in Terms /\ ~Mentions(e, "other")
  <2>1. PICK c : ClauseIsTyped(q, c) /\ c.kw = "where" /\ Clause(q, "where") = c.expr
    BY <1>1, ClauseSaid
  <2> QED BY <2>1 DEF ClauseIsTyped
<1>3. /\ \A c \in Conjuncts(e) : IsFieldEq(c)
      /\ WhereEqOf(q) = {FieldEq(c) : c \in Conjuncts(e)}
  BY <1>1 DEF hoistWhereEq
<1> HIDE DEF e
<1>4. ASSUME NEW c \in Conjuncts(e)
      PROVE  /\ c \in Terms /\ c[1] = "==" /\ c[2] \in Terms /\ c[3] \in Terms
             /\ \E f \in ReadFields, rhs \in Terms :
                  /\ FieldEq(c).field = f /\ FieldEq(c).rhs = rhs /\ Pushable(f)
                  /\ ~Mentions(rhs, "item") /\ ~Mentions(rhs, "other") /\ ~Mentions(rhs, "/")
                  /\ \/ c[2][1] = "item" /\ c[2][2] = f /\ c[3] = rhs
                     \/ c[3][1] = "item" /\ c[3][2] = f /\ c[2] = rhs
  <2>1. c \in Terms /\ IsFieldEq(c) /\ FieldEq(c) \in WhereEqOf(q)
    BY <1>2, <1>3, ConjunctsCover
  <2>2. c[1] = "==" /\ c[2] \in Operands(c) /\ c[3] \in Operands(c)
    BY <2>1 DEF IsFieldEq, Operands, TermOperators
  <2>3. c[2] \in Terms /\ c[3] \in Terms
    BY <2>1, <2>2, TermsAssumption
  <2>4. Parts(c[2]) \subseteq Parts(e) /\ Parts(c[3]) \subseteq Parts(e)
    <3>1. Parts(c) \subseteq Parts(e)
      BY <1>2, ConjunctsCover
    <3> QED BY <2>1, <2>2, <3>1, PartsFacts
  <2>5. ~Mentions(c[2], "other") /\ ~Mentions(c[3], "other")
    BY <1>2, <2>4 DEF Mentions
  <2>6. ~Mentions(FieldEq(c).rhs, "/")
    BY <2>1
  <2>7. CASE c[2][1] = "item"
    <3>1. FieldEq(c).field = c[2][2] /\ FieldEq(c).rhs = c[3] /\ c[2][2] \in ReadFields
      BY <2>3, <2>7, TermsAssumption DEF FieldEq, IsItemField
    <3> QED BY <2>1, <2>2, <2>3, <2>5, <2>6, <2>7, <3>1 DEF IsFieldEq
  <2>8. CASE c[2][1] # "item"
    <3>1. c[3][1] = "item"
      BY <2>1, <2>8 DEF IsFieldEq, IsItemField
    <3>2. FieldEq(c).field = c[3][2] /\ FieldEq(c).rhs = c[2] /\ c[3][2] \in ReadFields
      BY <2>3, <2>8, <3>1, TermsAssumption DEF FieldEq, IsItemField
    <3> QED BY <2>1, <2>2, <2>3, <2>5, <2>6, <3>1, <3>2 DEF IsFieldEq
  <2> QED BY <2>7, <2>8
<1>5. ASSUME NEW env PROVE ~Fails(e, env)
  <2> SUFFICES ASSUME NEW x \in Parts(e), x[1] = "/" PROVE FALSE
    BY <1>2, FailingPart
  <2>1. PICK c \in Conjuncts(e) : x \in Parts(c)
    BY <1>2, ConjunctsCover
  <2>2. PICK f \in ReadFields, rhs \in Terms :
          /\ ~Mentions(rhs, "/")
          /\ \/ c[2][1] = "item" /\ c[3] = rhs
             \/ c[3][1] = "item" /\ c[2] = rhs
    BY <1>4
  <2>3. c \in Terms /\ c[2] \in Terms /\ c[3] \in Terms /\ c[1] = "==" /\ Operands(c) = {c[2], c[3]}
    BY <1>4 DEF Operands, TermOperators
  <2>4. x \in Parts(c[2]) \/ x \in Parts(c[3])
    BY <2>1, <2>3, PartsFacts
  <2>5. \A y \in Terms : y[1] = "item" => Parts(y) = {y}
    BY PartsSteps DEF Operands, TermOperators
  <2>6. x \in Parts(rhs)
    BY <2>2, <2>3, <2>4, <2>5
  <2> QED BY <2>2, <2>6 DEF Mentions
<1>6. ASSUME NEW table, NEW p, NEW i \in DOMAIN table, IsTable(table), \A f \in ReadFields : table[i][f] # Absent
      PROVE  (\A eq \in WhereEqOf(q) : SqlEquals(table, i, eq, p)) <=> Passes(table, q, i, p)
  <2> DEFINE env == Env(table, i, p)
  <2>1. Passes(table, q, i, p) <=> Value(e, env)
    BY <1>1 DEF Passes, e
  <2>2. env.param = p /\ \A f \in ReadFields : env.item[f] = table[i][f]
    BY <1>6 DEF Env, Decoded
  <2> HIDE DEF env
  <2>3. ASSUME NEW c \in Conjuncts(e) PROVE SqlEquals(table, i, FieldEq(c), p) <=> Value(c, env)
    <3>1. PICK f \in ReadFields, rhs \in Terms :
            /\ FieldEq(c).field = f /\ FieldEq(c).rhs = rhs /\ Pushable(f)
            /\ ~Mentions(rhs, "item") /\ ~Mentions(rhs, "other")
            /\ \/ c[2][1] = "item" /\ c[2][2] = f /\ c[3] = rhs
               \/ c[3][1] = "item" /\ c[3][2] = f /\ c[2] = rhs
      BY <1>4
    <3>2. c \in Terms /\ c[1] = "==" /\ c[2] \in Terms /\ c[3] \in Terms
      BY <1>4
    <3>3. Value(c, env) = (Value(c[2], env) = Value(c[3], env))
      BY <3>2, Values
    <3>4. \A x \in Terms : x[1] = "item" => Value(x, env) = env.item[x[2]]
      BY Values
    <3>5. Value(rhs, [param |-> p]) = Value(rhs, env)
      <4>1. [param |-> p].param = env.param
        BY <2>2
      <4> QED BY <3>1, <4>1, SameForAllRows
    <3>6. Value(c, env) <=> table[i][f] = Value(rhs, env)
      <4>1. CASE c[2][1] = "item" /\ c[2][2] = f /\ c[3] = rhs
        <5>1. Value(c[2], env) = table[i][f]
          BY <2>2, <3>2, <3>4, <4>1
        <5> QED BY <3>3, <4>1, <5>1
      <4>2. CASE c[3][1] = "item" /\ c[3][2] = f /\ c[2] = rhs
        <5>1. Value(c[3], env) = table[i][f]
          BY <2>2, <3>2, <3>4, <4>2
        <5> QED BY <3>3, <4>2, <5>1
      <4> QED BY <3>1, <4>1, <4>2
    <3>7. SqlEquals(table, i, FieldEq(c), p) <=> table[i][f] = Value(rhs, [param |-> p])
      BY <1>6, <3>1 DEF SqlEquals
    <3> QED BY <3>5, <3>6, <3>7
  <2>4. (\A eq \in WhereEqOf(q) : SqlEquals(table, i, eq, p))
          <=> \A c \in Conjuncts(e) : SqlEquals(table, i, FieldEq(c), p)
    BY <1>3
  <2>5. Value(e, env) <=> \A c \in Conjuncts(e) : Value(c, env)
    BY <1>2, ConjunctsHold
  <2> QED BY <2>1, <2>3, <2>4, <2>5
<1>7. \A env : ~Fails(Clause(q, "where"), env)
  BY <1>5 DEF e
<1> QED BY <1>6, <1>7

\* An accepted query that is no join has the clauses of a list, and one of a join those of a
\* join; a view it maps to projects its sources.
LEMMA AcceptedShapes ==
    ASSUME NEW q \in CompilingQueries
    PROVE  /\ q \in Queries
           /\ q.op # "join" /\ q.target # "aggregate" => ensureListClausesWellFormed(q)
           /\ q.op = "join" => ensureJoinClausesWellFormed(q)
           /\ q.view # NoView => Projects(q)
           /\ Clause(q, "orderBy") # NoExpr => Orderable(KeyType(Clause(q, "orderBy")))
           /\ \A eq \in WhereEqOf(q) : ~Mentions(eq.rhs, "/")
<1>1. q \in Queries /\ Compiles(q)
  BY DEF CompilingQueries
<1>2. q.view # NoView => q.returned
  BY <1>1, QueriesAssumption
<1>3. q.returned => EmitReturn(q)
  BY <1>1 DEF Compiles
<1>4. ~q.returned => EmitAssign(q)
  BY <1>1 DEF Compiles
<1>5. EmitReturn(q) => /\ q.op # "join" /\ q.target # "aggregate" => ensureListClausesWellFormed(q)
                       /\ q.op = "join" => ensureJoinClausesWellFormed(q)
                       /\ q.view # NoView => Projects(q)
  BY DEF EmitReturn, EmitLoadAsView, EmitHoistedQueryReturn, EmitHoistedJoinReturn, EmitListVO, AsProjection
<1>6. EmitAssign(q) => q.op # "join" /\ ensureListClausesWellFormed(q)
  BY DEF EmitAssign
<1> QED BY <1>1, <1>2, <1>3, <1>4, <1>5, <1>6 DEF Compiles

\* The rows a query asks for.
Asked(table, q, p) == {i \in 1..Len(table) : \A c \in Said(q, "where") : Value(c.expr, Env(table, i, p))}
\* None of the rows lacks a field.
Whole(table) == \A i \in DOMAIN table : \A f \in ReadFields : table[i][f] # Absent

\* What both interpreters answer: over memory and over a table, with the filter pushed down or
\* not, the page of the sort of the rows asked for, or their number.
LEMMA InterpretersAgree ==
    ASSUME NEW q \in CompilingQueries, q.op # "join", q.target # "aggregate", NEW table, IsTable(table),
           NEW p \in ReadValues, NEW engine, NEW r, r = Result(engine, table, q, p)
    PROVE  /\ r.kind \in {"error", "page", "count"}
           /\ r.kind # "error" => \A c \in Said(q, "where"), i \in 1..Len(table) : ~Fails(c.expr, Env(table, i, p))
           /\ r.kind = "count" /\ Whole(table) => r.count = Cardinality(Asked(table, q, p))
           /\ r.kind = "page" /\ Whole(table) =>
                /\ r.page = paginate(Sorted(table, q, p, Asked(table, q, p)), Number(q, "skip"), Number(q, "take"))
                /\ ~ \E i, j \in Asked(table, q, p) : i # j /\ KeyFails(table, q, i, p)
<1>1. q \in Queries /\ AtMostOne(q, "where") /\ \A eq \in WhereEqOf(q) : ~Mentions(eq.rhs, "/")
  BY AcceptedShapes DEF ensureListClausesWellFormed
<1>2. DOMAIN table = 1..Len(table)
  BY DEF IsTable
<1> DEFINE W == Asked(table, q, p)
           safe == \A c \in Said(q, "where"), i \in 1..Len(table) : ~Fails(c.expr, Env(table, i, p))
           fetched == Fetch(table, WhereEqOf(q), p)
<1>3. W = {i \in DOMAIN table : Passes(table, q, i, p)}
  BY <1>1, <1>2, FilterSaid DEF Asked
<1>4. safe <=> \A i \in DOMAIN table : ~PredicateFails(table, q, i, p)
  BY <1>1, <1>2, FilterSaid
<1>5. WhereEqOf(q) = {} => fetched = DOMAIN table
  BY DEF Fetch
<1>6. ASSUME WhereEqOf(q) # {}
      PROVE  /\ safe
             /\ \A i \in DOMAIN table : ~PredicateFails(table, q, i, p)
             /\ Whole(table) => fetched = W
  <2>1. \A env : ~Fails(Clause(q, "where"), env)
    BY <1>1, <1>6, PushedFilter
  <2>2. \A i \in DOMAIN table : ~PredicateFails(table, q, i, p)
    BY <2>1 DEF PredicateFails
  <2>3. \A i \in DOMAIN table : Whole(table) =>
          ((\A eq \in WhereEqOf(q) : SqlEquals(table, i, eq, p)) <=> Passes(table, q, i, p))
    BY <1>1, <1>6, PushedFilter DEF Whole
  <2>4. Whole(table) => fetched = W
    BY <1>3, <2>3 DEF Fetch
  <2> QED BY <1>4, <2>2, <2>4
<1>7. fetched \subseteq DOMAIN table
  BY DEF Fetch
<1> HIDE DEF W, safe, fetched
<1>8. ASSUME NEW items \in SUBSET DOMAIN table,
             safe \/ items = DOMAIN table, Whole(table) => {i \in items : Passes(table, q, i, p)} = W,
             r = SelectSlice(table, q, p, items)
      PROVE  /\ r.kind \in {"error", "page"}
             /\ r.kind # "error" => safe
             /\ r.kind = "page" /\ Whole(table) =>
                  /\ r.page = paginate(Sorted(table, q, p, W), Number(q, "skip"), Number(q, "take"))
                  /\ ~ \E i, j \in W : i # j /\ KeyFails(table, q, i, p)
  <2> DEFINE kept == {i \in items : Passes(table, q, i, p)}
             fails == \/ \E i \in items : PredicateFails(table, q, i, p)
                      \/ \E i, j \in kept : i # j /\ KeyFails(table, q, i, p)
             pg == paginate(Sorted(table, q, p, kept), Number(q, "skip"), Number(q, "take"))
  <2>1. r = IF fails THEN Failed ELSE Page(pg)
    BY <1>8, Zenon DEF SelectSlice
  <2>2. Failed.kind = "error" /\ Page(pg).kind = "page" /\ Page(pg).page = pg
    BY DEF Failed, Page
  <2>3. ~fails => safe /\ ~ \E i, j \in kept : i # j /\ KeyFails(table, q, i, p)
    BY <1>4, <1>8
  <2>4. Whole(table) => kept = W
    BY <1>8
  <2> HIDE DEF fails, kept
  <2>5. Whole(table) => pg = paginate(Sorted(table, q, p, W), Number(q, "skip"), Number(q, "take"))
    BY <2>4, Zenon
  <2> HIDE DEF pg
  <2> QED BY <2>1, <2>2, <2>3, <2>4, <2>5
<1>9. ASSUME r = Count(table, q, p, DOMAIN table)
      PROVE  /\ r.kind \in {"error", "count"}
             /\ r.kind # "error" => safe
             /\ r.kind = "count" => r.count = Cardinality(W)
  <2> DEFINE fails == \E i \in DOMAIN table : PredicateFails(table, q, i, p)
  <2>1. r = IF fails THEN Failed ELSE Counted(Cardinality(W))
    BY <1>3, <1>9, Zenon DEF Count
  <2>2. Failed.kind = "error" /\ \A n : Counted(n).kind = "count" /\ Counted(n).count = n
    BY DEF Failed, Counted
  <2>3. fails \/ safe
    BY <1>4
  <2> HIDE DEF fails
  <2> QED BY <2>1, <2>2, <2>3
<1>10. ASSUME r = SqlCount(table, q, p)
       PROVE  /\ r.kind \in {"error", "count"}
              /\ r.kind # "error" => safe
              /\ r.kind = "count" /\ Whole(table) => r.count = Cardinality(W)
  <2>1. CASE Clause(q, "where") = NoExpr \/ WhereEqOf(q) # {}
    <3>1. r = Counted(Cardinality(fetched))
      BY <1>10, <2>1 DEF SqlCount, fetched
    <3>2. r.kind = "count" /\ r.count = Cardinality(fetched)
      BY <3>1 DEF Counted
    <3>3. CASE WhereEqOf(q) # {}
      BY <1>6, <3>2, <3>3
    <3>4. CASE Clause(q, "where") = NoExpr /\ WhereEqOf(q) = {}
      <4>1. safe /\ W = DOMAIN table
        BY <1>3, <1>4, <3>4 DEF PredicateFails, Passes
      <4> QED BY <1>5, <3>2, <3>4, <4>1
    <3> QED BY <2>1, <3>3, <3>4
  <2>2. CASE ~(Clause(q, "where") = NoExpr \/ WhereEqOf(q) # {})
    <3>1. r = Count(table, q, p, DOMAIN table)
      BY <1>10, <2>2 DEF SqlCount
    <3> QED BY <1>9, <3>1
  <2> QED BY <2>1, <2>2
<1>11. /\ safe \/ fetched = DOMAIN table
       /\ Whole(table) => {i \in fetched : Passes(table, q, i, p)} = W
  <2>1. CASE WhereEqOf(q) = {}
    BY <1>3, <1>5, <2>1
  <2>2. CASE WhereEqOf(q) # {}
    <3>1. Whole(table) => {i \in W : Passes(table, q, i, p)} = W
      BY <1>3
    <3> QED BY <1>6, <2>2, <3>1
  <2> QED BY <2>1, <2>2
<1>12. \/ r = SqlCount(table, q, p)
       \/ r = SelectSlice(table, q, p, fetched)
       \/ r = Count(table, q, p, DOMAIN table)
       \/ r = SelectSlice(table, q, p, DOMAIN table)
  BY DEF Result, fetched
<1>13. CASE r = SqlCount(table, q, p)
  BY <1>10, <1>13 DEF W, safe
<1>14. CASE r = SelectSlice(table, q, p, fetched)
  BY <1>7, <1>8, <1>11, <1>14 DEF W, safe
<1>15. CASE r = Count(table, q, p, DOMAIN table)
  BY <1>9, <1>15 DEF W, safe
<1>16. CASE r = SelectSlice(table, q, p, DOMAIN table)
  BY <1>3, <1>8, <1>16 DEF W, safe
<1> QED BY <1>12, <1>13, <1>14, <1>15, <1>16

\* The rows a collection can hold: only the field of the second release can be missing.
RowShape == {r \in [ReadFields -> ReadValues \cup {Absent}] : \A f \in ReadFields : r[f] = Absent => f = NewField}

StoredRows ==
  /\ backend \in {"memory", "sql"} /\ release \in 1..2
  /\ rows \in Seq(RowShape) /\ Len(rows) <= MaxRows
  /\ others \in Seq([ReadFields -> ReadValues]) /\ Len(others) <= MaxOthers

\* A join between its two collections: what it saw of each is still there.
ReadingOfJoin ==
  \/ reading = NoReading
  \/ \E q \in CompilingQueries, p \in ReadValues, i \in 0..Len(rows), o \in 0..Len(others) :
       /\ q.op = "join"
       /\ reading = [on |-> TRUE, query |-> q, param |-> p, items |-> i, others |-> o]

\* The answer in sight was computed from the rows there are.
AnswerOfRows ==
  \/ answer = NoAnswer
  \/ \E q \in CompilingQueries, p \in ReadValues :
       /\ q.op # "join"
       /\ answer = Answered(Result(backend, rows, q, p), q, p, Len(rows), Len(others))
  \/ \E q \in CompilingQueries, p \in ReadValues, i \in 0..Len(rows), o \in 0..Len(others) :
       /\ q.op = "join"
       /\ answer = Answered(Joined(rows, others, q, p, i), q, p, i, o)

\* The inductive invariant of the reads.
ReadsInv == StoredRows /\ ReadingOfJoin /\ AnswerOfRows

\* Every read starts with nothing stored, read or answered.
LEMMA ReadsInvInit == ReadsInit => ReadsInv
BY ReadBoundsAssumption DEF ReadsInit, ReadsInv, StoredRows, ReadingOfJoin, AnswerOfRows

\* Every step keeps the invariant: rows are only appended while a join is under way.
LEMMA ReadsInvStep == ReadsInv /\ [ReadsNext]_readVars => ReadsInv'
<1> SUFFICES ASSUME ReadsInv, [ReadsNext]_readVars
             PROVE  ReadsInv'
  OBVIOUS
<1> USE ReadBoundsAssumption, ReadValuesAssumption
<1>0. Len(rows) \in Nat /\ Len(others) \in Nat
  BY DEF ReadsInv, StoredRows
<1>1. CASE \E values \in [ReadFields -> ReadValues] : Add(values)
  <2> PICK values \in [ReadFields -> ReadValues] : Add(values)
    BY <1>1
  <2>1. RowOf(values) \in RowShape
    BY DEF RowOf, RowShape
  <2>2. rows' \in Seq(RowShape) /\ Len(rows') = Len(rows) + 1 /\ Len(rows') <= MaxRows
    BY <2>1, <1>0 DEF Add, ReadsInv, StoredRows
  <2>3. StoredRows'
    BY <2>2 DEF Add, ReadsInv, StoredRows
  <2>4. ReadingOfJoin'
    BY <2>2, <1>0 DEF Add, ReadsInv, ReadingOfJoin
  <2>5. AnswerOfRows'
    BY DEF Add, AnswerOfRows
  <2> QED
    BY <2>3, <2>4, <2>5 DEF ReadsInv
<1>2. CASE \E values \in [ReadFields -> ReadValues] : AddOther(values)
  <2> PICK values \in [ReadFields -> ReadValues] : AddOther(values)
    BY <1>2
  <2>2. others' \in Seq([ReadFields -> ReadValues]) /\ Len(others') = Len(others) + 1 /\ Len(others') <= MaxOthers
    BY <1>0 DEF AddOther, ReadsInv, StoredRows
  <2>3. StoredRows'
    BY <2>2 DEF AddOther, ReadsInv, StoredRows
  <2>4. ReadingOfJoin'
    BY <2>2, <1>0 DEF AddOther, ReadsInv, ReadingOfJoin
  <2>5. AnswerOfRows'
    BY DEF AddOther, AnswerOfRows
  <2> QED
    BY <2>3, <2>4, <2>5 DEF ReadsInv
<1>3. CASE Upgrade
  <2>1. StoredRows'
    BY <1>3 DEF Upgrade, ReadsInv, StoredRows
  <2>2. ReadingOfJoin' /\ AnswerOfRows'
    BY <1>3 DEF Upgrade, ReadingOfJoin, AnswerOfRows
  <2> QED
    BY <2>1, <2>2 DEF ReadsInv
<1>4. CASE \E q \in Queries, p \in ReadValues : Read(q, p) \/ JoinFirst(q, p)
  <2> PICK q \in Queries, p \in ReadValues : Read(q, p) \/ JoinFirst(q, p)
    BY <1>4
  <2>1. CASE Read(q, p)
    <3>1. StoredRows' /\ ReadingOfJoin'
      BY <2>1 DEF Read, ReadsInv, StoredRows, ReadingOfJoin
    <3>2. /\ q \in CompilingQueries /\ q.op # "join"
          /\ answer' = Answered(Result(backend, rows, q, p), q, p, Len(rows), Len(others))
          /\ backend' = backend /\ rows' = rows /\ others' = others
      BY <2>1 DEF Read
    <3>3. AnswerOfRows'
      BY <3>2 DEF AnswerOfRows
    <3> QED
      BY <3>1, <3>3 DEF ReadsInv
  <2>2. CASE JoinFirst(q, p)
    <3>1. StoredRows' /\ AnswerOfRows'
      BY <2>2 DEF JoinFirst, ReadsInv, StoredRows, AnswerOfRows
    <3>2. /\ q \in CompilingQueries /\ q.op = "join" /\ rows' = rows /\ others' = others
          /\ Len(rows) \in 0..Len(rows) /\ Len(others) \in 0..Len(others)
          /\ reading' = [on |-> TRUE, query |-> q, param |-> p, items |-> Len(rows), others |-> Len(others)]
      BY <2>2, <1>0 DEF JoinFirst
    <3>3. \E i \in 0..Len(rows'), o \in 0..Len(others') :
             reading' = [on |-> TRUE, query |-> q, param |-> p, items |-> i, others |-> o]
      BY <3>2
    <3>4. ReadingOfJoin'
      BY <3>2, <3>3 DEF ReadingOfJoin
    <3> QED
      BY <3>1, <3>4 DEF ReadsInv
  <2> QED
    BY <2>1, <2>2
<1>5. CASE JoinSecond
  <2>1. StoredRows' /\ ReadingOfJoin'
    BY <1>5 DEF JoinSecond, ReadsInv, StoredRows, ReadingOfJoin
  <2>2. PICK q \in CompilingQueries, p \in ReadValues, i \in 0..Len(rows), o \in 0..Len(others) :
          /\ q.op = "join"
          /\ reading = [on |-> TRUE, query |-> q, param |-> p, items |-> i, others |-> o]
    BY <1>5 DEF JoinSecond, ReadsInv, ReadingOfJoin, NoReading
  <2>3. /\ answer' = Answered(Joined(rows, others, q, p, i), q, p, i, o)
        /\ rows' = rows /\ others' = others
    BY <1>5, <2>2 DEF JoinSecond
  <2>4. AnswerOfRows'
    BY <2>2, <2>3 DEF AnswerOfRows
  <2> QED
    BY <2>1, <2>4 DEF ReadsInv
<1>6. CASE UNCHANGED readVars
  BY <1>6 DEF readVars, ReadsInv, StoredRows, ReadingOfJoin, AnswerOfRows
<1> QED
  BY <1>1, <1>2, <1>3, <1>4, <1>5, <1>6 DEF ReadsNext

\* The stored rows are a table to both interpreters.
LEMMA RowsAreATable == ASSUME ReadsInv PROVE IsTable(rows) /\ Len(others) \in Nat
BY DEF ReadsInv, StoredRows, RowShape, IsTable

\* The kinds of answers of a join.
LEMMA JoinsAnswerPages ==
    ASSUME NEW q, NEW p, NEW first, NEW second, NEW n
    PROVE  Joined(first, second, q, p, n).kind \in {"page", "error"}
BY DEF Joined, Page, Failed

\* An answer of a read is the result of running an accepted query over the rows.
LEMMA WhatWasRead ==
    ASSUME ReadsInv, answer.kind # "none", answer.query.op # "join" \/ answer.kind = "count"
    PROVE  \E q \in CompilingQueries, p \in ReadValues :
             LET r == Result(backend, rows, q, p) IN
             /\ q.op # "join"
             /\ answer.query = q /\ answer.param = p /\ answer.seen = Len(rows)
             /\ answer.kind = r.kind /\ answer.page = r.page /\ answer.count = r.count
<1>1. CASE answer = NoAnswer
  BY <1>1 DEF NoAnswer
<1>2. CASE \E q \in CompilingQueries, p \in ReadValues :
             /\ q.op # "join"
             /\ answer = Answered(Result(backend, rows, q, p), q, p, Len(rows), Len(others))
  BY <1>2 DEF Answered
<1>3. CASE \E q \in CompilingQueries, p \in ReadValues, i \in 0..Len(rows), o \in 0..Len(others) :
             /\ q.op = "join"
             /\ answer = Answered(Joined(rows, others, q, p, i), q, p, i, o)
  BY <1>3, JoinsAnswerPages DEF Answered
<1> QED
  BY <1>1, <1>2, <1>3 DEF ReadsInv, AnswerOfRows

\* What the properties call asked is what the query says.
LEMMA AskedIsSaid ==
    ASSUME NEW q \in Queries, NEW p, answer.query = q, answer.param = p, answer.seen = Len(rows)
    PROVE  /\ \A kw : AskedClauses(kw) = Said(q, kw)
           /\ \A i : AskedEnv(i) = Env(rows, i, p)
           /\ Wanted = Asked(rows, q, p)
           /\ \A kw \in {"skip", "take"} : AtMostOne(q, kw) => AskedNumber(kw) = Number(q, kw)
<1>1. \A kw : AskedClauses(kw) = Said(q, kw)
  BY DEF AskedClauses, Said
<1>2. \A i : AskedEnv(i) = Env(rows, i, p)
  BY DEF AskedEnv
<1>3. Wanted = Asked(rows, q, p)
  BY <1>1, <1>2 DEF Wanted, Asked
<1>4. \A kw \in {"skip", "take"} : AtMostOne(q, kw) => AskedNumber(kw) = Number(q, kw)
  BY <1>1, NumberSaid DEF AskedNumber
<1> QED
  BY <1>1, <1>2, <1>3, <1>4

\* In a table of the second release no field is missing.
LEMMA OneShapeIsWhole == ASSUME ReadsInv, OfOneShape PROVE Whole(rows)
BY RowsAreATable DEF OfOneShape, Whole, IsTable

\* A read that fails on an item fails; a count is of what is listed.
LEMMA ReadsFail == ReadsInv => FailingItemsFailTheRead /\ CountsAreOfWhatIsListed
<1> SUFFICES ASSUME ReadsInv PROVE FailingItemsFailTheRead /\ CountsAreOfWhatIsListed
  OBVIOUS
<1>0. IsTable(rows)
  BY RowsAreATable
<1>1. SUFFICES ASSUME answer.kind # "none", answer.query.op # "join" \/ answer.kind = "count",
                      answer.kind # "error"
               PROVE  FailingItemsFailTheRead /\ CountsAreOfWhatIsListed
  BY DEF FailingItemsFailTheRead, CountsAreOfWhatIsListed
<1>2. PICK q \in CompilingQueries, p \in ReadValues :
        /\ q.op # "join"
        /\ answer.query = q /\ answer.param = p /\ answer.seen = Len(rows)
        /\ answer.kind = Result(backend, rows, q, p).kind
        /\ answer.page = Result(backend, rows, q, p).page
        /\ answer.count = Result(backend, rows, q, p).count
  BY <1>1, WhatWasRead
<1>3. q \in Queries
  BY DEF CompilingQueries
<1>4. CASE q.target = "aggregate"
  <2>1. q.clauses = <<>>
    BY <1>3, <1>4, QueriesAssumption
  <2>2. AskedClauses("where") = {}
    BY <1>2, <2>1 DEF AskedClauses, Range
  <2>3. answer.kind = "page"
    BY <1>2, <1>4 DEF Result, Page
  <2> QED
    BY <2>2, <2>3 DEF FailingItemsFailTheRead, CountsAreOfWhatIsListed
<1>5. CASE q.target # "aggregate"
  <2> DEFINE r == Result(backend, rows, q, p)
  <2>1. /\ r.kind # "error" => \A c \in Said(q, "where"), i \in 1..Len(rows) : ~Fails(c.expr, Env(rows, i, p))
        /\ r.kind = "count" /\ Whole(rows) => r.count = Cardinality(Asked(rows, q, p))
    BY <1>0, <1>2, <1>5, InterpretersAgree
  <2>2. FailingItemsFailTheRead
    BY <1>1, <1>2, <1>3, <2>1, AskedIsSaid DEF FailingItemsFailTheRead
  <2>3. CountsAreOfWhatIsListed
    BY <1>2, <1>3, <2>1, AskedIsSaid, OneShapeIsWhole DEF CountsAreOfWhatIsListed
  <2> QED
    BY <2>2, <2>3
<1> QED
  BY <1>4, <1>5

\* Items with a number each to be ordered by.
Keyed(key, K) == \A i \in K : i \in Nat /\ key[i] \in Int

\* The length of a page of n items.
PageLength(n, skip, take) == LET rest == Max({0, n - skip}) IN IF take = 0 THEN rest ELSE Min({rest, take})

\* A page of a list in order: as long as there are elements left, and each at its rank.
LEMMA RankedPage ==
    ASSUME NEW K, NEW key, Keyed(key, K), NEW s, InKeyOrder(s, K, key),
           NEW skip \in Nat, NEW take \in Nat, NEW pg, pg = paginate(s, skip, take)
    PROVE  /\ Len(pg) = PageLength(Cardinality(K), skip, take)
           /\ \A k \in DOMAIN pg :
                pg[k] \in K /\ Cardinality(Ahead(key, K, pg[k])) = skip + k - 1
<1>1. /\ IsFiniteSet(K) /\ Len(s) = Cardinality(K)
      /\ \A n \in 1..Len(s) : Cardinality(Ahead(key, K, s[n])) = n - 1
  <2>1. K \in SUBSET Nat /\ \A i \in K : key[i] \in Int
    BY DEF Keyed
  <2> QED
    BY <2>1, OrderedRanks
<1>2. s \in Seq(K) /\ Len(s) \in Nat
  BY DEF InKeyOrder
<1>3. PICK d \in Int : d = Len(s) - skip
  BY <1>2
<1>4. PICK left \in Nat : left = IF d > 0 THEN d ELSE 0
  <2>1. (IF d > 0 THEN d ELSE 0) \in Nat
    OBVIOUS
  <2> QED
    BY <2>1
<1>0. left = IF Len(s) - skip > 0 THEN Len(s) - skip ELSE 0
  BY <1>3, <1>4
<1>5. /\ Len(pg) = IF take = 0 \/ left <= take THEN left ELSE take
      /\ DOMAIN pg = 1..Len(pg)
      /\ \A k \in DOMAIN pg : skip + k \in 1..Len(s) /\ pg[k] = s[skip + k]
  BY <1>0, <1>2, PageOf
<1>6. Max({0, d}) = left /\ Min({left, take}) = IF left <= take THEN left ELSE take
  <2>1. PICK z \in Int : z = 0
    OBVIOUS
  <2>2. Max({z, d}) = IF z >= d THEN z ELSE d
    BY <2>1, <1>3, OfTwo
  <2>3. left \in Int /\ take \in Int
    BY <1>4
  <2>4. Min({left, take}) = IF left <= take THEN left ELSE take
    BY <2>3, OfTwo
  <2> QED
    BY <1>3, <1>4, <2>1, <2>2, <2>4
<1>7. Len(pg) = PageLength(Cardinality(K), skip, take)
  BY <1>1, <1>3, <1>5, <1>6 DEF PageLength
<1>8. ASSUME NEW k \in DOMAIN pg
      PROVE  pg[k] \in K /\ Cardinality(Ahead(key, K, pg[k])) = skip + k - 1
  <2>1. k \in Nat /\ skip + k \in 1..Len(s) /\ pg[k] = s[skip + k]
    BY <1>4, <1>5
  <2>2. pg[k] \in K
    BY <1>2, <2>1
  <2>3. Cardinality(Ahead(key, K, s[skip + k])) = (skip + k) - 1
    BY <1>1, <2>1
  <2> QED
    BY <2>1, <2>2, <2>3
<1> QED
  BY <1>7, <1>8

\* A page is the page the query asks for.
LEMMA PagesAsked == ReadsInv => PagesAreThePageAsked
<1> SUFFICES ASSUME ReadsInv, answer.kind = "page", answer.query.op # "join",
                    answer.query.target # "aggregate", OfOneShape
             PROVE  /\ Len(answer.page) = PageSize
                    /\ \A k \in DOMAIN answer.page :
                         answer.page[k] \in Wanted /\ Rank(answer.page[k]) = Skipped + k - 1
  BY DEF PagesAreThePageAsked
<1>1. IsTable(rows) /\ Whole(rows)
  BY RowsAreATable, OneShapeIsWhole
<1>2. PICK q \in CompilingQueries, p \in ReadValues :
        /\ q.op # "join"
        /\ answer.query = q /\ answer.param = p /\ answer.seen = Len(rows)
        /\ answer.kind = Result(backend, rows, q, p).kind
        /\ answer.page = Result(backend, rows, q, p).page
  BY WhatWasRead
<1> DEFINE W == Asked(rows, q, p)
           s == Sorted(rows, q, p, W)
           skip == Number(q, "skip")
           take == Number(q, "take")
<1>3. q \in Queries /\ ensureListClausesWellFormed(q)
  BY <1>2, AcceptedShapes
<1>4. \A kw \in {"where", "orderBy", "skip", "take"} : AtMostOne(q, kw)
  BY <1>3 DEF ensureListClausesWellFormed
<1>5. /\ answer.page = paginate(s, skip, take)
      /\ ~ \E i, j \in W : i # j /\ KeyFails(rows, q, i, p)
  BY <1>1, <1>2, InterpretersAgree
<1>6. /\ \A kw : AskedClauses(kw) = Said(q, kw)
      /\ \A i : AskedEnv(i) = Env(rows, i, p)
      /\ Wanted = W
      /\ AskedNumber("skip") = skip /\ AskedNumber("take") = take
  BY <1>2, <1>3, <1>4, AskedIsSaid
<1>7. skip \in Nat /\ take \in Nat
  BY <1>3, <1>4, NumberSaid
<1>8. /\ W \in SUBSET DOMAIN rows /\ W \in SUBSET Nat
      /\ \A i \in W : i \in Nat /\ i >= 1 /\ i <= Len(rows)
  BY <1>1 DEF Asked, IsTable
<1>9. PICK key :
        /\ Compares(key, rows, q, p, W)
        /\ \A i, j \in W : i # j =>
             (key[i] < key[j] <=>
                \E c \in Said(q, "orderBy") :
                  IF c.desc THEN Value(c.expr, Env(rows, j, p)) < Value(c.expr, Env(rows, i, p))
                            ELSE Value(c.expr, Env(rows, i, p)) < Value(c.expr, Env(rows, j, p)))
  <2>1. Clause(q, "orderBy") # NoExpr => Orderable(KeyType(Clause(q, "orderBy")))
    BY AcceptedShapes
  <2> HIDE DEF W
  <2> QED
    BY <1>1, <1>2, <1>3, <1>4, <1>5, <1>8, <2>1, OrderSaid
<1>10. InKeyOrder(s, W, key) /\ \A i \in W : key[i] \in Int
  BY <1>1, <1>8, <1>9, SortedInOrder DEF IsTable, Compares
<1>11. /\ Len(answer.page) = PageLength(Cardinality(W), skip, take)
       /\ \A k \in DOMAIN answer.page :
            /\ answer.page[k] \in W
            /\ Cardinality(Ahead(key, W, answer.page[k])) = skip + k - 1
  <2> HIDE DEF W, s, skip, take
  <2>1. Keyed(key, W)
    BY <1>8, <1>10 DEF Keyed
  <2>2. InKeyOrder(s, W, key)
    BY <1>10
  <2>3. answer.page = paginate(s, skip, take)
    BY <1>5
  <2>4. Len(answer.page) = PageLength(Cardinality(W), skip, take)
    BY <2>1, <2>2, <2>3, <1>7, RankedPage
  <2>5. \A k \in DOMAIN answer.page :
          answer.page[k] \in W /\ Cardinality(Ahead(key, W, answer.page[k])) = skip + k - 1
    BY <2>1, <2>2, <2>3, <1>7, RankedPage
  <2> QED
    BY <2>4, <2>5
<1>12. \A i, j \in W : i # j => (Precedes(i, j) <=> Before(key, i, j))
  BY <1>6, <1>9, <1>10, <1>8 DEF Precedes, Before
<1>13. Len(answer.page) = PageSize
  BY <1>6, <1>11 DEF PageSize, PageLength, Skipped
<1>14. ASSUME NEW k \in DOMAIN answer.page
       PROVE  answer.page[k] \in Wanted /\ Rank(answer.page[k]) = Skipped + k - 1
  <2>1. answer.page[k] \in W
    BY <1>11
  <2>2. {j \in W \ {answer.page[k]} : Precedes(j, answer.page[k])}
          = Ahead(key, W, answer.page[k])
    BY <1>12, <2>1 DEF Ahead
  <2> QED
    BY <1>6, <1>11, <2>1, <2>2 DEF Rank, Skipped
<1> QED
  BY <1>13, <1>14

\* What Only has kept of the first i elements of s.
Keeps(t, s, S, T, i) ==
    /\ t \in Seq(T)
    /\ \A k \in 1..Len(t) : t[k] \in S /\ \E a \in 1..i : s[a] = t[k]
    /\ \A a \in 1..i : s[a] \in S => \E k \in 1..Len(t) : t[k] = s[a]
    /\ \A k, l \in 1..Len(t) : t[k] = t[l] => k = l

\* Each element of a set that is in s is in t, once, and no other.
KeptOf(t, s, S) ==
    /\ Len(t) \in Nat /\ DOMAIN t = 1..Len(t)
    /\ \A k \in 1..Len(t) : t[k] \in S
    /\ \A i \in 1..Len(s) : s[i] \in S => \E k \in 1..Len(t) : t[k] = s[i]
    /\ \A k, l \in 1..Len(t) : t[k] = t[l] => k = l

\* Of a sequence without repetitions, Only keeps each element of the set, once, and no other.
LEMMA OnlyKeeps ==
    ASSUME NEW T, NEW s \in Seq(T), NEW S, \A i, j \in 1..Len(s) : s[i] = s[j] => i = j
    PROVE  KeptOf(Only(s, S), s, S)
<1>1. PICK n \in Nat : n = Len(s) /\ \A i \in 1..n : s[i] \in T
  BY LenProperties, ElementOfSeq
<1>2. PICK f : Walks(f, s, S) /\ Only(s, S) = f[n]
  BY <1>1, OnlyWalks
<1>3. f[0] = <<>> /\ \A i \in 1..n : f[i] = IF s[i] \in S THEN Append(f[i - 1], s[i]) ELSE f[i - 1]
  BY <1>1, <1>2, WalkSteps
<1> DEFINE Good == {i \in Nat : i <= n => Keeps(f[i], s, S, T, i)}
<1>4. 0 \in Good
  <2>1. Keeps(<<>>, s, S, T, 0)
    BY DEF Keeps
  <2> QED BY <1>3, <2>1
<1>5. ASSUME NEW i \in Nat, i \in Good PROVE i + 1 \in Good
  <2> SUFFICES ASSUME i + 1 <= n PROVE Keeps(f[i + 1], s, S, T, i + 1)
    OBVIOUS
  <2>1. Keeps(f[i], s, S, T, i)
    BY <1>5
  <2>2. PICK k \in 1..n : k = i + 1 /\ k - 1 = i
    OBVIOUS
  <2>3. f[k] = IF s[k] \in S THEN Append(f[k - 1], s[k]) ELSE f[k - 1]
    BY <1>3
  <2>4. f[k] = IF s[k] \in S THEN Append(f[i], s[k]) ELSE f[i]
    BY <2>2, <2>3, Zenon
  <2>5. s[k] \in T /\ \A a \in 1..i : a \in 1..n /\ s[a] # s[k]
    BY <1>1, <2>2
  <2>6. PICK t \in Seq(T) : t = f[i]
    BY <2>1 DEF Keeps
  <2>7. Keeps(t, s, S, T, i)
    BY <2>1, <2>6
  <2>8. CASE s[k] \notin S
    <3>1. Keeps(t, s, S, T, k)
      BY <2>2, <2>7, <2>8 DEF Keeps
    <3> QED BY <2>2, <2>4, <2>6, <2>8, <3>1, Zenon
  <2>9. CASE s[k] \in S
    <3>1. PICK u : u = Append(t, s[k])
      OBVIOUS
    <3>2. /\ u \in Seq(T) /\ Len(t) \in Nat /\ Len(u) = Len(t) + 1
          /\ u[Len(u)] = s[k] /\ \A j \in 1..Len(t) : u[j] = t[j]
      BY <2>5, <3>1, AppendProperties
    <3>3. \A j \in 1..Len(u) : j \in 1..Len(t) \/ j = Len(u)
      BY <3>2
    <3>4. \A j \in 1..Len(u) : u[j] \in S /\ \E a \in 1..k : s[a] = u[j]
      <4> SUFFICES ASSUME NEW j \in 1..Len(u) PROVE u[j] \in S /\ \E a \in 1..k : s[a] = u[j]
        OBVIOUS
      <4>1. CASE j = Len(u)
        BY <2>2, <2>9, <3>2, <4>1
      <4>2. CASE j \in 1..Len(t)
        <5>1. u[j] = t[j] /\ t[j] \in S /\ \E a \in 1..i : s[a] = t[j]
          BY <2>7, <3>2, <4>2 DEF Keeps
        <5>2. \A a \in 1..i : a \in 1..k
          BY <2>2
        <5> QED BY <5>1, <5>2
      <4> QED BY <3>3, <4>1, <4>2
    <3>5. \A a \in 1..k : s[a] \in S => \E j \in 1..Len(u) : u[j] = s[a]
      <4> SUFFICES ASSUME NEW a \in 1..k, s[a] \in S PROVE \E j \in 1..Len(u) : u[j] = s[a]
        OBVIOUS
      <4>1. CASE a = k
        BY <3>2, <4>1
      <4>2. CASE a # k
        <5>1. PICK j \in 1..Len(t) : t[j] = s[a]
          BY <2>2, <2>7, <4>2 DEF Keeps
        <5> QED BY <3>2, <5>1
      <4> QED BY <4>1, <4>2
    <3>6. \A j \in 1..Len(t) : t[j] # s[k]
      BY <2>5, <2>7 DEF Keeps
    <3>7. \A j, l \in 1..Len(u) : u[j] = u[l] => j = l
      BY <2>7, <3>2, <3>3, <3>6 DEF Keeps
    <3>8. Keeps(u, s, S, T, k)
      BY <3>2, <3>4, <3>5, <3>7 DEF Keeps
    <3> QED BY <2>2, <2>4, <2>6, <2>9, <3>1, <3>8, Zenon
  <2> QED BY <2>8, <2>9
<1> HIDE DEF Good
<1>6. n \in Good
  BY <1>4, <1>5, Induction
<1>7. Keeps(Only(s, S), s, S, T, n)
  BY <1>2, <1>6 DEF Good
<1> QED BY <1>1, <1>7, LenProperties DEF Keeps, KeptOf

\* A pair of positions is in a sequence of them.
Paired(s, a, b) == \E k \in DOMAIN s : s[k] = <<a, b>>

\* The nested loops of a join meet every pair of positions once.
LEMMA PairsCover ==
    ASSUME NEW n \in Nat, NEW m \in Nat
    PROVE  /\ Pairs(n, m) \in Seq((1..n) \X (1..m))
           /\ \A i, j \in 1..Len(Pairs(n, m)) : Pairs(n, m)[i] = Pairs(n, m)[j] => i = j
           /\ \A a \in 1..n, b \in 1..m : Paired(Pairs(n, m), a, b)
<1>1. PICK len \in Nat : len = n * m
  OBVIOUS
<1> DEFINE s == Pairs(n, m)
<1>2. /\ s = [k \in 1..len |-> <<((k - 1) \div m) + 1, ((k - 1) % m) + 1>>]
      /\ Len(s) = len /\ DOMAIN s = 1..len
  BY <1>1 DEF Pairs
<1>3. ASSUME NEW k \in 1..len
      PROVE  \E d \in 0..n - 1, r \in 0..m - 1 : k - 1 = d * m + r /\ s[k] = <<d + 1, r + 1>>
  <2>1. m \in Nat \ {0} /\ k - 1 \in Nat /\ k - 1 < n * m
    BY <1>1
  <2>2. PICK d \in Nat : d = (k - 1) \div m /\ d * m \in Nat /\ d * m <= k - 1 /\ k - 1 < d * m + m
    BY <2>1, WindowOf
  <2>3. PICK r \in 0..m - 1 : r = (k - 1) - d * m
    BY <2>2
  <2>4. (k - 1) % m = r
    BY <2>1, <2>2, <2>3
  <2>5. d < n
    <3>1. CASE n <= d
      <4>1. n * m <= d * m
        BY <3>1, TimesGrows
      <4> QED BY <2>1, <2>2, <4>1
    <3> QED BY <3>1
  <2>6. s[k] = <<d + 1, r + 1>>
    BY <1>2, <2>2, <2>4
  <2>7. d \in 0..n - 1 /\ k - 1 = d * m + r
    BY <2>2, <2>3, <2>5
  <2> QED BY <2>6, <2>7
<1>4. s \in Seq((1..n) \X (1..m))
  <2>1. ASSUME NEW k \in 1..len PROVE s[k] \in (1..n) \X (1..m)
    <3>1. PICK d \in 0..n - 1, r \in 0..m - 1 : s[k] = <<d + 1, r + 1>>
      BY <1>3
    <3>2. d + 1 \in 1..n /\ r + 1 \in 1..m
      OBVIOUS
    <3> QED BY <3>1, <3>2
  <2> QED BY <1>2, <2>1, SeqDef
<1>5. ASSUME NEW i \in 1..len, NEW j \in 1..len, s[i] = s[j] PROVE i = j
  <2>1. PICK d \in 0..n - 1, r \in 0..m - 1 : i - 1 = d * m + r /\ s[i] = <<d + 1, r + 1>>
    BY <1>3
  <2>2. PICK e \in 0..n - 1, q \in 0..m - 1 : j - 1 = e * m + q /\ s[j] = <<e + 1, q + 1>>
    BY <1>3
  <2>3. d + 1 = e + 1 /\ r + 1 = q + 1
    <3>1. s[i][1] = d + 1 /\ s[i][2] = r + 1
      BY <2>1
    <3>2. s[j][1] = e + 1 /\ s[j][2] = q + 1
      BY <2>2
    <3> QED BY <1>5, <3>1, <3>2
  <2>4. d = e /\ r = q
    BY <2>3
  <2> QED BY <2>1, <2>2, <2>4
<1>6. ASSUME NEW a \in 1..n, NEW b \in 1..m PROVE \E k \in 1..len : s[k] = <<a, b>>
  <2>1. PICK d \in Nat, r \in 0..m - 1 : d = a - 1 /\ r = b - 1
    OBVIOUS
  <2>2. d * m + m <= n * m /\ d * m \in Nat
    <3>1. (d + 1) * m <= n * m /\ (d + 1) * m = d * m + m
      BY <2>1, TimesGrows
    <3> QED BY <3>1
  <2>3. PICK k \in 1..len : k - 1 = d * m + r
    <3>1. d * m + r + 1 \in 1..len
      BY <1>1, <2>2
    <3> QED BY <3>1
  <2>4. (k - 1) \div m = d /\ (k - 1) % m = r
    BY <2>2, <2>3, OnlyWindow
  <2>5. s[k] = <<d + 1, r + 1>> /\ d + 1 = a /\ r + 1 = b
    BY <1>2, <2>1, <2>4
  <2> QED BY <2>5
<1> QED BY <1>2, <1>4, <1>5, <1>6 DEF Paired

\* The equality of two fields has no operator of a ValueObject in it.
LEMMA EqualityNeverFails ==
    ASSUME NEW e \in Terms, OnIsEquality(e)
    PROVE  \A env : ~Fails(e, env)
<1>1. /\ e[1] = "==" /\ Operands(e) = {e[2], e[3]}
      /\ \A o \in Operands(e) : o \in Terms /\ o[1] \in {"item", "other"}
  <2>1. e[1] = "==" /\ Operands(e) = {e[2], e[3]}
    BY DEF OnIsEquality, Operands, TermOperators
  <2>2. {e[2][1], e[3][1]} = {"item", "other"}
    BY DEF OnIsEquality
  <2>3. e[2][1] \in {"item", "other"} /\ e[3][1] \in {"item", "other"}
    BY <2>2
  <2> QED BY <2>1, <2>3, PartsFacts
<1>2. \A o \in Operands(e) : Operands(o) = {}
  BY <1>1 DEF Operands, TermOperators
<1>3. ASSUME NEW x \in Parts(e) PROVE x[1] # "/"
  <2>1. CASE x = e
    BY <1>1, <2>1
  <2>2. CASE \E o \in Operands(e) : x \in Parts(o)
    <3>1. PICK o \in Operands(e) : x \in Parts(o)
      BY <2>2
    <3>2. x = o
      BY <1>1, <1>2, <3>1, PartsFacts
    <3> QED BY <1>1, <3>2
  <2> QED BY <2>1, <2>2, PartsFacts
<1> QED BY <1>3, FailingPart

\* Two rows that everything a join says holds of.
Meets(q, first, second, i, j, p) ==
    \A c \in Said(q, "on") \cup Said(q, "where") :
      ~Fails(c.expr, Pair(first, second, i, j, p)) /\ Value(c.expr, Pair(first, second, i, j, p))

\* The pairs of a join of n and m rows that meet "on", and those that meet all of it.
OnMet(q, first, second, n, m, p) == Meeting(first, second, (1..n) \X (1..m), Clause(q, "on"), p)
MetPairs(q, first, second, n, m, p) ==
    Meeting(first, second, OnMet(q, first, second, n, m, p), Clause(q, "where"), p)

\* "where" fails on none of the pairs it is evaluated for.
NoneFails(q, first, second, n, m, p) ==
    Clause(q, "where") # NoExpr =>
      \A x \in OnMet(q, first, second, n, m, p) : ~Fails(Clause(q, "where"), Pair(first, second, x[1], x[2], p))

\* The filter of a join keeps the pairs of rows that meet.
LEMMA MeetingMeets ==
    ASSUME NEW q \in CompilingQueries, q.op = "join", NEW first, NEW second, NEW p, NEW n, NEW m,
           NoneFails(q, first, second, n, m, p), NEW a \in 1..n, NEW b \in 1..m
    PROVE  <<a, b>> \in MetPairs(q, first, second, n, m, p) <=> Meets(q, first, second, a, b, p)
<1> PICK onMet : onMet = OnMet(q, first, second, n, m, p)
  OBVIOUS
<1> PICK cond : cond = Clause(q, "where")
  OBVIOUS
<1> DEFINE env == Pair(first, second, a, b, p)
           on == Clause(q, "on")
<1>1. q \in Queries /\ ensureJoinClausesWellFormed(q)
  BY AcceptedShapes
<1>2. AtMostOne(q, "on") /\ AtMostOne(q, "where") /\ PlacesOf(q, "on") # {} /\ OnIsEquality(on)
  BY <1>1 DEF ensureJoinClausesWellFormed
<1>3. PICK c : Said(q, "on") = {c} /\ ClauseIsTyped(q, c) /\ c.kw = "on" /\ on = c.expr
  BY <1>1, <1>2, ClauseSaid
<1>4. on \in Terms /\ on # NoExpr
  BY <1>3, NothingIsNoTerm DEF ClauseIsTyped
<1>5. ~Fails(on, env)
  BY <1>2, <1>4, EqualityNeverFails
<1> HIDE DEF env
<1>6. <<a, b>> \in onMet <=> Value(on, env)
  BY <1>4 DEF OnMet, Meeting, env
<1>7. MetPairs(q, first, second, n, m, p) = Meeting(first, second, onMet, cond, p)
  BY DEF MetPairs
<1>8. CASE Said(q, "where") = {} /\ cond = NoExpr
  <2>1. Meets(q, first, second, a, b, p) <=> Value(on, env)
    BY <1>3, <1>5, <1>8 DEF Meets, env
  <2>2. <<a, b>> \in Meeting(first, second, onMet, cond, p) <=> <<a, b>> \in onMet
    BY <1>8 DEF Meeting
  <2> QED BY <1>6, <1>7, <2>1, <2>2
<1>9. CASE \E d : Said(q, "where") = {d} /\ ClauseIsTyped(q, d) /\ d.kw = "where" /\ cond = d.expr
  <2>1. PICK d : Said(q, "where") = {d} /\ ClauseIsTyped(q, d) /\ d.kw = "where" /\ cond = d.expr
    BY <1>9
  <2>2. cond \in Terms /\ cond # NoExpr
    BY <2>1, NothingIsNoTerm DEF ClauseIsTyped
  <2>3. <<a, b>> \in onMet => ~Fails(cond, env)
    BY <2>2 DEF NoneFails, env
  <2>4. Meets(q, first, second, a, b, p) <=> Value(on, env) /\ ~Fails(cond, env) /\ Value(cond, env)
    BY <1>3, <1>5, <2>1 DEF Meets, env
  <2>5. <<a, b>> \in Meeting(first, second, onMet, cond, p) <=> <<a, b>> \in onMet /\ Value(cond, env)
    BY <2>2 DEF Meeting, env
  <2> QED BY <1>6, <1>7, <2>3, <2>4, <2>5
<1>10. \/ Said(q, "where") = {} /\ cond = NoExpr
       \/ \E d : Said(q, "where") = {d} /\ ClauseIsTyped(q, d) /\ d.kw = "where" /\ cond = d.expr
  <2>1. \/ Said(q, "where") = {} /\ Clause(q, "where") = NoExpr
        \/ \E d : Said(q, "where") = {d} /\ ClauseIsTyped(q, d) /\ d.kw = "where" /\ Clause(q, "where") = d.expr
    BY <1>1, <1>2, ClauseSaid
  <2> QED BY <2>1
<1> HIDE DEF on
<1> QED BY <1>8, <1>9, <1>10

\* A join that does not fail pairs the rows that meet, each two of them once.
LEMMA JoinPairs ==
    ASSUME NEW q \in CompilingQueries, q.op = "join", NEW first, NEW second, Len(second) \in Nat, NEW p, NEW n \in Nat,
           NEW r, r = Joined(first, second, q, p, n), r.kind = "page"
    PROVE  /\ DOMAIN r.page = 1..Len(r.page) /\ Len(r.page) \in Nat
           /\ \A a \in 1..n, b \in 1..Len(second) :
                Meets(q, first, second, a, b, p) => Paired(r.page, a, b)
           /\ \A k \in DOMAIN r.page : Meets(q, first, second, r.page[k][1], r.page[k][2], p)
           /\ IsInjective(r.page)
<1> PICK m \in Nat : m = Len(second)
  OBVIOUS
<1> DEFINE all == (1..n) \X (1..m)
<1>3. PICK kept : kept = MetPairs(q, first, second, n, m, p)
  OBVIOUS
<1>4. NoneFails(q, first, second, n, m, p) /\ r.page = Only(Pairs(n, m), kept)
  BY <1>3 DEF Joined, Page, Failed, NoneFails, MetPairs, OnMet
<1>5. kept \subseteq all
  BY <1>3 DEF MetPairs, OnMet, Meeting
<1>6. \A a \in 1..n, b \in 1..m : <<a, b>> \in kept <=> Meets(q, first, second, a, b, p)
  BY <1>3, <1>4, MeetingMeets
<1>7. PICK s : s = Pairs(n, m)
  OBVIOUS
<1>8. /\ s \in Seq(all)
      /\ \A i, j \in 1..Len(s) : s[i] = s[j] => i = j
      /\ \A a \in 1..n, b \in 1..m : Paired(s, a, b)
  <2> HIDE DEF all
  <2>1. s \in Seq((1..n) \X (1..m))
    BY <1>7, PairsCover
  <2>2. \A i, j \in 1..Len(s) : s[i] = s[j] => i = j
    BY <1>7, PairsCover
  <2>3. \A a \in 1..n, b \in 1..m : Paired(s, a, b)
    BY <1>7, PairsCover
  <2> QED BY <2>1, <2>2, <2>3 DEF all
<1> HIDE DEF all
<1>9. PICK t : t = Only(s, kept)
  OBVIOUS
<1>10. /\ Len(t) \in Nat /\ DOMAIN t = 1..Len(t)
       /\ \A k \in 1..Len(t) : t[k] \in kept
       /\ \A i \in 1..Len(s) : s[i] \in kept => \E k \in 1..Len(t) : t[k] = s[i]
       /\ \A k, l \in 1..Len(t) : t[k] = t[l] => k = l
  <2>1. KeptOf(Only(s, kept), s, kept)
    BY <1>8, OnlyKeeps
  <2>2. KeptOf(t, s, kept)
    BY <1>9, <2>1
  <2> QED BY <2>2 DEF KeptOf
<1>11. ASSUME NEW a \in 1..n, NEW b \in 1..m, Meets(q, first, second, a, b, p)
       PROVE  Paired(t, a, b)
  <2>1. <<a, b>> \in kept
    BY <1>6, <1>11
  <2>2. PICK i \in 1..Len(s) : s[i] = <<a, b>>
    <3>1. DOMAIN s = 1..Len(s)
      BY <1>8
    <3> QED BY <1>8, <3>1 DEF Paired
  <2>3. PICK k \in 1..Len(t) : t[k] = s[i]
    BY <1>10, <2>1, <2>2
  <2> QED BY <1>10, <2>2, <2>3 DEF Paired
<1>12. ASSUME NEW k \in DOMAIN t PROVE Meets(q, first, second, t[k][1], t[k][2], p)
  <2>1. t[k] \in kept /\ t[k] \in all
    BY <1>5, <1>10
  <2>2. PICK a \in 1..n, b \in 1..m : t[k] = <<a, b>>
    BY <2>1 DEF all
  <2>3. t[k][1] = a /\ t[k][2] = b
    BY <2>2
  <2> QED BY <1>6, <2>1, <2>2, <2>3
<1>13. t = r.page /\ DOMAIN t = 1..Len(t) /\ Len(t) \in Nat
  BY <1>4, <1>7, <1>9, <1>10
<1>14. IsInjective(t)
  BY <1>10 DEF IsInjective
<1>15. \A a \in 1..n, b \in 1..Len(second) :
         Meets(q, first, second, a, b, p) => Paired(t, a, b)
  BY <1>11
<1> HIDE DEF all
<1> QED BY <1>12, <1>13, <1>14, <1>15, Zenon

\* A join misses no pair.
LEMMA JoinsAsked == ReadsInv => JoinsMissNoPair
<1> SUFFICES ASSUME ReadsInv, answer.kind = "page", answer.query.op = "join" PROVE JoinsMissNoPair
  BY DEF JoinsMissNoPair
<1>1. PICK q \in CompilingQueries, p \in ReadValues, n \in 0..Len(rows), o \in 0..Len(others) :
        /\ q.op = "join"
        /\ answer = Answered(Joined(rows, others, q, p, n), q, p, n, o)
  <2>1. answer # NoAnswer
    BY DEF NoAnswer
  <2>2. ASSUME NEW q \in CompilingQueries, NEW p \in ReadValues, q.op # "join",
               answer = Answered(Result(backend, rows, q, p), q, p, Len(rows), Len(others))
        PROVE  FALSE
    BY <2>2 DEF Answered
  <2> QED BY <2>1, <2>2 DEF ReadsInv, AnswerOfRows
<1> DEFINE r == Joined(rows, others, q, p, n)
<1>2. /\ answer.query = q /\ answer.param = p /\ answer.seen = n /\ answer.others = o
      /\ answer.page = r.page /\ r.kind = "page"
  BY <1>1 DEF Answered
<1>3. Len(rows) \in Nat /\ Len(others) \in Nat /\ n \in Nat
  BY RowsAreATable DEF IsTable
<1>4. /\ \A a \in 1..n, b \in 1..Len(others) :
           Meets(q, rows, others, a, b, p) => Paired(r.page, a, b)
      /\ \A k \in DOMAIN r.page : Meets(q, rows, others, r.page[k][1], r.page[k][2], p)
      /\ IsInjective(r.page)
  <2> HIDE DEF r
  <2>1. r = Joined(rows, others, q, p, n)
    BY DEF r
  <2>2. r.kind = "page" /\ q.op = "join" /\ n \in Nat /\ Len(others) \in Nat
    BY <1>1, <1>2, <1>3
  <2>3. \A a \in 1..n, b \in 1..Len(others) :
           Meets(q, rows, others, a, b, p) => Paired(r.page, a, b)
    BY <2>1, <2>2, JoinPairs
  <2>4. \A k \in DOMAIN r.page : Meets(q, rows, others, r.page[k][1], r.page[k][2], p)
    BY <2>1, <2>2, JoinPairs
  <2>5. IsInjective(r.page)
    BY <2>1, <2>2, JoinPairs
  <2> QED BY <2>3, <2>4, <2>5
<1>5. AskedClauses("on") \cup AskedClauses("where") = Said(q, "on") \cup Said(q, "where")
  BY <1>2 DEF AskedClauses, Said
<1>6. \A a, b : Meets(q, rows, others, a, b, p) <=>
        \A c \in AskedClauses("on") \cup AskedClauses("where") :
          ~Fails(c.expr, Pair(rows, others, a, b, answer.param)) /\ Value(c.expr, Pair(rows, others, a, b, answer.param))
  BY <1>2, <1>5 DEF Meets
<1>7. \A a \in 1..answer.seen, b \in 1..answer.others : a \in 1..n /\ b \in 1..Len(others)
  BY <1>2, <1>3
<1> HIDE DEF r
<1>8. IsInjective(answer.page)
  BY <1>2, <1>4
<1> DEFINE meets(i, j) == \A c \in AskedClauses("on") \cup AskedClauses("where") :
                            /\ ~Fails(c.expr, Pair(rows, others, i, j, answer.param))
                            /\ Value(c.expr, Pair(rows, others, i, j, answer.param))
<1>9. \A i, j : meets(i, j) <=> Meets(q, rows, others, i, j, p)
  BY <1>6
<1> HIDE DEF meets
<1>10. /\ \A i \in 1..answer.seen, j \in 1..answer.others :
            meets(i, j) => \E k \in DOMAIN answer.page : answer.page[k] = <<i, j>>
       /\ \A k \in DOMAIN answer.page : meets(answer.page[k][1], answer.page[k][2])
  <2>1. ASSUME NEW i \in 1..answer.seen, NEW j \in 1..answer.others, meets(i, j)
        PROVE  \E k \in DOMAIN answer.page : answer.page[k] = <<i, j>>
    <3>1. i \in 1..n /\ j \in 1..Len(others) /\ Meets(q, rows, others, i, j, p)
      BY <1>7, <1>9, <2>1
    <3>2. \E k \in DOMAIN r.page : r.page[k] = <<i, j>>
      BY <1>4, <3>1 DEF Paired
    <3> QED BY <1>2, <3>2
  <2>2. ASSUME NEW k \in DOMAIN answer.page PROVE meets(answer.page[k][1], answer.page[k][2])
    BY <1>2, <1>4, <1>9
  <2> QED BY <2>1, <2>2
<1> QED BY <1>8, <1>10 DEF JoinsMissNoPair, meets

\* A path of the source spells the name of the view's field it is for.
LEMMA PathsSpell ==
    ASSUME NEW shape \in {ItemShape, OtherShape}, NEW name, NEW path \in SourcePaths(shape, name)
    PROVE  path[1] \in 1..Len(shape) /\ Spells(shape, path, name)
<1>1. /\ Len(shape) \in Nat /\ DOMAIN shape = 1..Len(shape)
      /\ \A i \in DOMAIN shape : shape[i] \in Range(shape)
  BY ShapesAssumption, LenProperties DEF Range
<1>2. \A i \in DOMAIN shape : shape[i].name \in Seq(Range(shape[i].name)) /\ "" \notin shape[i].subs
  BY <1>1, ShapesAssumption
<1>3. CASE \E i \in DOMAIN shape : shape[i].name = name /\ path = <<i, "">>
  <2>1. PICK i \in DOMAIN shape : shape[i].name = name /\ path = <<i, "">>
    BY <1>3
  <2>2. path[1] = i /\ path[2] = ""
    BY <2>1
  <2>3. name \o <<>> = name
    BY <1>2, <2>1, ConcatEmptySeq
  <2> QED BY <1>1, <2>1, <2>2, <2>3 DEF Spells
<1>4. CASE path \in FlattenedPaths(shape, name)
  <2>1. PICK i \in DOMAIN shape : path \in {i} \X shape[i].subs
    BY <1>4 DEF FlattenedPaths
  <2>2. PICK sub \in shape[i].subs : path = <<i, sub>>
    BY <2>1
  <2>3. path[1] = i /\ path[2] = sub /\ sub # ""
    BY <1>2, <2>2
  <2>4. shape[path[1]].name \o <<path[2]>> = name
    BY <1>4 DEF FlattenedPaths
  <2> QED BY <1>1, <2>3, <2>4 DEF Spells
<1> QED BY <1>3, <1>4 DEF SourcePaths

\* A name that one source offers has a path in it.
LEMMA OfferedHasPath ==
    ASSUME NEW shape \in {ItemShape, OtherShape}, NEW name, Offers(shape, name)
    PROVE  SourcePaths(shape, name) # {}
<1>0. PICK i \in DOMAIN shape : \E sub \in shape[i].subs \cup {""} : Spells(shape, <<i, sub>>, name)
  BY DEF Offers
<1>1. PICK sub \in shape[i].subs \cup {""} : Spells(shape, <<i, sub>>, name)
  BY <1>0
<1>2. <<i, sub>>[1] = i /\ <<i, sub>>[2] = sub
  OBVIOUS
<1>3. CASE sub = ""
  <2>1. shape[i].name \in Seq(Range(shape[i].name))
    <3>1. shape[i] \in Range(shape)
      BY DEF Range
    <3> QED BY <3>1, ShapesAssumption
  <2>2. shape[i].name \o <<>> = name
    BY <1>1, <1>2, <1>3 DEF Spells
  <2>3. shape[i].name = name
    BY <2>1, <2>2, ConcatEmptySeq
  <2> QED BY <2>3 DEF SourcePaths
<1>4. CASE sub # ""
  <2>1. shape[i].name \o <<sub>> = name /\ sub \in shape[i].subs
    BY <1>1, <1>2, <1>4 DEF Spells
  <2>2. <<i, sub>> \in {i} \X shape[i].subs
    BY <2>1
  <2>3. <<i, sub>> \in FlattenedPaths(shape, name)
    BY <1>2, <2>1, <2>2 DEF FlattenedPaths
  <2> QED BY <2>3 DEF SourcePaths
<1> QED BY <1>3, <1>4

\* A view's field is assigned from a path that spells its name.
LEMMA AssignedSpells ==
    ASSUME NEW shape \in {ItemShape, OtherShape}, NEW name, SourcePaths(shape, name) # {}, NEW alias
    PROVE  /\ Assign(alias, SourcePaths(shape, name)).alias = alias
           /\ Spells(shape, Assign(alias, SourcePaths(shape, name)).path, name)
<1>1. PICK paths : paths = SourcePaths(shape, name)
  OBVIOUS
<1>2. PICK n \in Nat : n = Len(shape)
  BY ShapesAssumption, LenProperties
<1>3. \A path \in paths : path[1] \in 1..n /\ Spells(shape, path, name)
  BY <1>1, <1>2, PathsSpell
<1> DEFINE S == {n - path[1] : path \in paths}
<1>4. S \in SUBSET (0..n) /\ S # {}
  BY <1>1, <1>3
<1>5. Max(S) \in S /\ \A y \in S : Max(S) >= y
  <2> HIDE DEF S
  <2> QED BY <1>4, Largest
<1>6. PICK first \in paths : Max(S) = n - first[1]
  BY <1>5
<1>7. \A path \in paths : first[1] <= path[1]
  <2> SUFFICES ASSUME NEW path \in paths PROVE first[1] <= path[1]
    OBVIOUS
  <2>1. n - first[1] >= n - path[1]
    BY <1>5, <1>6
  <2> QED BY <1>3, <2>1
<1>8. (CHOOSE path \in paths : \A o \in paths : path[1] <= o[1]) \in paths
  BY <1>7
<1>9. Assign(alias, paths).path \in paths /\ Assign(alias, paths).alias = alias
  BY <1>8 DEF Assign
<1> QED BY <1>1, <1>3, <1>9

\* The fields of a view have one source.
LEMMA ViewsAsked == ReadsInv => ViewFieldsHaveOneSource
<1> SUFFICES ASSUME ReadsInv, answer.kind = "page", NEW name \in answer.query.view
             PROVE  LET a == answer.columns[name] IN
                    /\ Spells(IF a.alias = "item" THEN ItemShape ELSE OtherShape, a.path, name)
                    /\ answer.query.op = "join" => ~(Offers(ItemShape, name) /\ Offers(OtherShape, name))
  BY DEF ViewFieldsHaveOneSource
<1>1. PICK q \in CompilingQueries : answer.query = q /\ answer.columns = Projection(q)
  <2>1. answer # NoAnswer
    BY DEF NoAnswer
  <2> QED BY <2>1 DEF ReadsInv, AnswerOfRows, Answered
<1>2. name \in q.view /\ Projects(q)
  <2>1. name \in q.view /\ q.view # NoView
    BY <1>1 DEF NoView
  <2> QED BY <2>1, AcceptedShapes
<1> DEFINE item == SourcePaths(ItemShape, name)
           other == SourcePaths(OtherShape, name)
<1>3. IF q.op = "join" THEN (item # {}) # (other # {}) ELSE item # {}
  BY <1>2 DEF Projects
<1>4. q.op = "join" => ~(Offers(ItemShape, name) /\ Offers(OtherShape, name))
  BY <1>3, OfferedHasPath
<1>5. answer.columns[name] = IF item # {} THEN Assign("item", item) ELSE Assign("other", other)
  BY <1>1, <1>2 DEF Projection
<1>6. CASE item # {}
  <2>1. Assign("item", item).alias = "item" /\ Spells(ItemShape, Assign("item", item).path, name)
    BY <1>6, AssignedSpells
  <2>2. answer.columns[name] = Assign("item", item)
    BY <1>5, <1>6
  <2> HIDE DEF item
  <2> QED BY <1>1, <1>4, <2>1, <2>2
<1>7. CASE item = {}
  <2>1. other # {}
    BY <1>3, <1>7
  <2>2. Assign("other", other).alias = "other" /\ Spells(OtherShape, Assign("other", other).path, name)
    BY <2>1, AssignedSpells
  <2>3. answer.columns[name] = Assign("other", other)
    BY <1>5, <1>7
  <2> HIDE DEF other
  <2> QED BY <1>1, <1>4, <2>2, <2>3
<1> QED BY <1>6, <1>7

\* The types of the reads.
LEMMA ReadsTyped == ReadsInv => ReadsTypeOK
<1> SUFFICES ASSUME ReadsInv PROVE ReadsTypeOK
  OBVIOUS
<1>1. IsTable(rows) /\ Len(others) \in Nat
  BY RowsAreATable
<1>2. /\ backend \in {"memory", "sql"} /\ release \in 1..2
      /\ Len(rows) <= MaxRows /\ \A i \in DOMAIN rows : rows[i] \in [ReadFields -> ReadValues \cup {Absent}]
      /\ Len(others) <= MaxOthers /\ \A j \in DOMAIN others : others[j] \in [ReadFields -> ReadValues]
  <2>1. \A j \in DOMAIN others : others[j] \in [ReadFields -> ReadValues]
    BY LenProperties, ElementOfSeq DEF ReadsInv, StoredRows
  <2> QED BY <1>1, <2>1 DEF ReadsInv, StoredRows, IsTable
<1>3. reading.on => reading.items \in 0..Len(rows) /\ reading.others \in 0..Len(others)
  BY DEF ReadsInv, ReadingOfJoin, NoReading
<1>4. answer.kind \in {"none", "error", "page", "count"}
  <2>1. CASE answer = NoAnswer
    BY <2>1 DEF NoAnswer
  <2>2. ASSUME NEW q \in CompilingQueries, NEW p \in ReadValues, q.op # "join",
               answer = Answered(Result(backend, rows, q, p), q, p, Len(rows), Len(others))
        PROVE  answer.kind \in {"none", "error", "page", "count"}
    <3>1. answer.kind = Result(backend, rows, q, p).kind
      BY <2>2 DEF Answered
    <3>2. CASE q.target = "aggregate"
      BY <3>1, <3>2 DEF Result, Page
    <3>3. CASE q.target # "aggregate"
      BY <1>1, <2>2, <3>1, <3>3, InterpretersAgree
    <3> QED BY <3>2, <3>3
  <2>3. ASSUME NEW q \in CompilingQueries, NEW p \in ReadValues, NEW i \in 0..Len(rows), NEW o \in 0..Len(others),
               answer = Answered(Joined(rows, others, q, p, i), q, p, i, o)
        PROVE  answer.kind \in {"none", "error", "page", "count"}
    BY <2>3, JoinsAnswerPages DEF Answered
  <2> QED BY <2>1, <2>2, <2>3 DEF ReadsInv, AnswerOfRows
<1> QED BY <1>2, <1>3, <1>4 DEF ReadsTypeOK

\* A read, a count or a join that the generator accepts answers what its clauses say, over
\* either backend, or fails: of any queries, rows and releases.
THEOREM AnsweredReads == ReadsSpec => []ReadsAnswerTheQuery
<1>1. ReadsInv => ReadsAnswerTheQuery
  BY ReadsTyped, PagesAsked, ReadsFail, JoinsAsked, ViewsAsked DEF ReadsAnswerTheQuery
<1> QED BY <1>1, ReadsInvInit, ReadsInvStep, PTL DEF ReadsSpec
=============================================================================
