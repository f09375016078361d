------------------------------ MODULE RateLimit ------------------------------
(***************************************************************************)
(* Rate limiting of one route: the plan the generator resolves for it      *)
(* (codegen/ratelimit.go), the limiters of the runtime in memory           *)
(* (codegen/rtsrc/ratelimit.go.txt) and over Redis with their local        *)
(* fallback (codegen/redisrt/ratelimit.go.txt), and the requests that pass *)
(* its dimensions one after the other.                                     *)
(*                                                                         *)
(* Time is counted in ticks, and a tick is the second of Retry-After.      *)
(* Tokens are counted in fractions of one request: a tick earns rule.count *)
(* of them and a request costs rule.period.                                *)
(***************************************************************************)
EXTENDS Lists, FiniteSets, SequencesExt, FiniteSetsExt

CONSTANTS
    LimitedRequests,
    ClientOf,       \* LimitedRequests -> who sends it: [ip, user, tier], where user and tier may be Nobody
    Replicas,
    RouteSetups,    \* the declarations tried: [iface, route, mod], see Plan
    TierRules,      \* RateLimitTier declarations: tier -> (dimension -> rate)
    StalePeriods,   \* 10 in the code
    SweepEvery,     \* 256 in the code
    MaxTime,        \* bound of the clock
    Nobody

ASSUME RateBoundsAssumption ==
    StalePeriods \in Nat \ {0} /\ SweepEvery \in Nat \ {0} /\ MaxTime \in Nat
ASSUME RateNamesAssumption == "redis" \notin Replicas /\ Nobody \notin DOMAIN TierRules
\* A dimension is declared with a RATE literal: a count and a unit of time.
ASSUME RatesAssumption ==
    /\ \A s \in RouteSetups : s.iface.burst \in Int /\ s.route.burst \in Int
    /\ \A dims \in (UNION {{s.iface.dims, s.route.dims} : s \in RouteSetups})
                       \cup {TierRules[t] : t \in DOMAIN TierRules} :
          \A d \in DOMAIN dims : dims[d] \in [count : Nat, period : Nat \ {0}]

-----------------------------------------------------------------------------
(* The plan of a route. A "rateLimit" entry is NoConfig (absent), or the   *)
(* record [byTier, dims, burst]; burst 0 is "not declared".                *)

NoConfig == [byTier |-> FALSE, dims |-> <<>>, burst |-> -1]
\* A map after m[k] = v.
Put(m, k, v) == [x \in DOMAIN m \cup {k} |-> IF x = k THEN v ELSE m[x]]
\* The declarations of one level over those of another.
Over(high, low) == [d \in DOMAIN high \cup DOMAIN low |-> IF d \in DOMAIN high THEN high[d] ELSE low[d]]

DimensionOrder == <<"perIp", "perUser", "perTenant", "perApiKey", "global">>
NoPlan == [error |-> FALSE, tiers |-> <<>>]
RatePlanError == [error |-> TRUE, tiers |-> <<>>]

\* Mutant: the Interface wins over the route.
mergeInterfaceWinsMutant(iface, route) ==
    IF route.byTier \/ (route = NoConfig /\ iface.byTier)
    THEN [byTier |-> TRUE, dims |-> <<>>, burst |-> 0]
    ELSE [byTier |-> FALSE, dims |-> Over(iface.dims, route.dims),
          burst |-> IF route.burst > 0 THEN route.burst ELSE Max({iface.burst, 0})]

\* What a route declares replaces what its Interface declares, dimension by dimension;
\* byTier excludes the flat dimensions.
mergeRateLimitConfig(iface, route) ==
    IF route.byTier \/ (route = NoConfig /\ iface.byTier)
    THEN [byTier |-> TRUE, dims |-> <<>>, burst |-> 0]
    ELSE [byTier |-> FALSE, dims |-> Over(route.dims, iface.dims),
          burst |-> IF route.burst > 0 THEN route.burst ELSE Max({iface.burst, 0})]

\* The rules of one set of dimensions, in the canonical order.
rateLimitRulesFromDims(dims) ==
    LET present == Only(DimensionOrder, DOMAIN dims)
    IN  [i \in DOMAIN present |-> [dim |-> present[i], rate |-> dims[present[i]]]]

\* A plan holds one list of rules per tier; a flat route has the one list of "Nobody".
planRouteRateLimit(iface, route, mod) ==
    LET cfg == mergeRateLimitConfig(iface, route)
        lists == IF cfg.byTier THEN [t \in DOMAIN TierRules |-> rateLimitRulesFromDims(TierRules[t])]
                 ELSE [t \in {Nobody} |-> rateLimitRulesFromDims(cfg.dims)]
    IN  IF iface = NoConfig /\ route = NoConfig THEN NoPlan
        ELSE IF DOMAIN lists = {} \/ \E t \in DOMAIN lists : lists[t] = <<>> THEN RatePlanError
        ELSE [error |-> FALSE, tiers |-> lists, byTier |-> cfg.byTier, burst |-> cfg.burst,
              algorithm |-> mod.algorithm, backend |-> mod.backend]

PlanOf(setup) == planRouteRateLimit(setup.iface, setup.route, setup.mod)

-----------------------------------------------------------------------------
(* One Allow of one limiter, as the entry and the answer it leaves.        *)

NoEntry == [last |-> -1]
CeilDiv(a, b) == (a + b - 1) \div b

\* NewLimiter: no limiter lets less than one request of a period through, and the
\* burst that nobody declared is the rate's count.
Normal(rate) == [rate EXCEPT !.count = Max({1, @})]
BurstOf(declared, rate) == IF declared > 0 THEN declared ELSE rate.count
\* tokenBucketLimiter.Allow.
TokenAllow(e, rate, burst, t) ==
    LET cap == burst * rate.period
        full == IF e = NoEntry THEN cap
                ELSE Min({cap, e.tokens + (t - e.last) * rate.count})
        ok == full >= rate.period
        left == IF ok THEN full - rate.period ELSE full
    IN  [entry |-> [tokens |-> left, last |-> t], allowed |-> ok, remaining |-> left \div rate.period,
         retryAfter |-> IF ok THEN 0 ELSE CeilDiv(rate.period - left, rate.count)]

\* Mutant: a hit exactly one period old still counts.
SlidingStaysMutant(e, rate, t) ==
    LET live == IF e = NoEntry THEN <<>> ELSE Only(e.hits, {h \in ToSet(e.hits) : h >= t - rate.period})
        ok == Len(live) < rate.count
        hits == IF ok THEN Append(live, t) ELSE live
    IN  [entry |-> [hits |-> hits, last |-> t], allowed |-> ok, remaining |-> rate.count - Len(hits),
         retryAfter |-> IF ok THEN 0 ELSE live[1] + rate.period - t]

\* slidingWindowLimiter.Allow.
SlidingAllow(e, rate, t) ==
    LET live == IF e = NoEntry THEN <<>> ELSE Only(e.hits, {h \in ToSet(e.hits) : h > t - rate.period})
        ok == Len(live) < rate.count
        hits == IF ok THEN Append(live, t) ELSE live
    IN  [entry |-> [hits |-> hits, last |-> t], allowed |-> ok, remaining |-> rate.count - Len(hits),
         retryAfter |-> IF ok THEN 0 ELSE live[1] + rate.period - t]

\* fixedWindowLimiter.Allow: windows are aligned to absolute time.
FixedAllow(e, rate, t) ==
    LET window == (t \div rate.period) * rate.period
        count == IF e = NoEntry \/ e.window # window THEN 0 ELSE e.count
        ok == count < rate.count
        now == IF ok THEN count + 1 ELSE count
    IN  [entry |-> [window |-> window, count |-> now, last |-> t], allowed |-> ok,
         remaining |-> rate.count - now, retryAfter |-> IF ok THEN 0 ELSE window + rate.period - t]

Allow(plan, e, rate, t) ==
    CASE plan.algorithm = "sliding_window" -> SlidingAllow(e, rate, t)
      [] plan.algorithm = "fixed_window" -> FixedAllow(e, rate, t)
      [] OTHER -> TokenAllow(e, rate, BurstOf(plan.burst, rate), t)

staleAfter(rate) == StalePeriods * rate.period

-----------------------------------------------------------------------------
VARIABLES
    setup,          \* what the route, its Interface and its module declare
    plan,           \* planRouteRateLimit of it
    clock,
    connected,      \* replicas whose limiters opened Redis when they started
    store,          \* <<place, tier, dimension, key>> -> entry; a place is a replica or "redis"
    calls,          \* <<replica, tier, dimension>> -> calls of that limiter since its last sweep
    request,        \* each request on its way through CheckRateLimits
    admissions  \* history: for each entry, who was let through and when

rateVars == <<setup, plan, clock, connected, store, calls, request, admissions>>

NoResult == [remaining |-> -1, retryAfter |-> 0]
Waiting == [stage |-> "new", replica |-> Nobody, checks |-> <<>>, result |-> NoResult]
Lookup(f, k, default) == IF k \in DOMAIN f THEN f[k] ELSE default

RateInit ==
    /\ setup \in RouteSetups
    /\ plan = PlanOf(setup) /\ plan # NoPlan /\ plan # RatePlanError
    /\ clock = 0
    /\ connected \in (IF setup.mod.backend = "redis" THEN SUBSET Replicas ELSE {{}})
    /\ store = <<>> /\ calls = <<>> /\ admissions = <<>>
    /\ request = [q \in LimitedRequests |-> Waiting]

\* The dimensions of a request whose identity it carries; a request of an unknown tier
\* (or of none) has none on a byTier route.
ChecksOf(q) ==
    LET client == ClientOf[q]
        tier == IF plan.byTier THEN client.tier ELSE Nobody
    IN  IF tier \notin DOMAIN plan.tiers THEN <<>>
        ELSE LET rules == plan.tiers[tier]
                 known == Only(rules, {r \in ToSet(rules) : client[r.dim] # Nobody})
             IN  [i \in DOMAIN known |-> [tier |-> tier, dim |-> known[i].dim, rate |-> Normal(known[i].rate)]]

\* The route's handler reaches CheckRateLimits; without a check it goes through.
StartChecks(q) ==
    /\ request[q].stage = "new"
    /\ \E r \in Replicas :
          request' = [request EXCEPT ![q] =
              [stage |-> IF ChecksOf(q) = <<>> THEN "admitted" ELSE "checking",
               replica |-> r, checks |-> ChecksOf(q), result |-> NoResult]]
    /\ UNCHANGED <<setup, plan, clock, connected, store, calls, admissions>>

\* Mutant: a denied dimension does not end the loop.
AfterCheckGoesOnMutant(rq, answer) ==
    [rq EXCEPT !.stage = IF Len(rq.checks) = 1 THEN "admitted" ELSE "checking",
               !.checks = Tail(@)]

\* What CheckRateLimits makes of one answer: the first result with the fewest requests
\* left is kept, and the first denial ends it.
AfterCheck(rq, answer) ==
    [rq EXCEPT
        !.stage = IF ~answer.allowed THEN "denied"
                  ELSE IF Len(rq.checks) = 1 THEN "admitted" ELSE "checking",
        !.checks = Tail(@),
        !.result = IF @ = NoResult \/ answer.remaining < @.remaining
                   THEN [remaining |-> answer.remaining, retryAfter |-> answer.retryAfter] ELSE @]

ChargeBucket(q, place, c, answer) ==
    LET k == <<place, c.tier, c.dim, ClientOf[q][c.dim]>> IN
    /\ request' = [request EXCEPT ![q] = AfterCheck(@, answer)]
    /\ admissions' = IF answer.allowed
                     THEN Put(admissions, k, Append(Lookup(admissions, k, <<>>), [by |-> q, t |-> clock]))
                     ELSE admissions

\* The keys a sweep of limiter L takes away. An idle key of a sliding window keeps its
\* hits (nobody prunes them), and keys that have hits stay.
Swept(L, rate, entries) ==
    {k \in DOMAIN entries :
        /\ <<k[1], k[2], k[3]>> = L
        /\ plan.algorithm = "sliding_window" => entries[k].hits = <<>>
        /\ clock - entries[k].last > staleAfter(rate)}

\* Mutant: the calls are not counted anew after a sweep.
CallsSinceSweepMutant(n) == n

\* Every SweepEvery-th call of a limiter sweeps it and the count starts again.
CallsSinceSweep(n) == n % SweepEvery

\* One dimension is asked in the replica: the module has no Redis, Redis was not there
\* when the replica started, or this call of it failed.
CheckLocally(q) ==
    LET rq == request[q]
        c == Head(rq.checks)
        L == <<rq.replica, c.tier, c.dim>>
        k == <<rq.replica, c.tier, c.dim, ClientOf[q][c.dim]>>
        answer == Allow(plan, Lookup(store, k, NoEntry), c.rate, clock)
        n == Lookup(calls, L, 0) + 1
        kept == Put(store, k, answer.entry)
    IN  /\ rq.stage = "checking"
        /\ ChargeBucket(q, rq.replica, c, answer)
        /\ calls' = Put(calls, L, CallsSinceSweep(n))
        /\ store' = IF CallsSinceSweep(n) = 0 THEN Restrict(kept, DOMAIN kept \ Swept(L, c.rate, kept)) ELSE kept
        /\ UNCHANGED <<setup, plan, clock, connected>>

\* One dimension is asked in Redis: one script, on keys that expire.
CheckInRedis(q) ==
    LET rq == request[q]
        c == Head(rq.checks)
        k == <<"redis", c.tier, c.dim, ClientOf[q][c.dim]>>
        stored == Lookup(store, k, NoEntry)
        live == IF stored # NoEntry /\ clock - stored.last >= staleAfter(c.rate) THEN NoEntry ELSE stored
        answer == Allow(plan, live, c.rate, clock)
    IN  /\ rq.stage = "checking" /\ rq.replica \in connected
        /\ ChargeBucket(q, "redis", c, answer)
        /\ store' = Put(store, k, answer.entry)
        /\ UNCHANGED <<setup, plan, clock, connected, calls>>

RateTick ==
    /\ clock < MaxTime
    /\ clock' = clock + 1
    /\ UNCHANGED <<setup, plan, connected, store, calls, request, admissions>>

RateNext ==
    \/ \E q \in LimitedRequests : StartChecks(q) \/ CheckLocally(q) \/ CheckInRedis(q)
    \/ RateTick

RateSpec == RateInit /\ [][RateNext]_rateVars

-----------------------------------------------------------------------------
\* The rate somebody declared for a dimension: the route's own, or its Interface's.
Declared(tier, dim) ==
    Normal(IF tier # Nobody THEN TierRules[tier][dim]
           ELSE IF dim \in DOMAIN setup.route.dims THEN setup.route.dims[dim]
           ELSE setup.iface.dims[dim])

\* Types of the limiter's state.
RateTypeOK ==
    /\ clock \in 0..MaxTime
    /\ connected \subseteq Replicas
    /\ \A k \in DOMAIN store : k[1] \in Replicas \union {"redis"} /\ store[k].last \in 0..clock
    /\ \A L \in DOMAIN calls : calls[L] \in 0..(SweepEvery - 1)
    /\ \A q \in LimitedRequests : request[q].stage \in {"new", "checking", "denied", "admitted"}

\* Whatever is forgotten, swept, expired or refilled in between, an entry lets no more
\* requests through than its declared rate: in any period (sliding window), in each
\* aligned window (fixed window), in any interval beyond the burst (token bucket, as
\* long as staleAfter is enough to refill the burst).
AdmissionsWithinRate ==
    \A k \in DOMAIN admissions :
        LET a == admissions[k]
            rate == Declared(k[2], k[3])
            burst == BurstOf(plan.burst, rate)
        IN  CASE plan.algorithm = "sliding_window" ->
                   \A i, j \in DOMAIN a : j = i + rate.count => a[j].t - a[i].t >= rate.period
              [] plan.algorithm = "fixed_window" ->
                   \A i, j \in DOMAIN a : j = i + rate.count => a[j].t \div rate.period > a[i].t \div rate.period
              [] OTHER -> burst <= StalePeriods * rate.count =>
                   \A i, j \in DOMAIN a : i <= j =>
                       (j - i + 1) * rate.period <= burst * rate.period + (a[j].t - a[i].t) * rate.count

\* The waiting time a limiter answers with is exact: when nobody else spends in the
\* meantime, the same key is let through after it and not a tick before.
RetryAfterIsExact ==
    \A k \in DOMAIN store :
        LET rate == Declared(k[2], k[3])
            now == Allow(plan, store[k], rate, clock)
            then(d) == Allow(plan, store[k], rate, clock + d)
        IN  ~now.allowed => /\ now.retryAfter > 0 /\ then(now.retryAfter).allowed
                            /\ \A d \in 0..(now.retryAfter - 1) : ~then(d).allowed

\* "Every dimension has to pass": a request that was let through was let through by each
\* dimension that its plan has and whose identity it carries.
AdmittedByEveryDimension ==
    \A q \in LimitedRequests : request[q].stage = "admitted" =>
        \A c \in ToSet(ChecksOf(q)) : \E k \in DOMAIN admissions :
            /\ k[2] = c.tier /\ k[3] = c.dim /\ k[4] = ClientOf[q][c.dim]
            /\ \E i \in DOMAIN admissions[k] : admissions[k][i].by = q

\* The limits a Module or a tier declares hold for each of their dimensions.
LimitsHold == RateTypeOK /\ AdmissionsWithinRate /\ AdmittedByEveryDimension

\* What the comment of RateLimitResult says of a denied request: its RetryAfter shapes
\* Retry-After. CheckRateLimits keeps the first of two results with nothing left, and
\* that may be the one of a dimension that let the request through.
DeniedTellsWhenToRetry ==
    \A q \in LimitedRequests : request[q].stage = "denied" => request[q].result.retryAfter > 0
=============================================================================
