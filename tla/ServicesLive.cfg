SPECIFICATION LiveSpec
CONSTANTS
  sc1 = sc1
  sc2 = sc2
  sc3 = sc3
  wk1 = wk1
  NoKey = NoKey
  SagaCalls = {sc1, sc2}
  SagaKeyOf <- MCSagaKeyOf
  SagaDecls <- MCSagaDecls
  MaxSagaCrashes = 1
  u1 = u1
  u2 = u2
  u3 = u3
  u4 = u4
  u5 = u5
  ordersDB = ordersDB
  stockDB = stockDB
  auditDB = auditDB
  legacyDB = legacyDB
  NoDatabase = NoDatabase
  UnitRuns = {u1, u2, u3, u4, u5}
  BodyOf <- MCBodyOf
  DatabaseOf <- MCDatabaseOf
  DatabaseDecl <- MCDatabaseDecl
  HandlesOf <- MCHandlesOf
  PoolSize = 1
  HasPublisher = TRUE
  rk1 = rk1
  rk2 = rk2
  Messages = {1, 2, 3}
  MessageKey <- MCMessageKey
  PartitionOf <- MCPartitionOf
  Concurrency = 2
  MaxAttempts = 2
  Keyed = TRUE
  Deaf = {1}
  MaxLosses = 1
  NoMessage = NoMessage
  Absent = Absent
  WorkerDecls <- MCWorkerDecls
  WorkerMaxTime = 3
  TicksPerSecond = 2
  c1 = c1
  c2 = c2
  c3 = c3
  w1 = w1
  cp1 = cp1
  ck1 = ck1
  ck2 = ck2
  Redis = Redis
  Nobody = Nobody
  Nothing = Nothing
  Calls = {c1, c2, c3}
  CallKey <- OneKey
  NoCache = {c2}
  Writers = {w1}
  Procs = {cp1}
  ProcOf <- OneReplica
  CacheKeys = {ck1}
  Backends = {"memory", "redis"}
  NegativeTtl = TRUE
  p1 = p1
  p2 = p2
  e1 = e1
  e2 = e2
  e3 = e3
  e4 = e4
  k1 = k1
  k2 = k2
  k3 = k3
  s1 = s1
  s2 = s2
  NoEvent = NoEvent
  Events = {e1, e2, e3, e4}
  Producers = {p1, p2}
  Sends <- MCSends
  Keys = {k1, k2, k3}
  KeyOf <- MCKeyOf
  Shards = {s1, s2}
  ShardOf <- MCShardOf
  BatchSize = 2
  HandlersOf <- MCHandlersOf
  Threshold = 2
INVARIANTS
  SagasKeepTheirWord
  PartialCommitsAreBounded
  DeliveriesAreSound
  WorkersKeepTheirSettings
  CachedAnswersAreSound
  BreakerIsSound
PROPERTIES
  SagasSettle
  EveryTwoPhaseRunEnds
  MessagesSettle
  CancelledWorkerStops
  EveryCallReturns
  ChannelSettles
  ImplementsKeyedFifo
CHECK_DEADLOCK FALSE
