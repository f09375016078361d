SPECIFICATION ServicesSpec
CONSTANTS
  q1 = q1
  q2 = q2
  q3 = q3
  q4 = q4
  ra = ra
  alice = alice
  ip1 = ip1
  ip2 = ip2
  gold = gold
  Nobody = Nobody
  LimitedRequests = {q1, q2, q3}
  ClientOf <- MCClientOf
  Replicas = {ra}
  RouteSetups <- MCSetups
  TierRules <- MCTiers
  StalePeriods = 1
  SweepEvery = 2
  MaxTime = 3
  NumRequests = 2
  Interfaces <- MCInterfaces
  UseCases <- MCUseCases
  RouteQueries <- MCRouteQueries
  Commands <- MCCommands
  RPCs = {"Pay", "Balance"}
  Inputs <- MCInputs
  RouteQuota = 1
  MaxDay = 1
  A = A
  B = B
  C = C
  None = None
  Programs <- MCPrograms
  ModuleOrder <- MCModuleOrder
  MaxCommits = 1
  Zero = zero
  EventFields = {channel}
  EventValues = {zero, one}
  UpcastValues = {}
  Missing = Missing
  NoDefault = NoDefault
  FailsToDecode = FailsToDecode
  MaxReleases = 3
  MaxWritten = 1
  ReadFields = {"f", "g"}
  NewField = "f"
  TypeOfField <- MCTypeOfField
  ReadOperators = {">"}
  ReadValues = {0, 1}
  Terms <- MCTerms
  Depth <- MCDepth
  MaxDepth = 3
  Queries <- MCReturned
  ItemShape <- MCItemShape
  OtherShape <- MCOtherShape
  MaxRows = 3
  MaxOthers = 1
  Absent = Absent
  Statements <- MCStatements
  BodyOwners <- MCBodyOwners
  BodyInputs <- MCBodyInputs
  EnumMembers = {"Gold", "Silver"}
  MaxStatements = 2
  Samples <- MCSamples
  Files <- MCFiles
  Damaged <- MCDamaged
  Noise <- MCNoise
INVARIANTS
  LimitsHold
  RetryAfterIsExact
  TaggedStreamsAreOwned
  VersionsAreHonoured
  ServicesAreWired
  EventsSurviveReleases
  ReadsAnswerTheQuery
  LoweredBodiesAgree
  AcceptedBodiesAreLowered
  DamageStaysInItsDeclaration
  DiagnosticsAreTrue
PROPERTIES
  ReplaysAreFree
CHECK_DEADLOCK FALSE
