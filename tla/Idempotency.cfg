CONSTANTS
    p1 = p1  p2 = p2  p3 = p3
    k1 = k1  k2 = k2
    c1 = c1  c2 = c2  c3 = c3
    f1 = f1  f2 = f2
    Requests <- MCRequests
    Keys <- MCTwoKeys
    NoKey = NoKey
    Commands <- MCCommands
    Fingerprints <- MCFingerprints
    FingerprintOf <- MCFingerprintOf
    Required = {c2}
    Rejecting = {c2}
    RateLimited = {c1, c2}
    Absent = Absent
    Nobody = Nobody
SPECIFICATION FairSpec
INVARIANTS
  TypeOK
  RunsAreExclusive
  OneResultPerWindow
  WaitersWatchALiveRun
  ReplaysAreHonest
PROPERTIES
  ResultsAreStable
  EveryRequestAnswered
  ImplementsOncePerKey
CHECK_DEADLOCK FALSE
