CONSTANTS
    p1 = p1  p2 = p2  p3 = p3
    k1 = k1  k2 = k2
    c1 = c1  c2 = c2  c3 = c3
    f1 = f1  f2 = f2
    Requests <- MCRequests
    Keys <- MCKeys
    NoKey = NoKey
    Commands <- MCWaiting
    Fingerprints <- MCFingerprints
    FingerprintOf <- MCWaitingFingerprintOf
    Required = {}
    Rejecting = {}
    RateLimited = {}
    Absent = Absent
    Nobody = Nobody
SPECIFICATION Spec
CHECK_DEADLOCK FALSE
INVARIANT ReplayMatchesPayload
