SPECIFICATION FairSpec
CONSTANTS
    a = a
    b = b
    Servers = {a, b}
    Users = {u1, u2, anon}
    Anonymous = anon
    Offset <- OneAhead
    Skew = 1
    MaxAge = 2
    Inactivity = 2
    MaxTime = 7
    MaxRequests = 3
    MaxRestarts = 1
INVARIANTS TypeOK Renewable SkewTolerated
PROPERTIES EndsOnlyByTime SessionsPromise EventuallySwept
CHECK_DEADLOCK FALSE
