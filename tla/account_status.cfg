SPECIFICATION Spec
CONSTANTS
    u1 = u1
    s1 = s1
    s2 = s2
    n1 = n1
    everyone = everyone
    Users <- OneUser
    Secrets = {s1}
    LongSecrets = {}
    Namespaces = {n1}
    Global = everyone
    NoUser = NoUser
    NoSecret = NoSecret
    MaxFail = 2
    Window = 2
    Retention = 3
    MaxTime = 3
    Limit <- StatusLimit
    ResyncPeriod = 4
INVARIANTS TypeOK FailuresCounted
PROPERTY DisabledStays
CHECK_DEADLOCK FALSE
