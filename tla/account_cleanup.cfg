SPECIFICATION FairSpec
CONSTANTS
    u1 = u1
    s1 = s1
    s2 = s2
    n1 = n1
    everyone = everyone
    Users <- OneUser
    Secrets = {s1}
    LongSecrets = {}
    Namespaces = {n1}
    Global = everyone
    NoUser = NoUser
    NoSecret = NoSecret
    MaxFail = 2
    Window = 1
    Retention = 0
    MaxTime = 1
    Limit <- CleanupLimit
    ResyncPeriod = 2
PROPERTIES CleanRelease EventuallyActive EventuallyReleased
CHECK_DEADLOCK FALSE
