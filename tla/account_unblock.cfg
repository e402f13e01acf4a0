SPECIFICATION FairSpec
CONSTANTS
    u1 = u1
    s1 = s1
    s2 = s2
    n1 = n1
    everyone = everyone
    Users <- OneUser
    Secrets = {s1, s2}
    LongSecrets = {s2}
    Namespaces = {n1}
    Global = everyone
    NoUser = NoUser
    NoSecret = NoSecret
    MaxFail = 1
    Window = 1
    Retention = 1
    MaxTime = 3
    Limit <- UnblockLimit
    ResyncPeriod = 3
PROPERTIES BlockedForWindow PasswordOnlyByRequest EventuallyHashed EventuallyUnblocked EventuallyExpired
CHECK_DEADLOCK FALSE
