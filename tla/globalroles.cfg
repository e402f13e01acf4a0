SPECIFICATION Spec
CONSTANTS
    Users = {ann, bob}
    GlobalRoles = {"platform-admin", "regular"}
    ClusterRoles = {"cluster-admin", "view"}
    Handlers = {h1, h2}
    MaxRequests = 3
    MaxOthers = 1
INVARIANT AnswerIsTrue
CHECK_DEADLOCK FALSE
