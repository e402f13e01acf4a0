SPECIFICATION Spec
CONSTANTS
    Users = {ann, bob}
    Roles = {"admin", "operator"}
    Handlers = {h1, h2}
    NoBinding = NoBinding
    MaxServed = 2
    MaxFaults = 0
INVARIANT ManagerStaysAdmin
CHECK_DEADLOCK FALSE
