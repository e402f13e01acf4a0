SPECIFICATION Spec
CONSTANTS
    Users = {ann, bob, eve}
    Roles = {"admin", "operator"}
    Handlers = {h1, h2, h3}
    NoBinding = NoBinding
    MaxServed = 4
    MaxFaults = 1
SYMMETRY BothSymmetries
INVARIANTS TypeOK NobodyLost OneRoleEach
PROPERTY HandedOver
CHECK_DEADLOCK FALSE
