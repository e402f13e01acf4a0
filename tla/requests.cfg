SPECIFICATION Spec
CONSTANTS
    Calls <- SmallCalls
    Excluded <- SmallExcluded
    Globals <- SmallGlobals
    Locals <- SmallLocals
    Contents <- SmallContents
    Users = {"ann", "bob"}
    OwnGroups <- SmallGroups
    Passwords = {"p1", "p2"}
    First = "p1"
    Absent = Absent
    MaxChanges = 2
    MaxRequests = 1
INVARIANTS AllowedWasGranted NoLostGrant PasswordChangedByRight SameInWorkspace
CHECK_DEADLOCK FALSE
