SPECIFICATION FairSpec
CONSTANTS
    db = db
    web = web
    p1 = p1
    p2 = p2
    e1 = e1
    Components = {db, web}
    Pods = {p1, p2}
    Endpoints = {e1}
    Specs <- SmallSpecs
    Managers <- SmallManagers
    Invalid = Invalid
    NoAction = NoAction
    NoHealth = NoHealth
    MaxChanges = 3
    MaxFaults = 1
PROPERTIES StatusOfSpec EventuallyTold
CHECK_DEADLOCK FALSE
