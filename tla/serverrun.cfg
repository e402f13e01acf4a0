SPECIFICATION FairSpec
CONSTANTS
    MaxFiles = 3
    MaxFailures = 1
    Steps = 2
    Factories = 1
INVARIANTS OldOnesStop ServesFilled
PROPERTIES FailureEndsProcess NewestIsServed
CHECK_DEADLOCK FALSE
