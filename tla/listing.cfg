SPECIFICATION Spec
CONSTANTS
    Names = {1, 2, 3}
    Queries <- SmallQueries
    Bindings <- SmallBindings
    MaxChanges = 5
    Width = 8
    Undefined = Undefined
    Panic = Panic
INVARIANTS PanicsOnlyOnOverflow PagesPartition NothingSkipped NothingTwice DescribedAsListed
CHECK_DEADLOCK FALSE
