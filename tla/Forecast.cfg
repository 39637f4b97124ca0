SPECIFICATION ValuationSpec
INVARIANTS
    SheetIsOutByWhatWasBought
    ReadyMeansBalanced
    ValueIsRolledBack
    GridIsCentred
CHECK_DEADLOCK FALSE
CONSTANTS
    Unit = 2
    Horizon = 2
    Histories <- SmallHistories
    Plans <- SmallPlans
    Absent = Absent
    Markets <- SmallMarkets
    WaccSteps <- SmallWaccSteps
    GrowthSteps <- SmallGrowthSteps
    YearLength = 2
    Roots <- SmallRoots
