SPECIFICATION Spec
INVARIANTS
    StoreHoldsCheckedFilings
    QuarantineKeepsEveryFile
PROPERTIES
    RunsEndTheirJob
    CallsAreAnswered
    ChildrenEnd
CONSTANTS
    Files = {"inbox/10-K.pdf"}
    Filings = {"filing", "scanned", "cut", "script", "virus"}
    Profile <- Profiles
    Runs = {"r1", "r2"}
    ScannerOn = TRUE
    MaxUnderWay = 2
    MaxFaults = 1
    MaxDrops = 2
    MaxCalls = 1
CHECK_DEADLOCK FALSE
