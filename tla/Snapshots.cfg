SPECIFICATION Spec
INVARIANTS
    VerifiedArchiveIsOneMoment
    ScenariosAlwaysParse
    ScenariosKeepAcknowledged
CONSTANTS
    BytesFirst = FALSE
    Savers = {"s1", "s2"}
    Reviewers = {"r1"}
    Deletions = {"d1"}
    MaxUnderWay = 2
    MaxCrashes = 1
    MaxSnapshots = 1
CHECK_DEADLOCK FALSE
