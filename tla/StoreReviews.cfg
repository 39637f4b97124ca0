SPECIFICATION LogSpec
INVARIANTS
    RecordHoldsItsBasis
    AcknowledgedDecisionsKept
    DeletedStaysDeleted
    ReviewSurvivesRestart
    RendersDoNotOutliveBytes
PROPERTIES
    ImplementsLog
CHECK_DEADLOCK FALSE
CONSTANTS
    d1 = d1
    d2 = d2
    d3 = d3
    p1 = p1
    p2 = p2
    p3 = p3
    p4 = p4
    q1 = q1
    q2 = q2
    NoDoc = NoDoc
    Absent = Absent
    Empty = Empty
    Torn = Torn
    NotYet = NotYet
    Gone = Gone
    Disturbed = Disturbed
    CompanyOf <- OneCompany
    Docs = {d1}
    Held = {}
    HashOf <- OneFiling
    Reviews = {p1, p2}
    Deletions = {p3}
    Renders = {p4}
    Ingestions = {q1}
    Linked = {}
    NewDoc <- DrawnFirst
    MaxActive = 3
    MaxFailures = 1
