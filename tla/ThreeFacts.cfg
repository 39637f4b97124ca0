SPECIFICATION Spec
INVARIANTS
    ApprovedMappingsDoNotOverlap
    ApprovedFactNotNested
PROPERTIES
    ApprovalIsOfAStandingMapping
    RejectedGainsNoFigure
CONSTANTS
    f1 = f1
    f2 = f2
    f3 = f3
    NoValue = NoValue
    UnknownStatement = UnknownStatement
    Undetected = Undetected
    NoProposal = NoProposal
    NetIncome = "net_income"
    Cash = "cash"
    CFO = "cfo"
    CFI = "cfi"
    CFF = "cff"
    ToleranceScale = 1000000
    Fields <- MCFields
    Required <- MCRequired
    TableCodes <- NoTableCodes
    TableEvidence <- FullTableEvidence
    DefaultThreshold = 7
    Codes <- OpexCodes
    Subtotals <- OpexSubtotals
    Plus <- OpexPlus
    Minus <- OpexMinus
    Optional <- OpexOptional
    StatementTypes <- OpexStatements
    ExpectedSign <- OpexSigns
    FallbackCode = "sga"
    PeriodOf <- OnePeriod
    PrintedOn <- OnIncome
    Facts <- MappingFacts
    Reading <- MappingReading
    Proposal <- MappingProposal
    Detected <- NothingDetected
    Replacements <- NoReplacements
    CorrectedValues = {}
    SplitAmounts = {2, 3}
    MaxVersion = 5
