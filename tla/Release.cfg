SPECIFICATION ReleaseSpec
INVARIANTS
    ReleasedMeansValuationReady
    ReleasedFiguresReconcile
    VersionTellsMappingsApart
CONSTANTS
    Filing <- Whole
    Facts <- TheFacts
    PeriodOf <- ThePeriodOf
    PrintedOn <- ThePrintedOn
    UnknownStatement = "unknown"
    NetIncome = "net_income"
    Cash = "cash"
    CFO = "cfo"
    CFI = "cfi"
    CFF = "cff"
    ToleranceScale = 1000
    Codes <- TheCodes
    Subtotals <- TheSubtotals
    Plus <- ThePlus
    Minus <- TheMinus
    Optional = {}
    StatementTypes <- TheStatementTypes
    ExpectedSign <- TheExpectedSign
    NoValue = NoValue
    Fields <- TheFields
    Required <- TheRequired
    Detected <- TheDetected
    Replacements <- TheReplacements
    Undetected = Undetected
    Reading <- TheReading
    TableCodes <- TheTableCodes
    TableEvidence <- TheTableEvidence
    DefaultThreshold = 6
    Proposal <- TheProposal
    NoProposal = NoProposal
    FallbackCode = "cash"
    CorrectedValues = {3}
    SplitAmounts = {}
    MaxVersion <- TheMaxVersion
    Open = {"taxes"}
    Answering = {"tax_rate", "beta"}
    Candidates <- TheCandidates
    TaxRate = "tax_rate"
    Drivers = {"tax_rate"}
    Inputs = {"beta"}
    Adjustments = {"diluted_shares"}
    Shares = "diluted_shares"
    ForecastYears = {3}
    Anchors <- TheAnchors
    EngineSays <- TheEngineSays
    Begun <- TheBegun
    Entries <- TheEntries
    MaxRegister = 6
CHECK_DEADLOCK FALSE
