SPECIFICATION HistorySpec
INVARIANTS
    FindingsCurrentUntilAFigureMoves
    VerifiedFindingsWereJudged
CONSTANTS
    f1 = f1
    f2 = f2
    f3 = f3
    NoValue = NoValue
    UnknownStatement = UnknownStatement
    Undetected = Undetected
    NoProposal = NoProposal
    NetIncome = "net_income"
    Cash = "cash"
    CFO = "cfo"
    CFI = "cfi"
    CFF = "cff"
    ToleranceScale = 1000000
    Fields <- MCFields
    Required <- MCRequired
    TableCodes <- NoTableCodes
    TableEvidence <- FullTableEvidence
    DefaultThreshold = 7
    ConfiguredThreshold = 7
    Codes <- IncomeCodes
    Subtotals <- NoSubtotals
    Plus <- NoTerms
    Minus <- NoTerms
    Optional = {}
    StatementTypes <- IncomeStatements
    ExpectedSign <- IncomeSigns
    FallbackCode = "net_income"
    PeriodOf <- OnePeriod
    PrintedOn <- LinkagePrinted
    Facts <- TwoFacts
    Reading <- LinkageReading
    Proposal <- LinkageProposal
    Detected <- AllDetected
    Replacements <- NoReplacements
    CorrectedValues = {9}
    SplitAmounts = {}
    MaxVersion = 4
