SPECIFICATION Spec
INVARIANTS
    RefusesExactlyLoops
    FormulasAgreeWithStatements
    PreviewIsWhatSavingDoes
PROPERTIES
    EveryModelIsAFullOne
CONSTANTS
    Alphabet <- Names
    Subtotals = {"opex", "ebit", "net", "ebitda", "cfo"}
    Optional = {"sga", "rd"}
    Quotient <- Divided
    Charts <- SmallCharts
    Measures <- Rated
    Driver = "rate"
    Rates <- RateValues
    Sheets <- TwoSheets
    SheetOf <- ReadOn
    Printed <- Amounts
    MaxPending = 2
