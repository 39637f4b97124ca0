SPECIFICATION Spec
INVARIANTS
    ForecastReadsReviewedAnswers
PROPERTIES
    AnswersMoveInTheirBranch
CONSTANTS
    Scenarios = {"base", "upside"}
    Base = "base"
    NoScenario = "none"
    Codes = {"capex_amount", "capex_pct"}
    TaxRate = "tax_rate"
    Required <- Choice
    Periods = {1, 2}
    Values = {1, 2}
    People = {"ann"}
    NoOne = ""
    Measured <- MeasuredOne
    Entered <- Entries
    OverrideValues = {2}
    Previewed = {"capex_pct"}
    MaxVersion = 6
CHECK_DEADLOCK FALSE
