------------------------------- MODULE MCReview -------------------------------
(***************************************************************************)
(* Small instances of the review: charts of four codes cut out of the real *)
(* chart, and cells whose readings are what parse_reported_value returns   *)
(* for the strings named beside them (in thousands where the digits do     *)
(* not matter).                                                            *)
(***************************************************************************)
EXTENDS Review, TLC

CONSTANTS f1, f2, f3

-----------------------------------------------------------------------------
(* Cells *)

Read(v) == [value |-> v, codes |-> {}, evidence |-> 3]
Refused(c) == [value |-> NoValue, codes |-> {c}, evidence |-> 2]

\* "5", a number under every convention.
Plain(v) == [l \in Locales |-> Read(v)]

\* "1,200": 1200 under the dot convention, 1.2 under the comma convention, and
\* no number while nobody confirmed one.  Scaled to 12 and 1.
Ambiguous(v, w) ==
    [l \in Locales |-> CASE l = "dot_decimal"   -> Read(v)
                         [] l = "comma_decimal" -> Read(w)
                         [] l = "unknown"       -> Refused("SEPARATOR_AMBIGUOUS")]

\* "1,200.5": one reading only, so the parser takes it while the locale is
\* unknown and refuses it under the other convention.
DotOnly(v) ==
    [l \in Locales |-> IF l = "comma_decimal"
                         THEN Refused("SEPARATOR_AMBIGUOUS") ELSE Read(v)]

\* An em dash.
Dash == [l \in Locales |-> Refused("DASH_AMBIGUOUS")]

-----------------------------------------------------------------------------
(* Charts *)

\* total_opex is what sga and rd add up to; rd may be absent.
OpexCodes == {"sga", "rd", "total_opex"}
OpexSubtotals == {"total_opex"}
OpexPlus == [s \in OpexSubtotals |-> {"sga", "rd"}]
OpexMinus == [s \in OpexSubtotals |-> {}]
OpexOptional == {"rd"}
OpexStatements == [c \in OpexCodes |-> <<"income">>]
OpexSigns == [c \in OpexCodes |-> "positive"]

\* net_income, printed on the income and on the cash flow statement.
IncomeCodes == {"net_income"}
NoSubtotals == {}
NoTerms == [s \in NoSubtotals |-> {}]
IncomeStatements == [c \in IncomeCodes |-> <<"income", "cashflow">>]
IncomeSigns == [c \in IncomeCodes |-> "either"]

\* Cash and the three flows that carry it from one year to the next.
CashCodes == {"cash", "cfo", "cfi", "cff"}
CashStatements == [c \in CashCodes |-> IF c = "cash" THEN <<"balance">> ELSE <<"cashflow">>]
CashSigns == [c \in CashCodes |-> "either"]

-----------------------------------------------------------------------------
(* Metadata: the fields the review's outcome depends on *)

MCFields == {"displayed_scale", "reporting_currency", "number_locale"}
MCRequired == MCFields
ScaleDetected == [n \in MCFields |-> CASE n = "displayed_scale"    -> "thousands"
                                       [] n = "reporting_currency" -> Undetected
                                       [] n = "number_locale"      -> "dot_decimal"]
MCReplacements == [n \in MCFields |-> CASE n = "displayed_scale"    -> {}
                                        [] n = "reporting_currency" -> {"USD"}
                                        [] n = "number_locale"      -> {"comma_decimal"}]

\* The same document before anyone opens its metadata form, for the runs about
\* mappings: no metadata request has anything to act on.
NothingDetected == [n \in MCFields |-> Undetected]
NoReplacements == [n \in MCFields |-> {}]

OneFact == {f1}
TwoFacts == {f1, f2}

\* Two cells of one column: one the locale decides, one it does not.
ReparseReading == f1 :> Ambiguous(12, 1) @@ f2 :> DotOnly(5)

\* Three lines of one column, with the figures of a total and its two parts.
MappingFacts == {f1, f2, f3}
MappingReading == f1 :> Plain(2) @@ f2 :> Plain(-3) @@ f3 :> Plain(5)
MappingProposal == f1 :> "sga" @@ f2 :> "rd" @@ f3 :> "total_opex"

\* A total and the only one of its parts the filing prints: equal, or not.
AgreeingReading == f1 :> Plain(2) @@ f2 :> Plain(2)
MismatchReading == f1 :> Plain(2) @@ f2 :> Plain(6)
PartAndTotal == f1 :> "sga" @@ f2 :> "total_opex"

\* Net income on both statements, and a second line of the cash flow statement.
LinkageProposal == [f \in Facts |-> "net_income"]
LinkagePrinted == [f \in Facts |-> IF f = f1 THEN "income" ELSE "cashflow"]

LinkageReading == f1 :> Plain(9) @@ f2 :> Plain(8)

\* Cash at a year end, and a line of the next year, "cash 4, of which 3 were
\* generated", to be split.
CashPeriod == [f \in Facts |-> IF f = f1 THEN 0 ELSE 1]
CashPrinted == [f \in Facts |-> "balance"]
CashReading == f1 :> Plain(2) @@ f2 :> Plain(7)
CashProposal == f1 :> "cash" @@ f2 :> NoProposal

\* An expense printed "(1,200)".
SignReading == f1 :> Ambiguous(-12, -1)
FiveReading == f1 :> Plain(5)
SgaProposal == [f \in Facts |-> "sga"]

\* "12 (a)": a footnote marker had to be stripped.
WeakReading == f1 :> [l \in Locales |-> [value |-> 12, codes |-> {}, evidence |-> 2]]

AllDetected == [n \in MCFields |-> CASE n = "displayed_scale"    -> "thousands"
                                     [] n = "reporting_currency" -> "USD"
                                     [] n = "number_locale"      -> "dot_decimal"]
LocaleReplacements == [n \in MCFields |->
                         IF n = "number_locale" THEN {"comma_decimal"} ELSE {}]

OnePeriod == [f \in Facts |-> 1]
OnIncome == [f \in Facts |-> "income"]

NoTableCodes == [f \in Facts |-> {}]
FullTableEvidence == [f \in Facts |-> 5]

==============================================================================
