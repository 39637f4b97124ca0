------------------------------ MODULE MCRelease ------------------------------
(***************************************************************************)
(* A filing of two years with one line for each thing the panel compares,  *)
(* whose review has come to its last fact, the year's tax charge: mapped   *)
(* and approved, and not decided.  Its base scenario has a reviewed tax    *)
(* rate, and no beta yet.                                                  *)
(***************************************************************************)
EXTENDS Release

CONSTANT Filing     \* the figures printed: one of the tables below

\* <<fact, code, statement, year, figure>>.
Printed ==
    {<<"cash 1", "cash", "balance", 1, 10>>, <<"cash 2", "cash", "balance", 2, 13>>,
     <<"ppe 1", "ppe_net", "balance", 1, 20>>, <<"ppe 2", "ppe_net", "balance", 2, 24>>,
     <<"debt 1", "debt", "balance", 1, 15>>, <<"debt 2", "debt", "balance", 2, 15>>,
     <<"retained 1", "retained_earnings", "balance", 1, 12>>,
     <<"retained 2", "retained_earnings", "balance", 2, 18>>,
     <<"assets", "total_assets", "balance", 2, 42>>,
     <<"liabilities", "total_liabilities", "balance", 2, 15>>,
     <<"equity", "total_equity", "balance", 2, 27>>,
     <<"operating", "cfo", "cashflow", 2, 7>>, <<"investing", "cfi", "cashflow", 2, -4>>,
     <<"financing", "cff", "cashflow", 2, 0>>, <<"capex", "capex", "cashflow", 2, -4>>,
     <<"pretax", "pretax_income", "income", 2, 8>>,
     <<"taxes", "taxes", "income", 2, 2>>,
     <<"income", "net_income", "income", 2, 6>>}
Intangible ==
    {<<"intangibles 1", "intangibles", "balance", 1, 5>>,
     <<"intangibles 2", "intangibles", "balance", 2, 5>>}

NetIncomeAgain == {<<"income, cash flow", "net_income", "cashflow", 2, 6>>}

Whole == Printed \cup Intangible
Linked == Whole \cup NetIncomeAgain

FactsOf == {row[1] : row \in Filing}
Row(f) == CHOOSE row \in Filing : row[1] = f
PeriodPrinted == [f \in FactsOf |-> Row(f)[4]]
StatementPrinted == [f \in FactsOf |-> Row(f)[3]]

\* The chart, cut to the lines this filing can derive a total from.
MCCodes == {row[2] : row \in Filing} \cup {"interest_expense"}
MCSubtotals == {"cfi", "net_income"}
MCPlus == "cfi" :> {"capex"} @@ "net_income" :> {"pretax_income"}
MCMinus == "cfi" :> {} @@ "net_income" :> {"taxes"}
OnOneStatement == {row \in Filing : row[2] # "net_income"}
MCStatements ==
    "net_income" :> <<"income", "cashflow">> @@ "interest_expense" :> <<"income">>
      @@ [c \in {row[2] : row \in OnOneStatement} |->
            <<(CHOOSE row \in OnOneStatement : row[2] = c)[3]>>]
MCSigns == [c \in MCCodes |-> "either"]

MCFields == {"displayed_scale", "reporting_currency", "number_locale"}
MCDetected == [n \in MCFields |-> CASE n = "displayed_scale"    -> "thousands"
                                    [] n = "reporting_currency" -> "USD"
                                    [] n = "number_locale"      -> "dot_decimal"]
NoReplacements == [n \in MCFields |-> {}]
PlainReading ==
    [f \in FactsOf |-> [l \in Locales |-> [value |-> Row(f)[5], codes |-> {}, evidence |-> 3]]]
NoTableCodes == [f \in FactsOf |-> {}]
AllTableEvidence == [f \in FactsOf |-> 5]
Proposals == [f \in FactsOf |-> Row(f)[2]]

MCCandidates == [f \in Open |-> {Row(f)[2], "interest_expense"}]

\* All were proposed in one request, and approved since.
Answer(code, standing, at) ==
    [scenario |-> "base", code |-> code, periods |-> {}, value |-> 1,
     source |-> "ExternalMarketData", evidence |-> {"url", "date"}, overrides |-> "none",
     owner |-> "ann", reviewer |-> IF standing = "Draft" THEN "" ELSE "ann",
     status |-> standing, at |-> at]
AlmostDone ==
    [meta |-> [n \in MCFields |-> [state |-> "confirmed", value |-> MCDetected[n]]],
     parsed |-> [f \in FactsOf |-> PlainReading[f]["dot_decimal"]],
     reasons |-> [f \in FactsOf |-> {}],
     mapping |-> [f \in FactsOf |->
                    {[code |-> Row(f)[2], type |-> "one_to_one", sign |-> "as_printed",
                      amount |-> NoValue, approved |-> TRUE]}],
     version |-> 2 + Cardinality(FactsOf),
     register |-> [parent |-> [s \in {"base"} |-> "none"],
                   assumptions |-> {Answer("diluted_shares", "Reviewed", 3),
                                    Answer("tax_rate", "Reviewed", 4)},
                   version |-> 4]]

MCEntries == {[code |-> "beta", periods |-> {}, value |-> 1]}
YearEntries == {[code |-> "tax_rate", periods |-> {3}, value |-> 2]}
MCAnchors == {<<"balance", "cash">>, <<"balance", "debt">>, <<"balance", "ppe_net">>}
AllPass == [c \in EngineClauses |-> "PASS"]
LastVersion == AlmostDone.version + 2

-----------------------------------------------------------------------------
(* The constants, each the name of a table above, which TLC computes once *)

TheFacts == FactsOf
ThePeriodOf == PeriodPrinted
ThePrintedOn == StatementPrinted
TheCodes == MCCodes
TheSubtotals == MCSubtotals
ThePlus == MCPlus
TheMinus == MCMinus
TheStatementTypes == MCStatements
TheExpectedSign == MCSigns
TheFields == MCFields
TheRequired == MCFields
TheDetected == MCDetected
TheReplacements == NoReplacements
TheReading == PlainReading
TheTableCodes == NoTableCodes
TheTableEvidence == AllTableEvidence
TheProposal == Proposals
TheMaxVersion == LastVersion
TheCandidates == MCCandidates
TheAnchors == MCAnchors
TheEngineSays == AllPass
TheBegun == AlmostDone
TheEntries == MCEntries

==============================================================================
