------------------------------ MODULE Forecast ------------------------------
(***************************************************************************)
(* The forecast of one scenario: from the last actual year's balances, one *)
(* year after another is projected from that year's drivers, and cash is   *)
(* what the flows leave. The panel of checks reads the finished forecast.  *)
(*                                                                         *)
(* Amounts are integers and rates are counted in 1/Unit. The forecast has  *)
(* one revenue line: the web application passes no segments. The history   *)
(* is the last actual year and what the year before left in cash.          *)
(***************************************************************************)
EXTENDS Integers, Sequences

CONSTANTS
    Unit,           \* one as a rate
    Horizon,        \* forecast years
    Histories,      \* what the statements of a filing may hand over
    Plans,          \* the drivers a scenario may have for a year
    Absent          \* a line or a driver there is none of

Anchors ==
    {"cash", "receivables", "inventory", "other_current_assets", "ppe", "other_noncurrent_assets",
     "payables", "other_current_liabilities", "debt", "other_noncurrent_liabilities",
     "common", "retained"}

CarriedForward == {"goodwill", "intangibles", "leases", "minority"}

Accounts == Anchors \cup CarriedForward

Totals == {"assets", "liabilities", "equity"}

Movements == {"cfo", "cfi", "cff"}

Structural ==
    {"growth", "depreciation", "dso", "inventory_days", "dpo", "other_current_assets_pct",
     "other_current_liabilities_pct", "interest_rate", "tax_rate"}

\* A line with two methods: exactly one of them has to be chosen.
EitherOf ==
    {<<"cogs_pct", "cogs_amount">>, <<"opex_pct", "opex_amount">>, <<"capex_pct", "capex_amount">>}

Discretionary ==
    {"disposals", "issuance", "repayment", "other_income", "sbc_pct", "buybacks", "payout_ratio",
     "dividends_amount", "other_operating", "other_investing", "other_financing", "acquisitions"}

Drivers ==
    Structural \cup Discretionary \cup {pair[1] : pair \in EitherOf} \cup {pair[2] : pair \in EitherOf}

Optionally == Int \cup {Absent}

History == [revenue : Optionally, sheet : [Accounts -> Optionally], printed : [Totals -> Optionally],
            cash_before : Optionally, moved : [Movements -> Optionally]]

ASSUME ForecastAssumption ==
    /\ Unit \in Nat \ {0}
    /\ Horizon \in Nat \ {0}
    /\ Absent \notin Int
    /\ Histories \subseteq History
    /\ Plans \subseteq [Drivers -> Optionally]

VARIABLES
    history,
    years,          \* the projected years, in order
    stage           \* "projecting", "refused" or "built"

vars == <<history, years, stage>>

-----------------------------------------------------------------------------
(***************************************************************************)
(* One year (model/forecast.py).                                           *)
(***************************************************************************)
\* Absent contributes nothing to a total, and a discretionary flow that was
\* not declared did not happen.
Amount(x) == IF x = Absent THEN 0 ELSE x

Part(amount, rate) == (amount * rate) \div Unit

Given(d, name) == d[name] # Absent

\* A line's stated method: its amount, or its share of a driver.
Picked(d, amount, share, of) == IF Given(d, amount) THEN d[amount] ELSE Part(of, d[share])

Assets(sheet) ==
    Amount(sheet.cash) + Amount(sheet.receivables) + Amount(sheet.inventory)
        + Amount(sheet.other_current_assets) + Amount(sheet.ppe) + Amount(sheet.goodwill)
        + Amount(sheet.intangibles) + Amount(sheet.other_noncurrent_assets)

Liabilities(sheet) ==
    Amount(sheet.payables) + Amount(sheet.other_current_liabilities) + Amount(sheet.debt)
        + Amount(sheet.leases) + Amount(sheet.other_noncurrent_liabilities)

Equity(sheet) == Amount(sheet.common) + Amount(sheet.retained) + Amount(sheet.minority)

Nwc(sheet) ==
    sheet.receivables + sheet.inventory + sheet.other_current_assets
        - sheet.payables - sheet.other_current_liabilities

\* Beginning, plus additions, less reductions (model/schedules.py).
RolledForward(beginning, additions, reductions) == beginning + additions - reductions

Income(d, revenue_before, sheet) ==
    LET revenue == revenue_before + Part(revenue_before, d.growth)
        cogs == Picked(d, "cogs_amount", "cogs_pct", revenue)
        opex == Picked(d, "opex_amount", "opex_pct", revenue)
        ebit == revenue - cogs - opex
        interest == Part(sheet.debt, d.interest_rate)
        pretax == ebit - interest + Amount(d.other_income)
        tax == Part(pretax, d.tax_rate)
    IN  [revenue |-> revenue, cogs |-> cogs, ebit |-> ebit, interest |-> interest,
         pretax |-> pretax, tax |-> tax, net |-> pretax - tax]

\* The working-capital balances of a year follow its revenue and its costs.
Working(d, income) ==
    [receivables |-> Part(income.revenue, d.dso),
     inventory |-> Part(income.cogs, d.inventory_days),
     other_current_assets |-> Part(income.revenue, d.other_current_assets_pct),
     payables |-> Part(income.cogs, d.dpo),
     other_current_liabilities |-> Part(income.revenue, d.other_current_liabilities_pct)]

Dividends(d, net) ==
    IF Given(d, "dividends_amount") THEN d.dividends_amount
    ELSE Part(IF net > 0 THEN net ELSE 0, Amount(d.payout_ratio))

\* The cash flow statement, each line with the sign it has there.
Flows(d, income, sheet) ==
    LET depreciation == Part(sheet.ppe, d.depreciation)
        sbc == Part(income.revenue, Amount(d.sbc_pct))
        built_up == Nwc(Working(d, income)) - Nwc(sheet)
        capex == Picked(d, "capex_amount", "capex_pct", income.revenue)
        dividends == Dividends(d, income.net)
    IN  [depreciation |-> depreciation, sbc |-> sbc, nwc |-> -built_up,
         capex |-> -capex, acquisitions |-> -Amount(d.acquisitions),
         issuance |-> Amount(d.issuance), repayment |-> -Amount(d.repayment),
         buybacks |-> -Amount(d.buybacks), dividends |-> -dividends,
         other_operating |-> Amount(d.other_operating),
         disposals |-> Amount(d.disposals), other_investing |-> Amount(d.other_investing),
         other_financing |-> Amount(d.other_financing),
         cfo |-> income.net + depreciation + sbc - built_up + Amount(d.other_operating),
         cfi |-> -capex - Amount(d.acquisitions) + Amount(d.disposals)
                     + Amount(d.other_investing),
         cff |-> Amount(d.issuance) - Amount(d.repayment) - Amount(d.buybacks)
                     - dividends + Amount(d.other_financing)]

\* Faulty: the other financing flow is left out of its balance.
SheetUnlinked(income, working, flows, sheet, last_actual) ==
    [cash |-> sheet.cash + flows.cfo + flows.cfi + flows.cff,
     receivables |-> working.receivables,
     inventory |-> working.inventory,
     other_current_assets |-> working.other_current_assets,
     ppe |-> RolledForward(sheet.ppe, -flows.capex, flows.depreciation + flows.disposals),
     goodwill |-> last_actual.goodwill,
     intangibles |-> last_actual.intangibles,
     other_noncurrent_assets |-> sheet.other_noncurrent_assets - flows.other_investing,
     payables |-> working.payables,
     other_current_liabilities |-> working.other_current_liabilities,
     debt |-> RolledForward(sheet.debt, flows.issuance, -flows.repayment),
     leases |-> last_actual.leases,
     other_noncurrent_liabilities |-> sheet.other_noncurrent_liabilities + flows.other_operating,
     common |-> sheet.common + flows.sbc + flows.buybacks,
     retained |-> RolledForward(sheet.retained, income.net, -flows.dividends),
     minority |-> last_actual.minority]

\* The projected sheet: cash is what the flows leave, and what no driver moves
\* is held at the last actual balance, absent if it was.
Sheet(income, working, flows, sheet, last_actual) ==
    [cash |-> sheet.cash + flows.cfo + flows.cfi + flows.cff,
     receivables |-> working.receivables,
     inventory |-> working.inventory,
     other_current_assets |-> working.other_current_assets,
     ppe |-> RolledForward(sheet.ppe, -flows.capex, flows.depreciation + flows.disposals),
     goodwill |-> last_actual.goodwill,
     intangibles |-> last_actual.intangibles,
     other_noncurrent_assets |-> sheet.other_noncurrent_assets - flows.other_investing,
     payables |-> working.payables,
     other_current_liabilities |-> working.other_current_liabilities,
     debt |-> RolledForward(sheet.debt, flows.issuance, -flows.repayment),
     leases |-> last_actual.leases,
     other_noncurrent_liabilities |-> sheet.other_noncurrent_liabilities + flows.other_operating
                                          + flows.other_financing,
     common |-> sheet.common + flows.sbc + flows.buybacks,
     retained |-> RolledForward(sheet.retained, income.net, -flows.dividends),
     minority |-> last_actual.minority]

YearOf(d, revenue, sheet, last_actual) ==
    LET income == Income(d, revenue, sheet)
        flows == Flows(d, income, sheet)
    IN  [income |-> income, flows |-> flows, tax_rate |-> d.tax_rate,
         sheet |-> Sheet(income, Working(d, income), flows, sheet, last_actual)]

-----------------------------------------------------------------------------
\* The revenue and the sheet the next year starts from.
RevenueBefore == IF years = <<>> THEN history.revenue ELSE years[Len(years)].income.revenue
SheetBefore == IF years = <<>> THEN history.sheet ELSE years[Len(years)].sheet

\* Every balance the forecast is anchored on has to be there.
Anchored == history.revenue # Absent /\ \A a \in Anchors : history.sheet[a] # Absent

\* One stated methodology a line, every structural driver, a tax rate and day
\* counts that can be, and no more debt repaid than there is.
Projectable(d) ==
    /\ \A name \in Structural : Given(d, name)
    /\ \A pair \in EitherOf : Given(d, pair[1]) # Given(d, pair[2])
    /\ ~(Given(d, "payout_ratio") /\ Given(d, "dividends_amount"))
    /\ \A name \in {"dso", "inventory_days", "dpo"} : d[name] >= 0
    /\ d.tax_rate \in 0 .. Unit - 1
    /\ SheetBefore.debt + Amount(d.issuance) - Amount(d.repayment) >= 0

Init ==
    /\ history \in Histories
    /\ years = <<>>
    /\ stage = "projecting"

Project(d) ==
    /\ stage = "projecting"
    /\ Anchored
    /\ Projectable(d)
    /\ years' = Append(years, YearOf(d, RevenueBefore, SheetBefore, history.sheet))
    /\ stage' = IF Len(years) + 1 = Horizon THEN "built" ELSE stage
    /\ UNCHANGED history

\* The first year that cannot be projected refuses the whole forecast.
Refuse(d) ==
    /\ stage = "projecting"
    /\ ~(Anchored /\ Projectable(d))
    /\ years' = <<>>
    /\ stage' = "refused"
    /\ UNCHANGED history

Next == \E d \in Plans : Project(d) \/ Refuse(d)

Spec == Init /\ [][Next]_vars

-----------------------------------------------------------------------------
(***************************************************************************)
(* The panel over a finished forecast (model/checks.py), exact where the   *)
(* code compares to within a relative tolerance.                           *)
(***************************************************************************)
Verdict(checked, broken) ==
    IF ~checked THEN "skip" ELSE IF broken THEN "fail" ELSE "pass"

\* What the filing prints, or else what its lines add up to.
HistoricalTotals ==
    LET lines == [assets |-> Assets(history.sheet), liabilities |-> Liabilities(history.sheet),
                  equity |-> Equity(history.sheet)]
    IN  [t \in Totals |-> IF history.printed[t] # Absent THEN history.printed[t] ELSE lines[t]]

HistoryVerdict ==
    Verdict(TRUE, HistoricalTotals.assets # HistoricalTotals.liabilities + HistoricalTotals.equity)

\* Beginning cash and the three subtotals against ending cash.
HistoryCashVerdict ==
    LET known == history.cash_before # Absent /\ \A m \in Movements : history.moved[m] # Absent
    IN  Verdict(known, history.cash_before + history.moved.cfo + history.moved.cfi
                           + history.moved.cff # history.sheet.cash)

\* A printed total against the lines it is made of.
SubtotalVerdict ==
    Verdict(TRUE,
            \/ history.printed.assets \notin {Absent, Assets(history.sheet)}
            \/ history.printed.liabilities \notin {Absent, Liabilities(history.sheet)}
            \/ history.printed.equity \notin {Absent, Equity(history.sheet)})

OutBy(sheet) == Assets(sheet) - Liabilities(sheet) - Equity(sheet)

SheetVerdict == Verdict(TRUE, \E i \in DOMAIN years : OutBy(years[i].sheet) # 0)

CashBefore(i) == IF i = 1 THEN history.sheet.cash ELSE years[i - 1].sheet.cash

CashVerdict ==
    Verdict(TRUE, \E i \in DOMAIN years :
                      CashBefore(i) + years[i].flows.cfo + years[i].flows.cfi + years[i].flows.cff
                          # years[i].sheet.cash)

\* Faulty: the panel reads the forecast years only.
ReadyForecastOnly == stage = "built" /\ {SheetVerdict, CashVerdict} = {"pass"}

\* Nothing failed and nothing was skipped but what waits for a valuation.
ForecastReady ==
    /\ stage = "built"
    /\ {HistoryVerdict, HistoryCashVerdict, SubtotalVerdict, SheetVerdict, CashVerdict} = {"pass"}

-----------------------------------------------------------------------------
(***************************************************************************)
(* Properties.                                                             *)
(***************************************************************************)
SheetBeforeYear(i) == IF i = 1 THEN history.sheet ELSE years[i - 1].sheet

\* Cash is no plug: a projected sheet is out by what the sheet before it is
\* out by, and by what was spent on acquisitions, which is no account of it
\* (model/forecast.py:366-474). Every other flow has its balance.
SheetIsOutByWhatWasBought ==
    \A i \in DOMAIN years :
        OutBy(years[i].sheet) = OutBy(SheetBeforeYear(i)) + years[i].flows.acquisitions

\* A forecast is ready only if what the filing prints and what its lines add
\* up to both balance and every projected sheet does: no break in the history
\* is hidden by the forecast or the other way round (forecast/checks.py, 15.21).
ReadyMeansBalanced ==
    ForecastReady =>
        /\ HistoricalTotals = [assets |-> Assets(history.sheet), liabilities |-> Liabilities(history.sheet),
                               equity |-> Equity(history.sheet)]
        /\ OutBy(history.sheet) = 0
        /\ \A i \in DOMAIN years : OutBy(years[i].sheet) = 0 /\ years[i].flows.acquisitions = 0

-----------------------------------------------------------------------------
(***************************************************************************)
(* What the documentation says and the code does not do.                   *)
(***************************************************************************)
\* "every cash movement must correspond to a balance-sheet movement"
\* (model/forecast.py:17): a sheet that balances stays so.
ForecastBalances ==
    \A i \in DOMAIN years : OutBy(history.sheet) = 0 => OutBy(years[i].sheet) = 0

=============================================================================
