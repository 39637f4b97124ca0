--------------------------- MODULE ForecastProofs ---------------------------
(***************************************************************************)
(* The balance sheet of a forecast and the value of it, proved for every   *)
(* history, plan, market and horizon. Every amount of a projected year is  *)
(* an integer whatever the drivers, so its sheet is a sum of the flows,    *)
(* and all of them but the acquisitions cancel between its two sides.      *)
(* Fractions are kept in lowest terms, in which each is written in one way *)
(* only: equalities of values are then equalities of fractions, and the    *)
(* sum of discounted flows is compared with a value rolled back from flow  *)
(* to flow.                                                                *)
(***************************************************************************)
EXTENDS Valuation, SequenceTheorems, WellFoundedInduction, TLAPS

Incomes ==
    [revenue : Int, cogs : Int, ebit : Int, interest : Int, pretax : Int, tax : Int, net : Int]

Workings ==
    [receivables : Int, inventory : Int, other_current_assets : Int, payables : Int,
     other_current_liabilities : Int]

Flowing ==
    [depreciation : Int, sbc : Int, nwc : Int, capex : Int, acquisitions : Int, issuance : Int,
     repayment : Int, buybacks : Int, dividends : Int, other_operating : Int, disposals : Int,
     other_investing : Int, other_financing : Int, cfo : Int, cfi : Int, cff : Int]

\* What a year can be projected from: anchored, and held where nothing drives it.
Standing(sheet) ==
    /\ \A a \in Anchors : sheet[a] \in Int
    /\ \A a \in CarriedForward : sheet[a] \in Optionally

HeldAs(sheet, last_actual) == \A a \in CarriedForward : sheet[a] = last_actual[a]

YearTyped(year) ==
    /\ year.income.revenue \in Int
    /\ year.flows.acquisitions \in Int
    /\ Standing(year.sheet)

-----------------------------------------------------------------------------
(***************************************************************************)
(* Amounts.                                                                *)
(***************************************************************************)
LEMMA AmountInt == ASSUME NEW x \in Optionally PROVE Amount(x) \in Int
  BY ForecastAssumption DEF Amount, Optionally

LEMMA PartInt == ASSUME NEW a \in Int, NEW r \in Int PROVE Part(a, r) \in Int
  <1>1. a * r \in Int
    OBVIOUS
  <1> QED
    BY <1>1, ForecastAssumption, SMT DEF Part

LEMMA DriverTyped ==
    ASSUME NEW d \in Plans, NEW name \in Drivers
    PROVE  d[name] \in Optionally /\ Amount(d[name]) \in Int /\ (Given(d, name) => d[name] \in Int)
  BY AmountInt, ForecastAssumption DEF Given, Optionally

LEMMA PickedInt ==
    ASSUME NEW d \in Plans, NEW amount \in Drivers, NEW share \in Drivers,
           Given(d, share) # Given(d, amount), NEW of \in Int
    PROVE  Picked(d, amount, share, of) \in Int
  <1>1. Given(d, amount) \/ Given(d, share)
    BY DEF Given
  <1>2. CASE Given(d, amount)
    BY <1>2, DriverTyped DEF Picked
  <1>3. CASE ~Given(d, amount)
    <2>1. d[share] \in Int
      BY <1>1, <1>3, DriverTyped
    <2> QED
      BY <1>3, <2>1, PartInt DEF Picked
  <1> QED
    BY <1>2, <1>3

-----------------------------------------------------------------------------
(***************************************************************************)
(* One year.                                                               *)
(***************************************************************************)
\* The drivers of a year that can be projected, as the code reads them.
LEMMA ReadDrivers ==
    ASSUME NEW d \in Plans, Projectable(d)
    PROVE  /\ \A name \in Structural : d[name] \in Int
           /\ \A name \in Discretionary : Amount(d[name]) \in Int
           /\ \A of \in Int :
                 /\ Picked(d, "cogs_amount", "cogs_pct", of) \in Int
                 /\ Picked(d, "opex_amount", "opex_pct", of) \in Int
                 /\ Picked(d, "capex_amount", "capex_pct", of) \in Int
  <1>1. Structural \subseteq Drivers /\ Discretionary \subseteq Drivers
    BY DEF Drivers
  <1>2. \A name \in Structural : d[name] \in Int
    BY <1>1, DriverTyped DEF Projectable
  <1>3. \A name \in Discretionary : Amount(d[name]) \in Int
    BY <1>1, DriverTyped
  <1>4. \A pair \in EitherOf : pair[1] \in Drivers /\ pair[2] \in Drivers
    BY DEF Drivers
  <1>5. \A of \in Int, pair \in EitherOf : Picked(d, pair[2], pair[1], of) \in Int
    <2> TAKE of \in Int, pair \in EitherOf
    <2>1. pair[1] \in Drivers /\ pair[2] \in Drivers /\ (Given(d, pair[1]) # Given(d, pair[2]))
      BY <1>4 DEF Projectable
    <2> QED
      BY <2>1, PickedInt
  <1>6. <<"cogs_pct", "cogs_amount">> \in EitherOf /\ <<"opex_pct", "opex_amount">> \in EitherOf
            /\ <<"capex_pct", "capex_amount">> \in EitherOf
    BY DEF EitherOf
  <1> QED
    BY <1>2, <1>3, <1>5, <1>6

LEMMA DividendsInt ==
    ASSUME NEW d \in Plans, NEW net \in Int
    PROVE  Dividends(d, net) \in Int
  <1>1. "dividends_amount" \in Drivers /\ "payout_ratio" \in Drivers
    BY DEF Drivers, Discretionary
  <1>2. Amount(d.payout_ratio) \in Int /\ (Given(d, "dividends_amount") => d.dividends_amount \in Int)
    BY <1>1, DriverTyped
  <1>3. (IF net > 0 THEN net ELSE 0) \in Int
    OBVIOUS
  <1> QED
    BY <1>2, <1>3, PartInt DEF Dividends

LEMMA IncomeTyped ==
    ASSUME NEW d \in Plans, Projectable(d), NEW revenue \in Int, NEW sheet, Standing(sheet)
    PROVE  Income(d, revenue, sheet) \in Incomes
  <1> DEFINE now == revenue + Part(revenue, d.growth)
             cogs == Picked(d, "cogs_amount", "cogs_pct", now)
             opex == Picked(d, "opex_amount", "opex_pct", now)
             interest == Part(sheet.debt, d.interest_rate)
             pretax == now - cogs - opex - interest + Amount(d.other_income)
  <1>1. d.growth \in Int /\ d.interest_rate \in Int /\ d.tax_rate \in Int /\ Amount(d.other_income) \in Int
    BY ReadDrivers DEF Structural, Discretionary
  <1>2. sheet.debt \in Int
    BY DEF Standing, Anchors
  <1>3. now \in Int
    <2>1. Part(revenue, d.growth) \in Int
      BY <1>1, PartInt
    <2> QED
      BY <2>1
  <1>4. cogs \in Int /\ opex \in Int
    BY <1>3, ReadDrivers
  <1>5. interest \in Int
    BY <1>1, <1>2, PartInt
  <1> HIDE DEF now, cogs, opex, interest
  <1>6. pretax \in Int
    BY <1>1, <1>3, <1>4, <1>5
  <1>7. Part(pretax, d.tax_rate) \in Int
    BY <1>1, <1>6, PartInt
  <1>8. Income(d, revenue, sheet) =
            [revenue |-> now, cogs |-> cogs, ebit |-> now - cogs - opex, interest |-> interest,
             pretax |-> pretax, tax |-> Part(pretax, d.tax_rate), net |-> pretax - Part(pretax, d.tax_rate)]
    BY DEF Income, now, cogs, opex, interest, pretax
  <1> HIDE DEF pretax
  <1> QED
    BY <1>3, <1>4, <1>5, <1>6, <1>7, <1>8 DEF Incomes

LEMMA WorkingTyped ==
    ASSUME NEW d \in Plans, Projectable(d), NEW income \in Incomes
    PROVE  Working(d, income) \in Workings
  <1>1. d.dso \in Int /\ d.inventory_days \in Int /\ d.dpo \in Int /\ d.other_current_assets_pct \in Int
            /\ d.other_current_liabilities_pct \in Int
    BY ReadDrivers DEF Structural
  <1>2. income.revenue \in Int /\ income.cogs \in Int
    BY DEF Incomes
  <1> QED
    BY <1>1, <1>2, PartInt DEF Working, Workings

LEMMA NwcInt ==
    ASSUME NEW sheet, sheet.receivables \in Int, sheet.inventory \in Int, sheet.other_current_assets \in Int,
           sheet.payables \in Int, sheet.other_current_liabilities \in Int
    PROVE  Nwc(sheet) \in Int
  BY DEF Nwc

LEMMA FlowsTyped ==
    ASSUME NEW d \in Plans, Projectable(d), NEW income \in Incomes, NEW sheet, Standing(sheet)
    PROVE  Flows(d, income, sheet) \in Flowing
  <1> DEFINE depreciation == Part(sheet.ppe, d.depreciation)
             sbc == Part(income.revenue, Amount(d.sbc_pct))
             built_up == Nwc(Working(d, income)) - Nwc(sheet)
             capex == Picked(d, "capex_amount", "capex_pct", income.revenue)
             dividends == Dividends(d, income.net)
  <1>1. income.revenue \in Int /\ income.net \in Int
    BY DEF Incomes
  <1>2. /\ d.depreciation \in Int /\ Amount(d.sbc_pct) \in Int /\ Amount(d.acquisitions) \in Int
        /\ Amount(d.issuance) \in Int /\ Amount(d.repayment) \in Int /\ Amount(d.buybacks) \in Int
        /\ Amount(d.other_operating) \in Int /\ Amount(d.disposals) \in Int
        /\ Amount(d.other_investing) \in Int /\ Amount(d.other_financing) \in Int
    BY ReadDrivers DEF Structural, Discretionary
  <1>3. depreciation \in Int
    BY <1>2, PartInt DEF Standing, Anchors
  <1>4. sbc \in Int
    BY <1>1, <1>2, PartInt
  <1>5. built_up \in Int
    <2>1. Nwc(Working(d, income)) \in Int
      BY WorkingTyped, NwcInt DEF Workings
    <2>2. Nwc(sheet) \in Int
      BY NwcInt DEF Standing, Anchors
    <2> QED
      BY <2>1, <2>2
  <1>6. capex \in Int /\ dividends \in Int
    BY <1>1, ReadDrivers, DividendsInt
  <1> HIDE DEF depreciation, sbc, built_up, capex, dividends
  <1>7. Flows(d, income, sheet) =
        [depreciation |-> depreciation, sbc |-> sbc, nwc |-> -built_up,
         capex |-> -capex, acquisitions |-> -Amount(d.acquisitions),
         issuance |-> Amount(d.issuance), repayment |-> -Amount(d.repayment),
         buybacks |-> -Amount(d.buybacks), dividends |-> -dividends,
         other_operating |-> Amount(d.other_operating),
         disposals |-> Amount(d.disposals), other_investing |-> Amount(d.other_investing),
         other_financing |-> Amount(d.other_financing),
         cfo |-> income.net + depreciation + sbc - built_up + Amount(d.other_operating),
         cfi |-> -capex - Amount(d.acquisitions) + Amount(d.disposals)
                     + Amount(d.other_investing),
         cff |-> Amount(d.issuance) - Amount(d.repayment) - Amount(d.buybacks)
                     - dividends + Amount(d.other_financing)]
    BY DEF Flows, depreciation, sbc, built_up, capex, dividends
  <1> QED
    BY <1>1, <1>2, <1>3, <1>4, <1>5, <1>6, <1>7 DEF Flowing

\* The subtotals of the cash flow statement are what its lines add up to.
LEMMA CashMoved ==
    ASSUME NEW d \in Plans, Projectable(d), NEW income \in Incomes, NEW sheet, Standing(sheet)
    PROVE  LET flows == Flows(d, income, sheet)
           IN  /\ flows.cfo = income.net + flows.depreciation + flows.sbc - (Nwc(Working(d, income)) - Nwc(sheet))
                              + flows.other_operating
               /\ flows.cfi = flows.capex + flows.acquisitions + flows.disposals + flows.other_investing
               /\ flows.cff = flows.issuance + flows.repayment + flows.buybacks + flows.dividends + flows.other_financing
  <1> DEFINE flows == Flows(d, income, sheet)
  <1>1. flows \in Flowing
    BY FlowsTyped
  <1>2. income.net \in Int
    BY DEF Incomes
  <1>3. flows.nwc = -(Nwc(Working(d, income)) - Nwc(sheet)) /\ Nwc(Working(d, income)) \in Int /\ Nwc(sheet) \in Int
    <2>1. Nwc(Working(d, income)) \in Int
      BY WorkingTyped, NwcInt DEF Workings
    <2>2. Nwc(sheet) \in Int
      BY NwcInt DEF Standing, Anchors
    <2> QED
      BY <2>1, <2>2 DEF Flows
  <1>4. /\ flows.cfo = income.net + flows.depreciation + flows.sbc - (Nwc(Working(d, income)) - Nwc(sheet))
                           + flows.other_operating
        /\ flows.cfi = flows.capex + flows.acquisitions + flows.disposals + flows.other_investing
        /\ flows.cff = flows.issuance + flows.repayment + flows.buybacks + flows.dividends + flows.other_financing
    BY <1>1, <1>2, <1>3 DEF Flows, Flowing
  <1> QED
    BY <1>4

LEMMA SheetTyped ==
    ASSUME NEW d \in Plans, Projectable(d), NEW revenue \in Int, NEW sheet, Standing(sheet),
           NEW last_actual, HeldAs(sheet, last_actual)
    PROVE  LET year == YearOf(d, revenue, sheet, last_actual)
           IN  YearTyped(year) /\ HeldAs(year.sheet, last_actual)
  <1> DEFINE income == Income(d, revenue, sheet)
             working == Working(d, income)
             flows == Flows(d, income, sheet)
             after == Sheet(income, working, flows, sheet, last_actual)
  <1>1. income \in Incomes
    BY IncomeTyped
  <1>2. working \in Workings /\ flows \in Flowing
    BY <1>1, WorkingTyped, FlowsTyped
  <1>3. YearOf(d, revenue, sheet, last_actual) =
            [income |-> income, flows |-> flows, tax_rate |-> d.tax_rate, sheet |-> after]
    BY DEF YearOf
  <1> HIDE DEF income, working, flows
  <1>4. Standing(after)
    <2>1. \A a \in Anchors : sheet[a] \in Int
      BY DEF Standing
    <2>2. \A a \in Anchors : after[a] \in Int
      BY <1>1, <1>2, <2>1 DEF Sheet, RolledForward, Anchors, Incomes, Workings, Flowing
    <2>3. \A a \in CarriedForward : after[a] = last_actual[a]
      BY DEF Sheet, CarriedForward
    <2>4. \A a \in CarriedForward : last_actual[a] \in Optionally
      BY DEF HeldAs, Standing
    <2> QED
      BY <2>2, <2>3, <2>4 DEF Standing
  <1>5. HeldAs(after, last_actual)
    BY DEF Sheet, HeldAs, CarriedForward
  <1>6. income.revenue \in Int /\ flows.acquisitions \in Int
    BY <1>1, <1>2 DEF Incomes, Flowing
  <1> QED
    BY <1>3, <1>4, <1>5, <1>6 DEF YearTyped

\* The two sides of a sheet move by the same, but for the acquisitions.
LEMMA OutByStep ==
    ASSUME NEW d \in Plans, Projectable(d), NEW revenue \in Int, NEW sheet, Standing(sheet),
           NEW last_actual, HeldAs(sheet, last_actual)
    PROVE  LET year == YearOf(d, revenue, sheet, last_actual)
           IN  OutBy(year.sheet) = OutBy(sheet) + year.flows.acquisitions
  <1> DEFINE income == Income(d, revenue, sheet)
             working == Working(d, income)
             flows == Flows(d, income, sheet)
             after == Sheet(income, working, flows, sheet, last_actual)
  <1>1. income \in Incomes
    BY IncomeTyped
  <1>2. working \in Workings /\ flows \in Flowing
    BY <1>1, WorkingTyped, FlowsTyped
  <1>3. YearOf(d, revenue, sheet, last_actual) =
            [income |-> income, flows |-> flows, tax_rate |-> d.tax_rate, sheet |-> after]
    BY DEF YearOf
  <1>4. /\ flows.cfo = income.net + flows.depreciation + flows.sbc - (Nwc(working) - Nwc(sheet))
                       + flows.other_operating
        /\ flows.cfi = flows.capex + flows.acquisitions + flows.disposals + flows.other_investing
        /\ flows.cff = flows.issuance + flows.repayment + flows.buybacks + flows.dividends + flows.other_financing
    BY <1>1, CashMoved
  <1> HIDE DEF income, working, flows
  <1>5. \A x \in Int : Amount(x) = x
    BY ForecastAssumption DEF Amount
  <1>6. /\ sheet.cash \in Int /\ sheet.receivables \in Int /\ sheet.inventory \in Int
        /\ sheet.other_current_assets \in Int /\ sheet.ppe \in Int /\ sheet.other_noncurrent_assets \in Int
        /\ sheet.payables \in Int /\ sheet.other_current_liabilities \in Int /\ sheet.debt \in Int
        /\ sheet.other_noncurrent_liabilities \in Int /\ sheet.common \in Int /\ sheet.retained \in Int
    BY DEF Standing, Anchors
  <1>7. /\ Amount(sheet.goodwill) \in Int /\ Amount(sheet.intangibles) \in Int
        /\ Amount(sheet.leases) \in Int /\ Amount(sheet.minority) \in Int
    BY AmountInt DEF Standing, CarriedForward
  <1>8. /\ last_actual.goodwill = sheet.goodwill /\ last_actual.intangibles = sheet.intangibles
        /\ last_actual.leases = sheet.leases /\ last_actual.minority = sheet.minority
    BY DEF HeldAs, CarriedForward
  <1> DEFINE cash == sheet.cash + flows.cfo + flows.cfi + flows.cff
             ppe == sheet.ppe - flows.capex - (flows.depreciation + flows.disposals)
             debt == sheet.debt + flows.issuance - (-flows.repayment)
             retained == sheet.retained + income.net - (-flows.dividends)
  <1>9. cash \in Int /\ ppe \in Int /\ debt \in Int /\ retained \in Int
    BY <1>1, <1>2, <1>6 DEF Incomes, Flowing
  <1>10. Assets(after) =
             cash + working.receivables + working.inventory + working.other_current_assets + ppe
                 + Amount(sheet.goodwill) + Amount(sheet.intangibles)
                 + (sheet.other_noncurrent_assets - flows.other_investing)
    <2>1. sheet.other_noncurrent_assets - flows.other_investing \in Int
      BY <1>2, <1>6 DEF Flowing
    <2>2. /\ after.cash = cash /\ after.receivables = working.receivables /\ after.inventory = working.inventory
          /\ after.other_current_assets = working.other_current_assets /\ after.ppe = ppe
          /\ after.goodwill = sheet.goodwill /\ after.intangibles = sheet.intangibles
          /\ after.other_noncurrent_assets = sheet.other_noncurrent_assets - flows.other_investing
      BY <1>2, <1>6, <1>8 DEF Sheet, RolledForward, Flowing
    <2> HIDE DEF after, cash, ppe
    <2> QED
      BY <1>2, <1>5, <1>9, <2>1, <2>2 DEF Assets, Workings
  <1>11. Liabilities(after) =
             working.payables + working.other_current_liabilities + debt + Amount(sheet.leases)
                 + (sheet.other_noncurrent_liabilities + flows.other_operating + flows.other_financing)
    <2>1. sheet.other_noncurrent_liabilities + flows.other_operating + flows.other_financing \in Int
      BY <1>2, <1>6 DEF Flowing
    <2>2. /\ after.payables = working.payables
          /\ after.other_current_liabilities = working.other_current_liabilities
          /\ after.debt = debt /\ after.leases = sheet.leases
          /\ after.other_noncurrent_liabilities =
                 sheet.other_noncurrent_liabilities + flows.other_operating + flows.other_financing
      BY <1>2, <1>6, <1>8 DEF Sheet, RolledForward, Flowing
    <2> HIDE DEF after, debt
    <2> QED
      BY <1>2, <1>5, <1>9, <2>1, <2>2 DEF Liabilities, Workings
  <1>12. Equity(after) =
             (sheet.common + flows.sbc + flows.buybacks) + retained + Amount(sheet.minority)
    <2>1. sheet.common + flows.sbc + flows.buybacks \in Int
      BY <1>2, <1>6 DEF Flowing
    <2>2. /\ after.common = sheet.common + flows.sbc + flows.buybacks
          /\ after.retained = retained /\ after.minority = sheet.minority
      BY <1>1, <1>2, <1>6, <1>8 DEF Sheet, RolledForward, Flowing, Incomes
    <2> HIDE DEF after, retained
    <2> QED
      BY <1>5, <1>9, <2>1, <2>2 DEF Equity
  <1>13. /\ Assets(sheet) =
                sheet.cash + sheet.receivables + sheet.inventory + sheet.other_current_assets + sheet.ppe
                    + Amount(sheet.goodwill) + Amount(sheet.intangibles) + sheet.other_noncurrent_assets
         /\ Liabilities(sheet) =
                sheet.payables + sheet.other_current_liabilities + sheet.debt
                    + Amount(sheet.leases) + sheet.other_noncurrent_liabilities
         /\ Equity(sheet) = sheet.common + sheet.retained + Amount(sheet.minority)
    <2>1. /\ Amount(sheet.cash) = sheet.cash /\ Amount(sheet.receivables) = sheet.receivables
          /\ Amount(sheet.inventory) = sheet.inventory /\ Amount(sheet.ppe) = sheet.ppe
          /\ Amount(sheet.other_current_assets) = sheet.other_current_assets
          /\ Amount(sheet.other_noncurrent_assets) = sheet.other_noncurrent_assets
          /\ Amount(sheet.payables) = sheet.payables /\ Amount(sheet.debt) = sheet.debt
          /\ Amount(sheet.other_current_liabilities) = sheet.other_current_liabilities
          /\ Amount(sheet.other_noncurrent_liabilities) = sheet.other_noncurrent_liabilities
          /\ Amount(sheet.common) = sheet.common /\ Amount(sheet.retained) = sheet.retained
      BY <1>5, <1>6
    <2> QED
      BY <2>1 DEF Assets, Liabilities, Equity
  <1>14. Nwc(working) - Nwc(sheet) =
             (working.receivables - sheet.receivables) + (working.inventory - sheet.inventory)
                 + (working.other_current_assets - sheet.other_current_assets)
                 - (working.payables - sheet.payables)
                 - (working.other_current_liabilities - sheet.other_current_liabilities)
    BY <1>2, <1>6 DEF Nwc, Workings
  <1>15. /\ working.receivables \in Int /\ working.inventory \in Int /\ working.other_current_assets \in Int
         /\ working.payables \in Int /\ working.other_current_liabilities \in Int
         /\ income.net \in Int /\ flows.cfo \in Int /\ flows.cfi \in Int /\ flows.cff \in Int
         /\ flows.depreciation \in Int /\ flows.sbc \in Int /\ flows.capex \in Int
         /\ flows.acquisitions \in Int /\ flows.issuance \in Int /\ flows.repayment \in Int
         /\ flows.buybacks \in Int /\ flows.dividends \in Int /\ flows.other_operating \in Int
         /\ flows.disposals \in Int /\ flows.other_investing \in Int /\ flows.other_financing \in Int
    BY <1>1, <1>2 DEF Incomes, Workings, Flowing
  <1> HIDE DEF after
  <1>16. /\ Assets(sheet) \in Int /\ Liabilities(sheet) \in Int /\ Equity(sheet) \in Int
    BY <1>6, <1>7, <1>13
  <1>17. Assets(after) =
             Assets(sheet) + (flows.cfo + flows.cfi + flows.cff)
                 + (working.receivables - sheet.receivables) + (working.inventory - sheet.inventory)
                 + (working.other_current_assets - sheet.other_current_assets)
                 - flows.capex - flows.depreciation - flows.disposals - flows.other_investing
    BY <1>6, <1>7, <1>10, <1>13, <1>15, SMTT(60) DEF cash, ppe
  <1>18. Liabilities(after) =
             Liabilities(sheet) + (working.payables - sheet.payables)
                 + (working.other_current_liabilities - sheet.other_current_liabilities)
                 + flows.issuance + flows.repayment + flows.other_operating + flows.other_financing
    BY <1>6, <1>7, <1>11, <1>13, <1>15 DEF debt
  <1>19. Equity(after) =
             Equity(sheet) + flows.sbc + flows.buybacks + income.net + flows.dividends
    BY <1>6, <1>7, <1>12, <1>13, <1>15 DEF retained
  <1>20. OutBy(after) = OutBy(sheet) + flows.acquisitions
    <2>1. OutBy(after) = Assets(after) - Liabilities(after) - Equity(after)
      BY DEF OutBy
    <2>2. OutBy(sheet) = Assets(sheet) - Liabilities(sheet) - Equity(sheet)
      BY DEF OutBy
    <2> DEFINE lent == (working.receivables - sheet.receivables) + (working.inventory - sheet.inventory)
                           + (working.other_current_assets - sheet.other_current_assets)
               owed == (working.payables - sheet.payables)
                           + (working.other_current_liabilities - sheet.other_current_liabilities)
    <2>3. lent \in Int /\ owed \in Int
      BY <1>6, <1>15
    <2>4. Nwc(working) - Nwc(sheet) = lent - owed
      BY <1>6, <1>14, <1>15
    <2>5. Assets(after) = Assets(sheet) + (flows.cfo + flows.cfi + flows.cff) + lent
                              - flows.capex - flows.depreciation - flows.disposals - flows.other_investing
      BY <1>6, <1>15, <1>16, <1>17
    <2>6. Liabilities(after) = Liabilities(sheet) + owed + flows.issuance + flows.repayment
                                   + flows.other_operating + flows.other_financing
      BY <1>6, <1>15, <1>16, <1>18
    <2> HIDE DEF lent, owed
    <2>7. Assets(after) = Assets(sheet) + owed + income.net + flows.sbc + flows.other_operating
                              + flows.acquisitions + flows.issuance + flows.repayment + flows.buybacks
                              + flows.dividends + flows.other_financing
      <3>1. Nwc(working) \in Int /\ Nwc(sheet) \in Int
        BY <1>6, <1>15, NwcInt
      <3>2. flows.cfo = income.net + flows.depreciation + flows.sbc - (lent - owed) + flows.other_operating
        BY <1>4, <2>4
      <3> DEFINE spent == flows.capex + flows.disposals + flows.other_investing
                 earned == income.net + flows.sbc + flows.other_operating
                 raised == flows.issuance + flows.repayment + flows.buybacks + flows.dividends
                               + flows.other_financing
      <3>3. spent \in Int /\ earned \in Int /\ raised \in Int
        BY <1>15
      <3>4. flows.cfo = earned + flows.depreciation - (lent - owed)
        BY <1>15, <2>3, <3>2
      <3>5. flows.cfi = spent + flows.acquisitions
        BY <1>4, <1>15
      <3>6. flows.cff = raised
        BY <1>4
      <3>7. Assets(after) = Assets(sheet) + (flows.cfo + flows.cfi + flows.cff) + lent
                                - flows.depreciation - spent
        BY <1>15, <1>16, <2>3, <2>5
      <3> HIDE DEF spent, earned, raised
      <3>8. Assets(after) = Assets(sheet) + owed + earned + flows.acquisitions + raised
        BY <1>15, <1>16, <2>3, <3>3, <3>4, <3>5, <3>6, <3>7
      <3> QED
        BY <1>15, <1>16, <2>3, <3>8 DEF earned, raised
    <2> QED
      BY <1>15, <1>16, <1>19, <2>1, <2>2, <2>3, <2>6, <2>7, SMTT(60)
  <1> QED
    BY <1>3, <1>20 DEF income, after, flows, working

-----------------------------------------------------------------------------
(***************************************************************************)
(* The specification.                                                      *)
(***************************************************************************)
Holding ==
    /\ history \in Histories
    /\ stage \in {"projecting", "refused", "built"}
    /\ years \in Seq({years[i] : i \in DOMAIN years})
    /\ years # <<>> => Anchored
    /\ \A i \in DOMAIN years : YearTyped(years[i]) /\ HeldAs(years[i].sheet, history.sheet)
    /\ SheetIsOutByWhatWasBought

LEMMA HistoryStanding ==
    ASSUME history \in Histories, Anchored
    PROVE  Standing(history.sheet) /\ HeldAs(history.sheet, history.sheet) /\ history.revenue \in Int
  <1>1. history.sheet \in [Accounts -> Optionally] /\ history.revenue \in Optionally
    BY ForecastAssumption DEF History
  <1> QED
    BY <1>1 DEF Anchored, Standing, HeldAs, Accounts, Optionally

LEMMA InitHolds == ASSUME Init PROVE Holding
  BY DEF Init, Holding, SheetIsOutByWhatWasBought

\* The year before the next one is one a year can be projected from.
LEMMA BeforeStands ==
    ASSUME Holding, Anchored
    PROVE  Standing(SheetBefore) /\ HeldAs(SheetBefore, history.sheet) /\ RevenueBefore \in Int
  <1>1. years = <<>> => Standing(SheetBefore) /\ HeldAs(SheetBefore, history.sheet) /\ RevenueBefore \in Int
    BY HistoryStanding DEF Holding, SheetBefore, RevenueBefore
  <1>2. ASSUME years # <<>>
        PROVE  Standing(SheetBefore) /\ HeldAs(SheetBefore, history.sheet) /\ RevenueBefore \in Int
    <2>1. Len(years) \in DOMAIN years
      BY <1>2 DEF Holding
    <2>2. YearTyped(years[Len(years)]) /\ HeldAs(years[Len(years)].sheet, history.sheet)
      BY <2>1 DEF Holding
    <2> QED
      BY <1>2, <2>2 DEF SheetBefore, RevenueBefore, YearTyped
  <1> QED
    BY <1>1, <1>2

LEMMA ProjectHolds == ASSUME Holding, NEW d \in Plans, Project(d) PROVE Holding'
  <1> DEFINE year == YearOf(d, RevenueBefore, SheetBefore, history.sheet)
  <1>1. Anchored /\ Projectable(d) /\ years' = Append(years, year) /\ UNCHANGED history
    BY DEF Project
  <1>2. YearTyped(year) /\ HeldAs(year.sheet, history.sheet)
            /\ OutBy(year.sheet) = OutBy(SheetBefore) + year.flows.acquisitions
    BY <1>1, BeforeStands, SheetTyped, OutByStep
  <1> HIDE DEF year
  <1>3. years \in Seq({years[i] : i \in DOMAIN years})
    BY DEF Holding
  <1>4. /\ Len(years) \in Nat /\ DOMAIN years = 1 .. Len(years)
        /\ DOMAIN years' = 1 .. Len(years) + 1 /\ Len(years') = Len(years) + 1
        /\ \A i \in DOMAIN years : years'[i] = years[i]
        /\ years'[Len(years) + 1] = year
        /\ years' \in Seq({years'[i] : i \in DOMAIN years'})
    <2> DEFINE all == {years[i] : i \in DOMAIN years} \cup {year}
    <2>1. years \in Seq(all)
      BY <1>3
    <2> HIDE DEF all
    <2>2. year \in all
      BY DEF all
    <2>3. /\ Len(years) \in Nat /\ DOMAIN years = 1 .. Len(years)
          /\ DOMAIN years' = 1 .. Len(years) + 1 /\ Len(years') = Len(years) + 1
          /\ \A i \in 1 .. Len(years) : years'[i] = years[i]
          /\ years'[Len(years) + 1] = year /\ years' \in Seq(all)
      BY <1>1, <2>1, <2>2, AppendProperties
    <2>4. years' \in Seq({years'[i] : i \in DOMAIN years'})
      <3>1. years' = [i \in 1 .. Len(years') |-> years'[i]]
        BY <2>3
      <3> QED
        BY <2>3, <3>1
    <2> QED
      BY <2>3, <2>4
  <1>5. \A i \in DOMAIN years' : YearTyped(years'[i]) /\ HeldAs(years'[i].sheet, history'.sheet)
    BY <1>1, <1>2, <1>4 DEF Holding
  <1>6. SheetIsOutByWhatWasBought'
    <2> SUFFICES ASSUME NEW i \in DOMAIN years'
                 PROVE  OutBy(years'[i].sheet)
                            = OutBy(IF i = 1 THEN history.sheet ELSE years'[i - 1].sheet)
                                  + years'[i].flows.acquisitions
      BY <1>1 DEF SheetIsOutByWhatWasBought, SheetBeforeYear
    <2>1. ASSUME i \in DOMAIN years
          PROVE  OutBy(years'[i].sheet)
                     = OutBy(IF i = 1 THEN history.sheet ELSE years'[i - 1].sheet)
                           + years'[i].flows.acquisitions
      <3>1. OutBy(years[i].sheet)
                = OutBy(IF i = 1 THEN history.sheet ELSE years[i - 1].sheet) + years[i].flows.acquisitions
        BY <2>1 DEF Holding, SheetIsOutByWhatWasBought, SheetBeforeYear
      <3>2. years'[i] = years[i] /\ (i # 1 => years'[i - 1] = years[i - 1])
        BY <1>4, <2>1
      <3> QED
        BY <3>1, <3>2
    <2>2. ASSUME i \notin DOMAIN years
          PROVE  OutBy(years'[i].sheet)
                     = OutBy(IF i = 1 THEN history.sheet ELSE years'[i - 1].sheet)
                           + years'[i].flows.acquisitions
      <3>1. i = Len(years) + 1 /\ years'[i] = year
        BY <1>4, <2>2
      <3>2. SheetBefore = IF i = 1 THEN history.sheet ELSE years'[i - 1].sheet
        <4>1. (years = <<>>) <=> i = 1
          BY <1>3, <1>4, <3>1, EmptySeq
        <4>2. i # 1 => years'[i - 1] = years[Len(years)]
          BY <1>4, <3>1
        <4> QED
          BY <4>1, <4>2 DEF SheetBefore
      <3> QED
        BY <1>2, <3>1, <3>2
    <2> QED
      BY <2>1, <2>2
  <1>7. stage' \in {"projecting", "refused", "built"} /\ (years' # <<>> => Anchored')
    BY <1>1 DEF Project, Holding, Anchored
  <1>8. history' \in Histories
    BY <1>1 DEF Holding
  <1> QED
    BY <1>4, <1>5, <1>6, <1>7, <1>8 DEF Holding

LEMMA RefuseHolds == ASSUME Holding, NEW d \in Plans, Refuse(d) PROVE Holding'
  BY DEF Refuse, Holding, SheetIsOutByWhatWasBought

LEMMA StutterHolds == ASSUME Holding, UNCHANGED vars PROVE Holding'
  BY DEF vars, Holding, SheetIsOutByWhatWasBought, SheetBeforeYear, YearTyped, HeldAs, Standing, Anchored,
         OutBy, Assets, Liabilities, Equity, Amount

LEMMA NextHolds == ASSUME Holding, [Next]_vars PROVE Holding'
  BY ProjectHolds, RefuseHolds, StutterHolds DEF Next

LEMMA AlwaysHolding == Spec => []Holding
  BY InitHolds, NextHolds, PTL DEF Spec

\* Cash is no plug (model/forecast.py:366-474): whatever the filing, the
\* drivers and the horizon, a projected sheet is out by what the one before it
\* is out by and by what was spent on acquisitions.
THEOREM OutByWhatWasBought == Spec => []SheetIsOutByWhatWasBought
  <1>1. Holding => SheetIsOutByWhatWasBought
    BY DEF Holding
  <1> QED
    BY <1>1, AlwaysHolding, PTL

LEMMA HoldingMeansBalanced == ASSUME Holding PROVE ReadyMeansBalanced
  <1> SUFFICES ASSUME ForecastReady
               PROVE  /\ HistoricalTotals = [assets |-> Assets(history.sheet),
                                             liabilities |-> Liabilities(history.sheet),
                                             equity |-> Equity(history.sheet)]
                      /\ OutBy(history.sheet) = 0
                      /\ \A i \in DOMAIN years :
                            OutBy(years[i].sheet) = 0 /\ years[i].flows.acquisitions = 0
    BY DEF ReadyMeansBalanced
  <1>1. history \in History
    BY ForecastAssumption DEF Holding
  <1>2. HistoryVerdict = "pass" /\ SubtotalVerdict = "pass" /\ SheetVerdict = "pass"
    BY DEF ForecastReady
  <1>3. /\ history.printed.assets \in {Absent, Assets(history.sheet)}
        /\ history.printed.liabilities \in {Absent, Liabilities(history.sheet)}
        /\ history.printed.equity \in {Absent, Equity(history.sheet)}
    BY <1>2 DEF SubtotalVerdict, Verdict
  <1>4. HistoricalTotals = [assets |-> Assets(history.sheet), liabilities |-> Liabilities(history.sheet),
                            equity |-> Equity(history.sheet)]
    <2> DEFINE lines == [assets |-> Assets(history.sheet), liabilities |-> Liabilities(history.sheet),
                         equity |-> Equity(history.sheet)]
    <2>1. \A t \in Totals : history.printed[t] \in {Absent, lines[t]}
      BY <1>3 DEF Totals
    <2>2. \A t \in Totals :
              (IF history.printed[t] # Absent THEN history.printed[t] ELSE lines[t]) = lines[t]
      BY <2>1
    <2>3. HistoricalTotals = [t \in Totals |-> lines[t]]
      BY <2>2 DEF HistoricalTotals
    <2> QED
      BY <2>3 DEF Totals
  <1>5. Assets(history.sheet) = Liabilities(history.sheet) + Equity(history.sheet)
    BY <1>2, <1>4 DEF HistoryVerdict, Verdict
  <1>6. Liabilities(history.sheet) \in Int /\ Equity(history.sheet) \in Int
    <2>1. \A a \in Accounts : Amount(history.sheet[a]) \in Int
      BY <1>1, AmountInt DEF History
    <2> QED
      BY <2>1 DEF Liabilities, Equity, Accounts, Anchors, CarriedForward
  <1>7. OutBy(history.sheet) = 0
    BY <1>5, <1>6 DEF OutBy
  <1>8. \A i \in DOMAIN years : OutBy(years[i].sheet) = 0
    BY <1>2 DEF SheetVerdict, Verdict
  <1>9. \A i \in DOMAIN years : years[i].flows.acquisitions = 0
    <2> TAKE i \in DOMAIN years
    <2>1. OutBy(years[i].sheet) = OutBy(SheetBeforeYear(i)) + years[i].flows.acquisitions
      BY DEF Holding, SheetIsOutByWhatWasBought
    <2>2. years[i].flows.acquisitions \in Int
      BY DEF Holding, YearTyped
    <2>3. OutBy(SheetBeforeYear(i)) = 0
      <3>1. i = 1 \/ i - 1 \in DOMAIN years
        BY LenProperties DEF Holding
      <3> QED
        BY <1>7, <1>8, <3>1 DEF SheetBeforeYear
    <2> QED
      BY <1>8, <2>1, <2>2, <2>3
  <1> QED
    BY <1>4, <1>7, <1>8, <1>9

\* A forecast that is ready hides no break: what the filing prints is what its
\* lines add up to, and every sheet, reported or projected, balances
\* (forecast/checks.py:65-198).
THEOREM ReadyIsBalanced == Spec => []ReadyMeansBalanced
  BY HoldingMeansBalanced, AlwaysHolding, PTL

-----------------------------------------------------------------------------
(***************************************************************************)
(* Fractions. Two that are equal are one and the same: each is in lowest   *)
(* terms, as a greatest common divisor is a combination of its numbers.    *)
(***************************************************************************)
LEMMA LeastNatural ==
    ASSUME NEW T \in SUBSET Nat, T # {}
    PROVE  \E n \in T : \A k \in T : n <= k
  <1> DEFINE R == OpToRel(<, Nat)
  <1>1. PICK n \in T : \A k \in T : ~ (<<k, n>> \in R)
    BY NatLessThanWellFounded, WFMin
  <1>2. ASSUME NEW k \in T
        PROVE  n <= k
    <2>1. k < n => <<k, n>> \in R
      BY DEF OpToRel
    <2> HIDE DEF R
    <2> QED
      BY <1>1, <2>1
  <1> QED
    BY <1>2

\* A set that has every number below which it has all has every number.
LEMMA StrongInduction ==
    ASSUME NEW G, \A n \in Nat : (\A k \in Nat : k < n => k \in G) => n \in G
    PROVE  \A n \in Nat : n \in G
  <1> SUFFICES ASSUME Nat \ G # {} PROVE FALSE
    OBVIOUS
  <1>1. PICK n \in Nat \ G : \A k \in Nat \ G : n <= k
    BY LeastNatural
  <1>2. \A k \in Nat : k < n => k \in G
    BY <1>1
  <1> QED
    BY <1>1, <1>2

\* One step at a time.
LEMMA Induction ==
    ASSUME NEW G, 0 \in G, \A n \in Nat : n \in G => n + 1 \in G
    PROVE  \A n \in Nat : n \in G
  <1>1. ASSUME NEW n \in Nat, \A k \in Nat : k < n => k \in G
        PROVE  n \in G
    <2>1. CASE n # 0
      <3>1. n - 1 \in Nat /\ n - 1 < n /\ (n - 1) + 1 = n
        BY <2>1
      <3> QED
        BY <1>1, <3>1
    <2> QED
      BY <2>1
  <1> QED
    BY <1>1, StrongInduction

\* The algorithm of Euclid for the numbers up to n, written down.
Euclid(g, b) == g[b] = [a \in Nat |-> IF b = 0 THEN a ELSE g[a % b][b]]

EuclidUpTo(g, n) == \A b \in Nat : b <= n => Euclid(g, b)

LEMMA RemainderLess ==
    ASSUME NEW a \in Int, NEW b \in Nat, b # 0
    PROVE  a % b \in Nat /\ a % b < b /\ a \div b \in Int /\ a = b * (a \div b) + (a % b)
  OBVIOUS

LEMMA EuclidExists == \A n \in Nat : \E g : EuclidUpTo(g, n)
  <1> DEFINE G == {n \in Nat : \E g : EuclidUpTo(g, n)}
  <1>1. ASSUME NEW n \in Nat, \A k \in Nat : k < n => k \in G
        PROVE  n \in G
    <2>1. \E g : \A b \in Nat : b < n => Euclid(g, b)
      <3>1. CASE n = 0
        BY <3>1
      <3>2. CASE n # 0
        <4>1. n - 1 \in Nat /\ n - 1 < n
          BY <3>2
        <4>2. PICK g : EuclidUpTo(g, n - 1)
          BY <1>1, <4>1
        <4>3. \A b \in Nat : b < n => Euclid(g, b)
          BY <4>1, <4>2 DEF EuclidUpTo
        <4> QED
          BY <4>3
      <3> QED
        BY <3>1, <3>2
    <2>2. PICK g : \A b \in Nat : b < n => Euclid(g, b)
      BY <2>1
    <2> DEFINE last == [a \in Nat |-> IF n = 0 THEN a ELSE g[a % n][n]]
               h == [b \in Nat |-> IF b < n THEN g[b] ELSE last]
    <2>3. ASSUME NEW b \in Nat, b <= n
          PROVE  Euclid(h, b)
      <3>1. \A a \in Nat : b # 0 => h[a % b][b] = g[a % b][b]
        <4> TAKE a \in Nat
        <4>1. b # 0 => a % b \in Nat /\ a % b < n
          BY <2>3, RemainderLess
        <4> HIDE DEF last
        <4> QED
          BY <4>1
      <3>2. h[b] = [a \in Nat |-> IF b = 0 THEN a ELSE g[a % b][b]]
        <4>1. CASE b < n
          <5>1. h[b] = g[b] /\ Euclid(g, b)
            BY <2>2, <4>1
          <5> HIDE DEF h
          <5> QED
            BY <5>1 DEF Euclid
        <4>2. CASE b = n
          <5>1. h[b] = last
            BY <4>2
          <5> HIDE DEF h
          <5> QED
            BY <4>2, <5>1
        <4> QED
          BY <2>3, <4>1, <4>2
      <3> HIDE DEF h
      <3> QED
        BY <3>1, <3>2 DEF Euclid
    <2> HIDE DEF h
    <2>4. EuclidUpTo(h, n)
      BY <2>3 DEF EuclidUpTo
    <2> QED
      BY <2>4
  <1> HIDE DEF G
  <1>2. \A n \in Nat : n \in G
    BY <1>1, StrongInduction
  <1> QED
    BY <1>2 DEF G

LEMMA EuclidAgrees ==
    ASSUME NEW g, NEW h, NEW n \in Nat, NEW m \in Nat, EuclidUpTo(g, n), EuclidUpTo(h, m)
    PROVE  \A b \in Nat : b <= n /\ b <= m => g[b] = h[b]
  <1> DEFINE G == {b \in Nat : b <= n /\ b <= m => g[b] = h[b]}
  <1>1. ASSUME NEW b \in Nat, \A k \in Nat : k < b => k \in G
        PROVE  b \in G
    <2> SUFFICES ASSUME b <= n, b <= m PROVE g[b] = h[b]
      OBVIOUS
    <2>1. \A a \in Nat : b # 0 => g[a % b] = h[a % b]
      <3> TAKE a \in Nat
      <3> SUFFICES ASSUME b # 0 PROVE g[a % b] = h[a % b]
        OBVIOUS
      <3>1. a % b \in Nat /\ a % b < b
        BY RemainderLess
      <3>2. a % b \in G
        BY <1>1, <3>1
      <3> QED
        BY <3>1, <3>2
    <2>2. Euclid(g, b) /\ Euclid(h, b)
      BY DEF EuclidUpTo
    <2> QED
      BY <2>1, <2>2 DEF Euclid
  <1> HIDE DEF G
  <1>2. \A b \in Nat : b \in G
    BY <1>1, StrongInduction
  <1> QED
    BY <1>2 DEF G

LEMMA GcdIsEuclid == \A b \in Nat : Euclid(gcd, b)
  <1> DEFINE upTo(n) == CHOOSE g : EuclidUpTo(g, n)
             f == [b \in Nat |-> upTo(b)[b]]
  <1>1. \A n \in Nat : EuclidUpTo(upTo(n), n)
    BY EuclidExists
  <1> HIDE DEF upTo
  <1>2. \A b \in Nat : Euclid(f, b)
    <2> TAKE b \in Nat
    <2>1. upTo(b)[b] = [a \in Nat |-> IF b = 0 THEN a ELSE upTo(b)[a % b][b]]
      BY <1>1 DEF EuclidUpTo, Euclid
    <2>2. \A a \in Nat : b # 0 => upTo(b)[a % b] = f[a % b]
      <3> TAKE a \in Nat
      <3> SUFFICES ASSUME b # 0 PROVE upTo(b)[a % b] = f[a % b]
        OBVIOUS
      <3> DEFINE r == a % b
      <3>1. r \in Nat /\ r < b
        BY RemainderLess
      <3> HIDE DEF r
      <3>2. EuclidUpTo(upTo(b), b) /\ EuclidUpTo(upTo(r), r)
        BY <1>1, <3>1
      <3>3. upTo(b)[r] = upTo(r)[r]
        BY <3>1, <3>2, EuclidAgrees
      <3>4. upTo(b)[r] = f[r]
        BY <3>1, <3>3
      <3> QED
        BY <3>4 DEF r
    <2>3. f[b] = upTo(b)[b]
      OBVIOUS
    <2> HIDE DEF f
    <2> QED
      BY <2>1, <2>2, <2>3 DEF Euclid
  <1>3. f = [b \in Nat |-> [a \in Nat |-> IF b = 0 THEN a ELSE f[a % b][b]]]
    <2>1. \A b \in Nat : f[b] = [a \in Nat |-> IF b = 0 THEN a ELSE f[a % b][b]]
      BY <1>2 DEF Euclid
    <2> QED
      BY <2>1
  <1> HIDE DEF f
  <1>4. gcd = [b \in Nat |-> [a \in Nat |-> IF b = 0 THEN a ELSE gcd[a % b][b]]]
    BY <1>3 DEF gcd
  <1>5. PICK g : g = gcd /\ g = [b \in Nat |-> [a \in Nat |-> IF b = 0 THEN a ELSE g[a % b][b]]]
    BY <1>4
  <1>6. \A b \in Nat : Euclid(g, b)
    BY <1>5 DEF Euclid
  <1> QED
    BY <1>5, <1>6

LEMMA NonZeroProduct == ASSUME NEW a \in Int, NEW b \in Int, a # 0, b # 0 PROVE a * b # 0
  OBVIOUS

LEMMA Cancel ==
    ASSUME NEW a \in Int, NEW b \in Int, NEW k \in Int, k # 0, k * a = k * b
    PROVE  a = b
  <1>1. k * (a - b) = 0
    OBVIOUS
  <1>2. a - b = 0
    BY <1>1, NonZeroProduct
  <1> QED
    BY <1>2

LEMMA DividesExactly ==
    ASSUME NEW g \in Nat, g # 0, NEW k \in Int
    PROVE  (g * k) \div g = k
  <1> DEFINE q == (g * k) \div g
             r == (g * k) % g
  <1>1. q \in Int /\ r \in Nat /\ r < g /\ g * k = g * q + r
    BY RemainderLess
  <1> HIDE DEF q, r
  <1>2. r = g * (k - q)
    BY <1>1
  <1>3. CASE k - q >= 1
    <2>1. g * (k - q) >= g
      BY <1>1, <1>3
    <2> QED
      BY <1>1, <1>2, <2>1
  <1>4. CASE k - q <= -1
    <2>1. g * (k - q) <= -g
      BY <1>1, <1>4
    <2> QED
      BY <1>1, <1>2, <2>1
  <1> QED
    BY <1>1, <1>3, <1>4 DEF q

\* A greatest common divisor divides both and is a combination of them.
Divides(g, a, b) ==
    /\ g \in Nat
    /\ \E p, q \in Int : a = g * p /\ b = g * q
    /\ \E u, v \in Int : g = u * a + v * b

LEMMA GcdIs == \A a, b \in Nat : Divides(gcd[b][a], a, b)
  <1> DEFINE G == {b \in Nat : \A a \in Nat : Divides(gcd[b][a], a, b)}
  <1>1. ASSUME NEW b \in Nat, \A k \in Nat : k < b => k \in G, NEW a \in Nat
        PROVE  Divides(gcd[b][a], a, b)
    <2>1. gcd[b][a] = IF b = 0 THEN a ELSE gcd[a % b][b]
      BY GcdIsEuclid DEF Euclid
    <2>2. CASE b = 0
      <3>1. a = a * 1 /\ b = a * 0 /\ a = 1 * a + 0 * b
        BY <2>2
      <3> QED
        BY <2>1, <2>2, <3>1 DEF Divides
    <2>3. CASE b # 0
      <3> DEFINE r == a % b
                 t == a \div b
                 g == gcd[r][b]
      <3>1. r \in Nat /\ r < b /\ t \in Int /\ a = b * t + r
        BY <2>3, RemainderLess
      <3>2. gcd[b][a] = g
        BY <2>1, <2>3
      <3> HIDE DEF r, t
      <3>3. Divides(g, b, r)
        BY <1>1, <3>1
      <3> HIDE DEF g
      <3>4. PICK p, q \in Int : b = g * p /\ r = g * q
        BY <3>3 DEF Divides
      <3>5. PICK u, v \in Int : g = u * b + v * r
        BY <3>3 DEF Divides
      <3>6. g \in Nat
        BY <3>3 DEF Divides
      <3>7. p * t + q \in Int /\ u - v * t \in Int
        BY <3>1
      <3>8. a = g * (p * t + q)
        <4>1. b * t = (g * p) * t
          BY <3>4
        <4>2. (g * p) * t = g * (p * t) /\ g * (p * t + q) = g * (p * t) + g * q
          BY <3>1, <3>6
        <4> QED
          BY <3>1, <3>4, <4>1, <4>2
      <3>9. g = v * a + (u - v * t) * b
        <4>1. v * a = v * (b * t) + v * r
          BY <3>1
        <4>2. (u - v * t) * b = u * b - v * (b * t)
          BY <3>1
        <4> QED
          BY <3>1, <3>5, <4>1, <4>2
      <3> QED
        BY <3>2, <3>4, <3>6, <3>7, <3>8, <3>9 DEF Divides
    <2> QED
      BY <2>2, <2>3
  <1> HIDE DEF Divides
  <1>2. \A b \in Nat : (\A k \in Nat : k < b => k \in G) => b \in G
    BY <1>1
  <1> HIDE DEF G
  <1>3. \A b \in Nat : b \in G
    BY <1>2, StrongInduction
  <1> QED
    BY <1>3 DEF G

\* In lowest terms.
Lowest(x) ==
    /\ x.n \in Int /\ x.d \in Nat \ {0}
    /\ x = [n |-> x.n, d |-> x.d]
    /\ \E u, v \in Int : u * x.n + v * x.d = 1

LEMMA SignOf == ASSUME NEW n \in Int PROVE Abs(n) \in Nat /\ (Abs(n) = n \/ Abs(n) = -n)
  BY DEF Abs

LEMMA FractionLowest ==
    ASSUME NEW n \in Int, NEW d \in Int, d # 0
    PROVE  Lowest(Fraction(n, d)) /\ Fraction(n, d).n * d = n * Fraction(n, d).d
  <1> DEFINE g == gcd[Abs(d)][Abs(n)]
             s == IF d < 0 THEN -1 ELSE 1
             x == Fraction(n, d)
  <1>1. Abs(n) \in Nat /\ Abs(d) \in Nat /\ Abs(d) > 0 /\ Abs(d) = s * d
    BY DEF Abs
  <1>2. x = [n |-> (s * n) \div g, d |-> (s * d) \div g]
    BY DEF Fraction
  <1>3. Divides(g, Abs(n), Abs(d))
    BY <1>1, GcdIs
  <1>4. s \in {-1, 1}
    OBVIOUS
  <1> HIDE DEF g, s, x
  <1>5. PICK p, q \in Int : Abs(n) = g * p /\ Abs(d) = g * q
    BY <1>3 DEF Divides
  <1>6. PICK u, v \in Int : g = u * Abs(n) + v * Abs(d)
    BY <1>3 DEF Divides
  <1>7. g \in Nat /\ g # 0
    <2>1. g \in Nat
      BY <1>3 DEF Divides
    <2>2. g = 0 => g * q = 0
      BY <2>1
    <2> QED
      BY <1>1, <1>5, <2>1, <2>2
  <1>8. q > 0
    <2>1. q <= 0 => g * q <= 0
      BY <1>7
    <2> QED
      BY <1>1, <1>5, <2>1
  <1>9. u * p + v * q = 1
    <2>1. g * 1 = g * (u * p + v * q)
      <3>1. u * Abs(n) = g * (u * p) /\ v * Abs(d) = g * (v * q)
        BY <1>5, <1>7
      <3>2. g * (u * p + v * q) = g * (u * p) + g * (v * q)
        BY <1>7
      <3> QED
        BY <1>6, <1>7, <3>1, <3>2
    <2> QED
      BY <1>7, <2>1, Cancel
  <1>10. PICK e \in {-1, 1} : s * n = g * (e * p) /\ s * n = e * Abs(n)
    <2>1. s * n = Abs(n) \/ s * n = -Abs(n)
      BY <1>4, SignOf
    <2>2. g * (1 * p) = g * p /\ g * ((-1) * p) = -(g * p)
      BY <1>7
    <2>3. CASE s * n = Abs(n)
      <3>1. s * n = g * (1 * p) /\ s * n = 1 * Abs(n)
        BY <1>1, <1>5, <2>2, <2>3
      <3> QED
        BY <3>1
    <2>4. CASE s * n = -Abs(n)
      <3>1. s * n = g * ((-1) * p) /\ s * n = (-1) * Abs(n)
        BY <1>1, <1>5, <2>2, <2>4
      <3> QED
        BY <3>1
    <2> QED
      BY <2>1, <2>3, <2>4
  <1>11. e * p \in Int /\ e * u \in Int
    OBVIOUS
  <1>12. x.n = e * p /\ x.d = q
    <2>1. (g * (e * p)) \div g = e * p /\ (g * q) \div g = q
      BY <1>7, <1>11, DividesExactly
    <2>2. s * d = g * q
      BY <1>1, <1>5
    <2> QED
      BY <1>2, <1>10, <2>1, <2>2
  <1>13. (e * u) * (e * p) + v * q = 1
    <2>1. (e * u) * (e * p) = u * p
      BY <1>10
    <2> QED
      BY <1>9, <2>1
  <1>14. Lowest(x)
    <2>1. x = [n |-> x.n, d |-> x.d]
      BY <1>2
    <2> QED
      BY <1>8, <1>11, <1>12, <1>13, <2>1 DEF Lowest
  <1>15. (e * p) * d = n * q
    <2>1. s * ((e * p) * d) = (e * p) * (g * q)
      <3>1. s * ((e * p) * d) = (e * p) * (s * d)
        BY <1>4, <1>11
      <3> QED
        BY <1>1, <1>5, <3>1
    <2>2. s * (n * q) = (g * (e * p)) * q
      <3>1. s * (n * q) = (s * n) * q
        BY <1>4
      <3> QED
        BY <1>10, <3>1
    <2>3. (e * p) * (g * q) = (g * (e * p)) * q
      BY <1>7, <1>11
    <2>4. s * ((e * p) * d) = s * (n * q) /\ (e * p) * d \in Int /\ n * q \in Int
      BY <1>11, <2>1, <2>2, <2>3
    <2> QED
      BY <1>4, <2>4, Cancel
  <1> QED
    BY <1>12, <1>14, <1>15 DEF x

\* Of two fractions in lowest terms that are equal each divides the other.
LEMMA DenominatorDivides ==
    ASSUME NEW x, NEW y, Lowest(x), Lowest(y), x.n * y.d = y.n * x.d
    PROVE  x.d <= y.d
  <1>1. PICK u, v \in Int : u * x.n + v * x.d = 1
    BY DEF Lowest
  <1>2. x.n \in Int /\ y.n \in Int /\ x.d \in Nat /\ y.d \in Nat /\ x.d > 0 /\ y.d > 0
    BY DEF Lowest
  <1> DEFINE a == x.n
             b == x.d
             c == y.n
             e == y.d
             k == u * c + v * e
  <1> HIDE DEF a, b, c, e
  <1>3. a \in Int /\ c \in Int /\ b \in Nat /\ e \in Nat /\ b > 0 /\ e > 0 /\ a * e = c * b /\ u * a + v * b = 1
    BY <1>1, <1>2 DEF a, b, c, e
  <1>4. e = b * k
    <2>1. e * (u * a + v * b) = u * (a * e) + v * (b * e)
      BY <1>3
    <2>2. b * k = u * (c * b) + v * (b * e)
      BY <1>3
    <2> QED
      BY <1>3, <2>1, <2>2
  <1>5. k \in Int
    BY <1>3
  <1> HIDE DEF k
  <1>6. k >= 1
    <2>1. k <= 0 => b * k <= 0
      BY <1>3, <1>5
    <2> QED
      BY <1>3, <1>4, <1>5, <2>1
  <1>7. b * k >= b
    BY <1>3, <1>5, <1>6
  <1> QED
    BY <1>3, <1>4, <1>7 DEF b, e

LEMMA EqualIsSame ==
    ASSUME NEW x, NEW y, Lowest(x), Lowest(y), x.n * y.d = y.n * x.d
    PROVE  x = y
  <1>1. x.n \in Int /\ y.n \in Int /\ x.d \in Nat /\ y.d \in Nat /\ x.d # 0 /\ y.d # 0
    BY DEF Lowest
  <1>2. x.d = y.d
    BY <1>1, DenominatorDivides
  <1>3. x.d * x.n = x.d * y.n
    BY <1>1, <1>2
  <1>4. x.n = y.n
    BY <1>1, <1>3, Cancel
  <1> QED
    BY <1>2, <1>4 DEF Lowest

\* A fraction that equals one in lowest terms is it.
LEMMA FractionIs ==
    ASSUME NEW x, Lowest(x), NEW n \in Int, NEW d \in Int, d # 0, n * x.d = x.n * d
    PROVE  Fraction(n, d) = x
  <1> DEFINE y == Fraction(n, d)
  <1>1. Lowest(y) /\ y.n * d = n * y.d
    BY FractionLowest
  <1> HIDE DEF y
  <1> DEFINE a == x.n
             b == x.d
             c == y.n
             e == y.d
  <1>2. a \in Int /\ c \in Int /\ b \in Int /\ e \in Int
    BY <1>1 DEF Lowest
  <1> HIDE DEF a, b, c, e
  <1>3. c * d = n * e /\ n * b = a * d
    BY <1>1 DEF a, b, c, e
  <1>4. d * (c * b) = d * (a * e)
    <2>1. d * (c * b) = (c * d) * b /\ d * (a * e) = (a * d) * e
      BY <1>2
    <2>2. (n * e) * b = (n * b) * e
      BY <1>2
    <2> QED
      BY <1>3, <2>1, <2>2
  <1>5. c * b = a * e
    BY <1>2, <1>4, Cancel
  <1>6. y = x
    BY <1>1, <1>5, EqualIsSame DEF a, b, c, e
  <1> QED
    BY <1>6 DEF y

LEMMA RateLowest == ASSUME NEW r \in Int PROVE Lowest(Rate(r))
  BY ForecastAssumption, FractionLowest DEF Rate

LEMMA WholeLowest == ASSUME NEW n \in Int PROVE Lowest(Whole(n))
  <1>1. 0 * n + 1 * 1 = 1
    OBVIOUS
  <1> QED
    BY <1>1 DEF Lowest, Whole

\* What a sum, a difference, a product and a quotient are made of.
LEMMA PartsOf ==
    ASSUME NEW x, NEW y, Lowest(x), Lowest(y)
    PROVE  /\ x.n \in Int /\ y.n \in Int /\ x.d \in Int /\ y.d \in Int /\ x.d > 0 /\ y.d > 0
           /\ x.n * y.d + y.n * x.d \in Int /\ x.n * y.d - y.n * x.d \in Int
           /\ x.d * y.d \in Int /\ x.d * y.d # 0 /\ x.n * y.n \in Int /\ x.n * y.d \in Int
           /\ x.d * y.n \in Int /\ (y.n # 0 => x.d * y.n # 0)
  <1>1. x.n \in Int /\ y.n \in Int /\ x.d \in Int /\ y.d \in Int /\ x.d > 0 /\ y.d > 0
    BY DEF Lowest
  <1>2. \A b, k \in Int : b # 0 /\ k # 0 => b * k # 0
    BY NonZeroProduct
  <1>3. x.d * y.d # 0 /\ (y.n # 0 => x.d * y.n # 0)
    <2> DEFINE b == x.d
               c == y.n
               e == y.d
    <2>1. b \in Int /\ c \in Int /\ e \in Int /\ b # 0 /\ e # 0
      BY <1>1
    <2> HIDE DEF b, c, e
    <2>2. b * e # 0 /\ (c # 0 => b * c # 0)
      BY <1>2, <2>1
    <2> QED
      BY <2>2 DEF b, c, e
  <1>4. \A a, b, c, e \in Int : /\ a * e + c * b \in Int /\ a * e - c * b \in Int
                               /\ b * e \in Int /\ a * c \in Int /\ a * e \in Int /\ b * c \in Int
    OBVIOUS
  <1> QED
    BY <1>1, <1>3, <1>4, Zenon

LEMMA ResultLowest ==
    ASSUME NEW x, NEW y, Lowest(x), Lowest(y)
    PROVE  /\ Lowest(Plus(x, y)) /\ Lowest(Minus(x, y)) /\ Lowest(Times(x, y))
           /\ y.n # 0 => Lowest(Over(x, y))
  <1>1. Lowest(Plus(x, y))
    BY PartsOf, FractionLowest DEF Plus
  <1>2. Lowest(Minus(x, y))
    BY PartsOf, FractionLowest DEF Minus
  <1>3. Lowest(Times(x, y))
    BY PartsOf, FractionLowest DEF Times
  <1>4. y.n # 0 => Lowest(Over(x, y))
    BY PartsOf, FractionLowest DEF Over
  <1> QED
    BY <1>1, <1>2, <1>3, <1>4

LEMMA PlusCommutes ==
    ASSUME NEW x, NEW y, Lowest(x), Lowest(y)
    PROVE  Plus(x, y) = Plus(y, x)
  <1>1. x.n * y.d + y.n * x.d = y.n * x.d + x.n * y.d /\ x.d * y.d = y.d * x.d
    BY PartsOf
  <1> QED
    BY <1>1 DEF Plus

\* Adding undoes subtracting.
LEMMA PlusMinus ==
    ASSUME NEW x, NEW y, Lowest(x), Lowest(y)
    PROVE  Plus(Minus(x, y), y) = x
  <1> DEFINE z == Minus(x, y)
             a == x.n
             b == x.d
             c == y.n
             e == y.d
             f == z.n
             g == z.d
  <1>1. /\ a \in Int /\ b \in Int /\ c \in Int /\ e \in Int /\ a * e - c * b \in Int
        /\ b * e \in Int /\ b * e # 0
    BY PartsOf
  <1>2. Lowest(z) /\ f * (b * e) = (a * e - c * b) * g
    BY <1>1, FractionLowest DEF Minus
  <1> HIDE DEF z
  <1>3. f \in Int /\ g \in Int /\ f * e + c * g \in Int /\ g * e \in Int /\ g * e # 0
    BY <1>2, PartsOf
  <1>4. Plus(z, y) = Fraction(f * e + c * g, g * e)
    BY DEF Plus
  <1> HIDE DEF a, b, c, e, f, g
  <1>5. (f * e + c * g) * b = a * (g * e)
    <2>1. (f * e + c * g) * b = f * (b * e) + (c * b) * g
      BY <1>1, <1>3
    <2>2. (a * e - c * b) * g = a * (g * e) - (c * b) * g
      BY <1>1, <1>3
    <2>3. f * (b * e) \in Int /\ (c * b) * g \in Int /\ a * (g * e) \in Int
      BY <1>1, <1>3
    <2> QED
      BY <1>2, <2>1, <2>2, <2>3
  <1>6. Fraction(f * e + c * g, g * e) = x
    BY <1>3, <1>5, FractionIs DEF a, b
  <1> QED
    BY <1>4, <1>6 DEF z

\* Multiplying undoes dividing.
LEMMA TimesOver ==
    ASSUME NEW x, NEW y, Lowest(x), Lowest(y), y.n # 0
    PROVE  Times(y, Over(x, y)) = x
  <1> DEFINE z == Over(x, y)
             a == x.n
             b == x.d
             c == y.n
             e == y.d
             f == z.n
             g == z.d
  <1>1. a \in Int /\ b \in Int /\ c \in Int /\ e \in Int /\ a * e \in Int /\ b * c \in Int /\ b * c # 0
    BY PartsOf
  <1>2. Lowest(z) /\ f * (b * c) = (a * e) * g
    BY <1>1, FractionLowest DEF Over
  <1> HIDE DEF z
  <1>3. f \in Int /\ g \in Int /\ c * f \in Int /\ e * g \in Int /\ e * g # 0
    BY <1>2, PartsOf
  <1>4. Times(y, z) = Fraction(c * f, e * g)
    BY DEF Times
  <1> HIDE DEF a, b, c, e, f, g
  <1>5. (c * f) * b = a * (e * g)
    <2>1. (c * f) * b = f * (b * c) /\ a * (e * g) = (a * e) * g
      BY <1>1, <1>3
    <2> QED
      BY <1>2, <2>1
  <1>6. Fraction(c * f, e * g) = x
    BY <1>3, <1>5, FractionIs DEF a, b
  <1> QED
    BY <1>4, <1>6 DEF z

\* A step of nothing stays where it is.
LEMMA PlusNothing ==
    ASSUME NEW x, Lowest(x)
    PROVE  Plus(x, Rate(0)) = x
  <1> DEFINE z == Rate(0)
             a == x.n
             b == x.d
             f == z.n
             g == z.d
  <1>1. Unit \in Int /\ Unit # 0
    BY ForecastAssumption
  <1>2. Lowest(z) /\ f * Unit = 0 * g
    BY <1>1, FractionLowest DEF Rate
  <1> HIDE DEF z
  <1>3. /\ a \in Int /\ b \in Int /\ f \in Int /\ g \in Int /\ a * g + f * b \in Int
        /\ b * g \in Int /\ b * g # 0
    BY <1>2, PartsOf
  <1>4. Plus(x, z) = Fraction(a * g + f * b, b * g)
    BY DEF Plus
  <1> HIDE DEF a, b, f, g
  <1>5. f = 0
    BY <1>1, <1>2, <1>3, NonZeroProduct
  <1>6. (a * g + f * b) * b = a * (b * g)
    BY <1>3, <1>5
  <1>7. Fraction(a * g + f * b, b * g) = x
    BY <1>3, <1>6, FractionIs DEF a, b
  <1> QED
    BY <1>4, <1>7 DEF z

-----------------------------------------------------------------------------
(***************************************************************************)
(* Sums and products of fractions are those of what they are made of, so   *)
(* the laws of arithmetic are theirs too.                                  *)
(***************************************************************************)
LEMMA FractionSame ==
    ASSUME NEW n \in Int, NEW d \in Int, NEW k \in Int, NEW e \in Int, d # 0, e # 0, n * e = k * d
    PROVE  Fraction(n, d) = Fraction(k, e)
  <1> DEFINE x == Fraction(k, e)
             a == x.n
             b == x.d
  <1>1. Lowest(x) /\ a * e = k * b /\ a \in Int /\ b \in Int
    BY FractionLowest DEF Lowest
  <1> HIDE DEF x
  <1> HIDE DEF a, b
  <1>2. e * (n * b) = e * (a * d)
    <2>1. e * (n * b) = (n * e) * b /\ e * (a * d) = (a * e) * d
      BY <1>1
    <2>2. (k * d) * b = (k * b) * d
      BY <1>1
    <2> QED
      BY <1>1, <2>1, <2>2
  <1>3. n * b = a * d
    BY <1>1, <1>2, Cancel
  <1>4. Fraction(n, d) = x
    BY <1>1, <1>3, FractionIs DEF a, b
  <1> QED
    BY <1>4 DEF x

LEMMA PlusFractions ==
    ASSUME NEW n \in Int, NEW d \in Int, NEW k \in Int, NEW e \in Int, d # 0, e # 0
    PROVE  Plus(Fraction(n, d), Fraction(k, e)) = Fraction(n * e + k * d, d * e)
  <1> DEFINE x == Fraction(n, d)
             y == Fraction(k, e)
             a == x.n
             b == x.d
             f == y.n
             g == y.d
  <1>1. Lowest(x) /\ Lowest(y) /\ a * d = n * b /\ f * e = k * g
    BY FractionLowest
  <1> HIDE DEF x, y
  <1>2. /\ a \in Int /\ b \in Int /\ f \in Int /\ g \in Int
        /\ a * g + f * b \in Int /\ b * g \in Int /\ b * g # 0
    BY <1>1, PartsOf
  <1>3. Plus(x, y) = Fraction(a * g + f * b, b * g)
    BY DEF Plus
  <1> HIDE DEF a, b, f, g
  <1>4. (a * g + f * b) * (d * e) = (n * e + k * d) * (b * g)
    <2>1. (a * g + f * b) * (d * e) = (a * d) * (g * e) + (f * e) * (b * d)
      BY <1>2
    <2>2. (n * e + k * d) * (b * g) = (n * b) * (g * e) + (k * g) * (b * d)
      BY <1>2
    <2> QED
      BY <1>1, <2>1, <2>2
  <1>5. n * e + k * d \in Int /\ d * e \in Int /\ d * e # 0
    BY NonZeroProduct
  <1>6. Fraction(a * g + f * b, b * g) = Fraction(n * e + k * d, d * e)
    BY <1>2, <1>4, <1>5, FractionSame
  <1> QED
    BY <1>3, <1>6 DEF x, y

LEMMA TimesFractions ==
    ASSUME NEW n \in Int, NEW d \in Int, NEW k \in Int, NEW e \in Int, d # 0, e # 0
    PROVE  Times(Fraction(n, d), Fraction(k, e)) = Fraction(n * k, d * e)
  <1> DEFINE x == Fraction(n, d)
             y == Fraction(k, e)
             a == x.n
             b == x.d
             f == y.n
             g == y.d
  <1>1. Lowest(x) /\ Lowest(y) /\ a * d = n * b /\ f * e = k * g
    BY FractionLowest
  <1> HIDE DEF x, y
  <1>2. /\ a \in Int /\ b \in Int /\ f \in Int /\ g \in Int
        /\ a * f \in Int /\ b * g \in Int /\ b * g # 0
    BY <1>1, PartsOf
  <1>3. Times(x, y) = Fraction(a * f, b * g)
    BY DEF Times
  <1> HIDE DEF a, b, f, g
  <1>4. (a * f) * (d * e) = (n * k) * (b * g)
    <2>1. (a * f) * (d * e) = (a * d) * (f * e) /\ (n * k) * (b * g) = (n * b) * (k * g)
      BY <1>2
    <2> QED
      BY <1>1, <2>1
  <1>5. n * k \in Int /\ d * e \in Int /\ d * e # 0
    BY NonZeroProduct
  <1>6. Fraction(a * f, b * g) = Fraction(n * k, d * e)
    BY <1>2, <1>4, <1>5, FractionSame
  <1> QED
    BY <1>3, <1>6 DEF x, y

\* What is in lowest terms is the fraction of its own parts.
LEMMA AsFraction ==
    ASSUME NEW x, Lowest(x)
    PROVE  /\ x.n \in Int /\ x.d \in Int /\ x.d # 0 /\ x = Fraction(x.n, x.d)
  <1>1. x.n \in Int /\ x.d \in Int /\ x.d # 0 /\ x.n * x.d = x.n * x.d
    BY DEF Lowest
  <1> QED
    BY <1>1, FractionIs

LEMMA PlusAssociates ==
    ASSUME NEW x, NEW y, NEW z, Lowest(x), Lowest(y), Lowest(z)
    PROVE  Plus(Plus(x, y), z) = Plus(x, Plus(y, z))
  <1> DEFINE a == x.n
             b == x.d
             c == y.n
             e == y.d
             f == z.n
             g == z.d
  <1>1. /\ a \in Int /\ b \in Int /\ b # 0 /\ c \in Int /\ e \in Int /\ e # 0
        /\ f \in Int /\ g \in Int /\ g # 0
        /\ x = Fraction(a, b) /\ y = Fraction(c, e) /\ z = Fraction(f, g)
    BY AsFraction
  <1> HIDE DEF a, b, c, e, f, g
  <1>2. /\ a * e + c * b \in Int /\ b * e \in Int /\ b * e # 0
        /\ c * g + f * e \in Int /\ e * g \in Int /\ e * g # 0
    BY <1>1, NonZeroProduct
  <1>3. Plus(Plus(x, y), z) = Fraction((a * e + c * b) * g + f * (b * e), (b * e) * g)
    <2>1. Plus(x, y) = Fraction(a * e + c * b, b * e)
      BY <1>1, PlusFractions
    <2> DEFINE n == a * e + c * b
               d == b * e
    <2>2. n \in Int /\ d \in Int /\ d # 0
      BY <1>2
    <2> HIDE DEF n, d
    <2>3. Plus(Fraction(n, d), Fraction(f, g)) = Fraction(n * g + f * d, d * g)
      BY <1>1, <2>2, PlusFractions
    <2> QED
      BY <1>1, <2>1, <2>3 DEF n, d
  <1>4. Plus(x, Plus(y, z)) = Fraction(a * (e * g) + (c * g + f * e) * b, b * (e * g))
    <2>1. Plus(y, z) = Fraction(c * g + f * e, e * g)
      BY <1>1, PlusFractions
    <2> DEFINE n == c * g + f * e
               d == e * g
    <2>2. n \in Int /\ d \in Int /\ d # 0
      BY <1>2
    <2> HIDE DEF n, d
    <2>3. Plus(Fraction(a, b), Fraction(n, d)) = Fraction(a * d + n * b, b * d)
      BY <1>1, <2>2, PlusFractions
    <2> QED
      BY <1>1, <2>1, <2>3 DEF n, d
  <1>5. (a * e + c * b) * g + f * (b * e) = a * (e * g) + (c * g + f * e) * b
    BY <1>1
  <1>6. (b * e) * g = b * (e * g)
    BY <1>1
  <1> QED
    BY <1>3, <1>4, <1>5, <1>6

LEMMA TimesCommutes ==
    ASSUME NEW x, NEW y, Lowest(x), Lowest(y)
    PROVE  Times(x, y) = Times(y, x)
  <1>1. x.n * y.n = y.n * x.n /\ x.d * y.d = y.d * x.d
    BY PartsOf
  <1> QED
    BY <1>1 DEF Times

LEMMA TimesAssociates ==
    ASSUME NEW x, NEW y, NEW z, Lowest(x), Lowest(y), Lowest(z)
    PROVE  Times(Times(x, y), z) = Times(x, Times(y, z))
  <1> DEFINE a == x.n
             b == x.d
             c == y.n
             e == y.d
             f == z.n
             g == z.d
  <1>1. /\ a \in Int /\ b \in Int /\ b # 0 /\ c \in Int /\ e \in Int /\ e # 0
        /\ f \in Int /\ g \in Int /\ g # 0
        /\ x = Fraction(a, b) /\ y = Fraction(c, e) /\ z = Fraction(f, g)
    BY AsFraction
  <1> HIDE DEF a, b, c, e, f, g
  <1>2. /\ a * c \in Int /\ b * e \in Int /\ b * e # 0
        /\ c * f \in Int /\ e * g \in Int /\ e * g # 0
    BY <1>1, NonZeroProduct
  <1>3. Times(Times(x, y), z) = Fraction((a * c) * f, (b * e) * g)
    <2>1. Times(x, y) = Fraction(a * c, b * e)
      BY <1>1, TimesFractions
    <2> DEFINE n == a * c
               d == b * e
    <2>2. n \in Int /\ d \in Int /\ d # 0
      BY <1>2
    <2> HIDE DEF n, d
    <2>3. Times(Fraction(n, d), Fraction(f, g)) = Fraction(n * f, d * g)
      BY <1>1, <2>2, TimesFractions
    <2> QED
      BY <1>1, <2>1, <2>3 DEF n, d
  <1>4. Times(x, Times(y, z)) = Fraction(a * (c * f), b * (e * g))
    <2>1. Times(y, z) = Fraction(c * f, e * g)
      BY <1>1, TimesFractions
    <2> DEFINE n == c * f
               d == e * g
    <2>2. n \in Int /\ d \in Int /\ d # 0
      BY <1>2
    <2> HIDE DEF n, d
    <2>3. Times(Fraction(a, b), Fraction(n, d)) = Fraction(a * n, b * d)
      BY <1>1, <2>2, TimesFractions
    <2> QED
      BY <1>1, <2>1, <2>3 DEF n, d
  <1>5. (a * c) * f = a * (c * f) /\ (b * e) * g = b * (e * g)
    BY <1>1
  <1> QED
    BY <1>3, <1>4, <1>5

LEMMA TimesPlus ==
    ASSUME NEW x, NEW y, NEW z, Lowest(x), Lowest(y), Lowest(z)
    PROVE  Times(Plus(x, y), z) = Plus(Times(x, z), Times(y, z))
  <1> DEFINE a == x.n
             b == x.d
             c == y.n
             e == y.d
             f == z.n
             g == z.d
  <1>1. /\ a \in Int /\ b \in Int /\ b # 0 /\ c \in Int /\ e \in Int /\ e # 0
        /\ f \in Int /\ g \in Int /\ g # 0
        /\ x = Fraction(a, b) /\ y = Fraction(c, e) /\ z = Fraction(f, g)
    BY AsFraction
  <1> HIDE DEF a, b, c, e, f, g
  <1>2. /\ a * e + c * b \in Int /\ b * e \in Int /\ b * e # 0
        /\ a * f \in Int /\ b * g \in Int /\ b * g # 0
        /\ c * f \in Int /\ e * g \in Int /\ e * g # 0
    BY <1>1, NonZeroProduct
  <1>3. Times(Plus(x, y), z) = Fraction((a * e + c * b) * f, (b * e) * g)
    <2>1. Plus(x, y) = Fraction(a * e + c * b, b * e)
      BY <1>1, PlusFractions
    <2> DEFINE n == a * e + c * b
               d == b * e
    <2>2. n \in Int /\ d \in Int /\ d # 0
      BY <1>2
    <2> HIDE DEF n, d
    <2>3. Times(Fraction(n, d), Fraction(f, g)) = Fraction(n * f, d * g)
      BY <1>1, <2>2, TimesFractions
    <2> QED
      BY <1>1, <2>1, <2>3 DEF n, d
  <1>4. Plus(Times(x, z), Times(y, z)) =
            Fraction((a * f) * (e * g) + (c * f) * (b * g), (b * g) * (e * g))
    <2>1. Times(x, z) = Fraction(a * f, b * g)
      BY <1>1, TimesFractions
    <2>4. Times(y, z) = Fraction(c * f, e * g)
      BY <1>1, TimesFractions
    <2> DEFINE n == a * f
               d == b * g
               k == c * f
               h == e * g
    <2>2. n \in Int /\ d \in Int /\ d # 0 /\ k \in Int /\ h \in Int /\ h # 0
      BY <1>2
    <2> HIDE DEF n, d, k, h
    <2>3. Plus(Fraction(n, d), Fraction(k, h)) = Fraction(n * h + k * d, d * h)
      BY <2>2, PlusFractions
    <2> QED
      BY <2>1, <2>3, <2>4 DEF n, d, k, h
  <1> DEFINE p == (a * e + c * b) * f
             q == (b * e) * g
             r == (a * f) * (e * g) + (c * f) * (b * g)
             s == (b * g) * (e * g)
  <1>5. p \in Int /\ q \in Int /\ r \in Int /\ s \in Int /\ q # 0 /\ s # 0
    BY <1>1, <1>2, NonZeroProduct
  <1>6. p * s = r * q
    <2>1. r = p * g /\ s = q * g
      BY <1>1
    <2> HIDE DEF p, q, r, s
    <2> QED
      BY <1>1, <1>5, <2>1
  <1> HIDE DEF p, q, r, s
  <1>7. Fraction(p, q) = Fraction(r, s)
    BY <1>5, <1>6, FractionSame
  <1> QED
    BY <1>3, <1>4, <1>7 DEF p, q, r, s

LEMMA TimesOne ==
    ASSUME NEW x, Lowest(x)
    PROVE  Times(x, Whole(1)) = x /\ Times(Whole(1), x) = x
  <1>1. x.n \in Int /\ x.d \in Int /\ x = Fraction(x.n, x.d)
    BY AsFraction
  <1>2. x.n * 1 = x.n /\ x.d * 1 = x.d /\ 1 * x.n = x.n /\ 1 * x.d = x.d
    BY <1>1
  <1> QED
    BY <1>1, <1>2 DEF Times, Whole

LEMMA PlusZero ==
    ASSUME NEW x, Lowest(x)
    PROVE  Plus(Whole(0), x) = x
  <1>1. x.n \in Int /\ x.d \in Int /\ x = Fraction(x.n, x.d)
    BY AsFraction
  <1>2. 0 * x.d + x.n * 1 = x.n /\ 1 * x.d = x.d
    BY <1>1
  <1> QED
    BY <1>1, <1>2 DEF Plus, Whole

\* A fraction of something is not nothing.
LEMMA SomethingIs ==
    ASSUME NEW n \in Int, NEW d \in Int, n # 0, d # 0
    PROVE  Fraction(n, d).n # 0
  <1> DEFINE x == Fraction(n, d)
  <1>1. Lowest(x) /\ x.n * d = n * x.d
    BY FractionLowest
  <1> HIDE DEF x
  <1>2. x.n \in Int /\ x.d \in Int /\ x.d # 0
    BY <1>1 DEF Lowest
  <1>3. n * x.d # 0
    BY <1>2, NonZeroProduct
  <1>4. x.n # 0
    BY <1>1, <1>2, <1>3
  <1> QED
    BY <1>4 DEF x

\* What can be divided by.
Divisor(x) == Lowest(x) /\ x.n # 0

LEMMA DivisorTimes ==
    ASSUME NEW x, NEW y, Divisor(x), Divisor(y)
    PROVE  Divisor(Times(x, y))
  <1>1. /\ x.n \in Int /\ y.n \in Int /\ x.n * y.n \in Int
        /\ x.d * y.d \in Int /\ x.d * y.d # 0
    BY PartsOf DEF Divisor
  <1>2. x.n * y.n # 0
    BY <1>1, NonZeroProduct DEF Divisor
  <1> QED
    BY <1>1, <1>2, SomethingIs, FractionLowest DEF Divisor, Times

LEMMA TimesCancels ==
    ASSUME NEW q, NEW x, NEW y, Divisor(q), Lowest(x), Lowest(y), Times(q, x) = Times(q, y)
    PROVE  x = y
  <1> DEFINE inverse == Over(Whole(1), q)
  <1>1. Lowest(Whole(1)) /\ Lowest(q) /\ q.n # 0
    BY WholeLowest DEF Divisor
  <1>2. Lowest(inverse) /\ Times(q, inverse) = Whole(1)
    BY <1>1, ResultLowest, TimesOver
  <1> HIDE DEF inverse
  <1>3. Times(inverse, q) = Whole(1)
    BY <1>1, <1>2, TimesCommutes
  <1>4. Times(inverse, Times(q, x)) = x
    BY <1>1, <1>2, <1>3, TimesAssociates, TimesOne
  <1>5. Times(inverse, Times(q, y)) = y
    BY <1>1, <1>2, <1>3, TimesAssociates, TimesOne
  <1> QED
    BY <1>4, <1>5

-----------------------------------------------------------------------------
(***************************************************************************)
(* Steps taken one after the other, and powers and discounts, which are    *)
(* made of them.                                                           *)
(***************************************************************************)
FoldedUpTo(steps, start, g, n) ==
    /\ g[0] = start
    /\ \A i \in Nat : i < n => g[i + 1] = steps[i + 1][g[i]]

LEMMA FoldedExists ==
    ASSUME NEW steps, NEW start
    PROVE  \A n \in Nat : \E g : FoldedUpTo(steps, start, g, n)
  <1> DEFINE G == {n \in Nat : \E g : FoldedUpTo(steps, start, g, n)}
  <1>1. 0 \in G
    <2>1. FoldedUpTo(steps, start, [i \in Nat |-> start], 0)
      BY DEF FoldedUpTo
    <2> QED
      BY <2>1
  <1>2. ASSUME NEW n \in Nat, n \in G
        PROVE  n + 1 \in G
    <2>1. PICK g : FoldedUpTo(steps, start, g, n)
      BY <1>2
    <2> DEFINE h == [i \in Nat |-> IF i <= n THEN g[i] ELSE steps[n + 1][g[n]]]
    <2>2. h[0] = start
      BY <2>1 DEF FoldedUpTo
    <2>3. ASSUME NEW i \in Nat, i < n + 1
          PROVE  h[i + 1] = steps[i + 1][h[i]]
      <3>1. CASE i < n
        BY <2>1, <3>1 DEF FoldedUpTo
      <3>2. CASE i = n
        BY <3>2
      <3> QED
        BY <2>3, <3>1, <3>2
    <2> HIDE DEF h
    <2>4. FoldedUpTo(steps, start, h, n + 1)
      BY <2>2, <2>3 DEF FoldedUpTo
    <2> QED
      BY <2>4
  <1> HIDE DEF G
  <1>3. \A n \in Nat : n \in G
    BY <1>1, <1>2, Induction
  <1> QED
    BY <1>3 DEF G

LEMMA FoldedAgree ==
    ASSUME NEW steps, NEW start, NEW g, NEW h, NEW n \in Nat, NEW m \in Nat,
           FoldedUpTo(steps, start, g, n), FoldedUpTo(steps, start, h, m)
    PROVE  \A i \in Nat : i <= n /\ i <= m => g[i] = h[i]
  <1> DEFINE G == {i \in Nat : i <= n /\ i <= m => g[i] = h[i]}
  <1>1. 0 \in G
    BY DEF FoldedUpTo
  <1>2. ASSUME NEW i \in Nat, i \in G
        PROVE  i + 1 \in G
    <2>1. CASE i + 1 <= n /\ i + 1 <= m
      <3>1. g[i] = h[i] /\ i < n /\ i < m
        BY <1>2, <2>1
      <3>2. g[i + 1] = steps[i + 1][g[i]] /\ h[i + 1] = steps[i + 1][h[i]]
        BY <3>1 DEF FoldedUpTo
      <3> QED
        BY <3>1, <3>2
    <2> QED
      BY <2>1
  <1> HIDE DEF G
  <1>3. \A i \in Nat : i \in G
    BY <1>1, <1>2, Induction
  <1> QED
    BY <1>3 DEF G

LEMMA FoldedIs ==
    ASSUME NEW steps, NEW start
    PROVE  /\ Folded(steps, start)[0] = start
           /\ \A n \in Nat : Folded(steps, start)[n + 1] = steps[n + 1][Folded(steps, start)[n]]
  <1> DEFINE upTo(n) == CHOOSE g : FoldedUpTo(steps, start, g, n)
             f == [n \in Nat |-> upTo(n)[n]]
  <1>1. \A n \in Nat : FoldedUpTo(steps, start, upTo(n), n)
    BY FoldedExists
  <1> HIDE DEF upTo
  <1>2. f[0] = start
    BY <1>1 DEF FoldedUpTo
  <1>3. ASSUME NEW n \in Nat
        PROVE  f[n + 1] = steps[n + 1][f[n]]
    <2>1. FoldedUpTo(steps, start, upTo(n), n) /\ FoldedUpTo(steps, start, upTo(n + 1), n + 1)
      BY <1>1
    <2>2. upTo(n)[n] = upTo(n + 1)[n]
      BY <2>1, FoldedAgree
    <2>3. upTo(n + 1)[n + 1] = steps[n + 1][upTo(n + 1)[n]]
      BY <2>1 DEF FoldedUpTo
    <2> QED
      BY <2>2, <2>3
  <1>4. f = [n \in Nat |-> IF n = 0 THEN start ELSE steps[n][f[n - 1]]]
    <2>1. ASSUME NEW n \in Nat
          PROVE  f[n] = IF n = 0 THEN start ELSE steps[n][f[n - 1]]
      <3>1. CASE n # 0
        <4>1. n - 1 \in Nat /\ (n - 1) + 1 = n
          BY <3>1
        <4> HIDE DEF f
        <4> QED
          BY <1>3, <3>1, <4>1
      <3> QED
        BY <1>2, <3>1
    <2> QED
      BY <2>1
  <1> HIDE DEF f
  <1>5. Folded(steps, start) = [n \in Nat |-> IF n = 0 THEN start ELSE steps[n][Folded(steps, start)[n - 1]]]
    BY <1>4 DEF Folded
  <1> DEFINE r == Folded(steps, start)
  <1>6. r = [n \in Nat |-> IF n = 0 THEN start ELSE steps[n][r[n - 1]]]
    BY <1>5
  <1> HIDE DEF r
  <1>7. r[0] = start /\ \A n \in Nat : r[n + 1] = steps[n + 1][r[n]]
    BY <1>6
  <1> QED
    BY <1>7 DEF r

LEMMA LowestIsFraction == ASSUME NEW x, Lowest(x) PROVE x \in Fractions
  BY DEF Lowest, Fractions

LEMMA PowerIs ==
    ASSUME NEW x, Divisor(x)
    PROVE  /\ Power(x, 0) = Whole(1)
           /\ \A k \in Nat : Divisor(Power(x, k)) /\ Power(x, k + 1) = Times(Power(x, k), x)
  <1> DEFINE steps == [i \in Nat |-> [power \in Fractions |-> Times(power, x)]]
             g == Folded(steps, Whole(1))
  <1>1. \A k \in Nat : Power(x, k) = g[k]
    BY DEF Power
  <1>2. g[0] = Whole(1) /\ \A k \in Nat : g[k + 1] = steps[k + 1][g[k]]
    BY FoldedIs
  <1> HIDE DEF g
  <1>3. ASSUME NEW k \in Nat, Divisor(g[k])
        PROVE  g[k + 1] = Times(g[k], x)
    <2>1. g[k] \in Fractions
      BY <1>3, LowestIsFraction DEF Divisor
    <2>2. steps[k + 1] = [power \in Fractions |-> Times(power, x)]
      OBVIOUS
    <2> HIDE DEF steps
    <2>3. g[k + 1] = steps[k + 1][g[k]]
      BY <1>2
    <2> QED
      BY <2>1, <2>2, <2>3
  <1> DEFINE G == {k \in Nat : Divisor(g[k])}
  <1>4. 0 \in G
    <2>1. Divisor(Whole(1))
      BY WholeLowest DEF Divisor, Whole
    <2> QED
      BY <1>2, <2>1
  <1>5. ASSUME NEW k \in Nat, k \in G
        PROVE  k + 1 \in G
    BY <1>3, <1>5, DivisorTimes
  <1> HIDE DEF G
  <1>6. \A k \in Nat : k \in G
    BY <1>4, <1>5, Induction
  <1> QED
    BY <1>1, <1>2, <1>3, <1>6 DEF G

LEMMA PowerPlus ==
    ASSUME NEW x, Divisor(x), NEW a \in Nat
    PROVE  \A b \in Nat : Power(x, a + b) = Times(Power(x, a), Power(x, b))
  <1> DEFINE P(k) == Power(x, k)
             G == {b \in Nat : P(a + b) = Times(P(a), P(b))}
  <1>1. P(0) = Whole(1) /\ \A k \in Nat : Divisor(P(k)) /\ Lowest(P(k)) /\ P(k + 1) = Times(P(k), x)
    BY PowerIs DEF Divisor
  <1>2. Lowest(x)
    BY DEF Divisor
  <1> HIDE DEF P
  <1>3. 0 \in G
    <2>1. a + 0 = a
      OBVIOUS
    <2> QED
      BY <1>1, <2>1, TimesOne
  <1>4. ASSUME NEW b \in Nat, b \in G
        PROVE  b + 1 \in G
    <2>1. a + (b + 1) = (a + b) + 1 /\ a + b \in Nat /\ b + 1 \in Nat
      OBVIOUS
    <2>2. P(a + (b + 1)) = Times(Times(P(a), P(b)), x)
      BY <1>1, <1>4, <2>1
    <2>3. Times(Times(P(a), P(b)), x) = Times(P(a), Times(P(b), x))
      BY <1>1, <1>2, TimesAssociates
    <2> QED
      BY <1>1, <2>1, <2>2, <2>3
  <1> HIDE DEF G
  <1>5. \A b \in Nat : b \in G
    BY <1>3, <1>4, Induction
  <1> QED
    BY <1>5 DEF G, P

LEMMA PowerTimes ==
    ASSUME NEW x, Divisor(x), NEW a \in Nat
    PROVE  \A k \in Nat : Power(Power(x, a), k) = Power(x, a * k)
  <1> DEFINE y == Power(x, a)
             G == {k \in Nat : Power(y, k) = Power(x, a * k)}
  <1>1. Divisor(y)
    BY PowerIs
  <1>2. \A b, c \in Nat : Power(x, b + c) = Times(Power(x, b), Power(x, c))
    BY PowerPlus
  <1>3. 0 \in G
    <2>1. a * 0 = 0
      OBVIOUS
    <2> HIDE DEF y
    <2>2. Power(y, 0) = Whole(1) /\ Power(x, 0) = Whole(1)
      BY <1>1, PowerIs
    <2> QED
      BY <2>1, <2>2
  <1>4. ASSUME NEW k \in Nat, k \in G
        PROVE  k + 1 \in G
    <2>1. a * (k + 1) = a * k + a /\ a * k \in Nat /\ k + 1 \in Nat
      OBVIOUS
    <2>2. Power(x, a * k + a) = Times(Power(x, a * k), y)
      BY <1>2, <2>1
    <2> HIDE DEF y
    <2>3. Power(y, k + 1) = Times(Power(y, k), y)
      BY <1>1, PowerIs
    <2>4. Power(y, k) = Power(x, a * k)
      BY <1>4
    <2> QED
      BY <2>1, <2>2, <2>3, <2>4
  <1> HIDE DEF G
  <1>5. \A k \in Nat : k \in G
    BY <1>3, <1>4, Induction
  <1> QED
    BY <1>5 DEF G, y

\* The times a base is compounded over: any, if it has a root, or whole years.
Within(base) == IF base \in DOMAIN Roots THEN Nat ELSE {YearLength * k : k \in Nat}

LEMMA YearIs == YearLength \in Nat /\ YearLength # 0 /\ YearLength \in Int
  BY ValuationAssumption

LEMMA MultipleIs ==
    ASSUME NEW k \in Nat
    PROVE  (YearLength * k) % YearLength = 0 /\ (YearLength * k) \div YearLength = k /\ YearLength * k \in Nat
  <1> DEFINE y == YearLength
             t == y * k
  <1>1. y \in Nat /\ y # 0 /\ t \in Nat
    BY YearIs
  <1> HIDE DEF y
  <1>2. t \div y = k
    BY <1>1, DividesExactly
  <1>3. t = y * (t \div y) + (t % y) /\ t % y \in Nat
    BY <1>1, RemainderLess
  <1> HIDE DEF t
  <1>4. t = y * k
    BY DEF t
  <1>5. t % y = 0
    BY <1>1, <1>2, <1>3, <1>4
  <1> QED
    BY <1>1, <1>2, <1>5 DEF t, y

LEMMA IsMultiple ==
    ASSUME NEW t \in Nat, t % YearLength = 0
    PROVE  t \div YearLength \in Nat /\ t = YearLength * (t \div YearLength)
  <1> DEFINE y == YearLength
             k == t \div y
  <1>1. y \in Nat /\ y # 0
    BY YearIs
  <1> HIDE DEF y
  <1>2. k \in Int /\ t = y * k + (t % y)
    BY <1>1, RemainderLess
  <1>3. t % y = 0
    BY DEF y
  <1> HIDE DEF k
  <1>4. y * k \in Int
    BY <1>1, <1>2
  <1>5. t = y * k
    BY <1>2, <1>3, <1>4
  <1>6. CASE k < 0
    <2>1. y * k < 0
      BY <1>1, <1>2, <1>6
    <2> QED
      BY <1>5, <2>1
  <1> QED
    BY <1>2, <1>5, <1>6 DEF k, y

\* What a flow is divided by that arrives so much later.
Compounded(base, t) ==
    IF t % YearLength = 0 THEN Power(base, t \div YearLength) ELSE Power(Roots[base], t)

LEMMA RootIs ==
    ASSUME NEW base \in DOMAIN Roots
    PROVE  Divisor(Roots[base]) /\ \A t \in Nat : Compounded(base, t) = Power(Roots[base], t)
  <1> DEFINE root == Roots[base]
  <1>1. /\ root.n \in Nat \ {0} /\ root.d \in Nat \ {0} /\ root = Fraction(root.n, root.d)
        /\ Power(root, YearLength) = base
    BY RootsAssumption
  <1> HIDE DEF root
  <1>2. root.n \in Int /\ root.n # 0 /\ root.d \in Int /\ root.d # 0
    BY <1>1
  <1>3. Divisor(root)
    <2>1. Lowest(Fraction(root.n, root.d))
      BY <1>2, FractionLowest
    <2> QED
      BY <1>1, <1>2, <2>1 DEF Divisor
  <1>4. ASSUME NEW t \in Nat, t % YearLength = 0
        PROVE  Power(base, t \div YearLength) = Power(root, t)
    <2> DEFINE k == t \div YearLength
    <2>1. k \in Nat /\ t = YearLength * k
      BY <1>4, IsMultiple
    <2> HIDE DEF k
    <2>2. Power(Power(root, YearLength), k) = Power(root, YearLength * k)
      BY <1>3, <2>1, YearIs, PowerTimes
    <2> QED
      BY <1>1, <2>1, <2>2 DEF k
  <1> QED
    BY <1>3, <1>4 DEF Compounded, root

LEMMA WithinIs ==
    ASSUME NEW base, NEW a \in Within(base), NEW b \in Within(base)
    PROVE  a \in Nat /\ b \in Nat /\ a + b \in Within(base)
  <1>1. CASE base \in DOMAIN Roots
    BY <1>1 DEF Within
  <1>2. CASE base \notin DOMAIN Roots
    <2>1. PICK k \in Nat, l \in Nat : a = YearLength * k /\ b = YearLength * l
      BY <1>2 DEF Within
    <2>2. a + b = YearLength * (k + l) /\ k + l \in Nat
      BY <2>1, YearIs
    <2> QED
      BY <1>2, <2>1, <2>2, YearIs DEF Within
  <1> QED
    BY <1>1, <1>2

LEMMA CompoundedIs ==
    ASSUME NEW base, Divisor(base), NEW a \in Within(base), NEW b \in Within(base)
    PROVE  /\ Divisor(Compounded(base, a))
           /\ Compounded(base, a + b) = Times(Compounded(base, a), Compounded(base, b))
  <1>1. CASE base \in DOMAIN Roots
    <2>1. a \in Nat /\ b \in Nat /\ a + b \in Nat
      BY WithinIs
    <2> DEFINE root == Roots[base]
    <2>2. Divisor(root) /\ \A t \in Nat : Compounded(base, t) = Power(root, t)
      BY <1>1, RootIs
    <2> HIDE DEF root
    <2> QED
      BY <2>1, <2>2, PowerIs, PowerPlus
  <1>2. CASE base \notin DOMAIN Roots
    <2>1. PICK k \in Nat, l \in Nat : a = YearLength * k /\ b = YearLength * l
      BY <1>2 DEF Within
    <2>2. a + b = YearLength * (k + l) /\ k + l \in Nat
      BY <2>1, YearIs
    <2>3. \A j \in Nat : Compounded(base, YearLength * j) = Power(base, j)
      BY MultipleIs DEF Compounded
    <2> QED
      BY <2>1, <2>2, <2>3, PowerIs, PowerPlus
  <1> QED
    BY <1>1, <1>2

\* Two times after one another are discounted one after the other.
LEMMA DiscountsMultiply ==
    ASSUME NEW wacc, Divisor(Plus(Whole(1), wacc)),
           NEW a \in Within(Plus(Whole(1), wacc)), NEW b \in Within(Plus(Whole(1), wacc))
    PROVE  /\ Lowest(Discount(wacc, a))
           /\ Discount(wacc, a + b) = Times(Discount(wacc, a), Discount(wacc, b))
  <1> DEFINE base == Plus(Whole(1), wacc)
             C(t) == Compounded(base, t)
             D(t) == Discount(wacc, t)
  <1>1. \A t : D(t) = Over(Whole(1), C(t))
    BY DEF Discount, Compounded
  <1>2. Divisor(C(a)) /\ Divisor(C(b)) /\ C(a + b) = Times(C(a), C(b))
    <2> HIDE DEF base
    <2>1. Divisor(base) /\ a \in Within(base) /\ b \in Within(base)
      BY DEF base
    <2> QED
      BY <2>1, CompoundedIs
  <1> DEFINE x == C(a)
             y == C(b)
             u == D(a)
             v == D(b)
             w == D(a + b)
  <1> HIDE DEF C, D
  <1>3. Divisor(x) /\ Lowest(x) /\ x.n # 0 /\ Divisor(y) /\ Lowest(y) /\ y.n # 0
    BY <1>2 DEF Divisor
  <1>4. Divisor(Times(x, y)) /\ Lowest(Times(x, y)) /\ Times(x, y).n # 0
    BY <1>3, DivisorTimes DEF Divisor
  <1>5. u = Over(Whole(1), x) /\ v = Over(Whole(1), y) /\ w = Over(Whole(1), Times(x, y))
    BY <1>1, <1>2
  <1> HIDE DEF x, y, u, v, w
  <1>6. Lowest(Whole(1))
    BY WholeLowest
  <1>7. /\ Lowest(u) /\ Times(x, u) = Whole(1)
        /\ Lowest(v) /\ Times(y, v) = Whole(1)
        /\ Lowest(w) /\ Times(Times(x, y), w) = Whole(1)
    BY <1>3, <1>4, <1>5, <1>6, ResultLowest, TimesOver
  <1>8. Lowest(Times(u, v)) /\ Lowest(Times(y, v))
    BY <1>3, <1>7, ResultLowest
  <1>9. Times(Times(x, y), Times(u, v)) = Whole(1)
    <2>1. Times(x, y) = Times(y, x)
      BY <1>3, TimesCommutes
    <2>2. Times(Times(y, x), Times(u, v)) = Times(y, Times(x, Times(u, v)))
      BY <1>3, <1>8, TimesAssociates
    <2>3. Times(x, Times(u, v)) = Times(Times(x, u), v)
      BY <1>3, <1>7, TimesAssociates
    <2>4. Times(Whole(1), v) = v
      BY <1>7, TimesOne
    <2> QED
      BY <1>7, <2>1, <2>2, <2>3, <2>4
  <1>10. w = Times(u, v)
    BY <1>4, <1>7, <1>8, <1>9, TimesCancels
  <1> QED
    BY <1>7, <1>10 DEF u, v, w, D

-----------------------------------------------------------------------------
(***************************************************************************)
(* Sums.                                                                   *)
(***************************************************************************)
Listed(xs, n) == xs = [i \in 1 .. n |-> xs[i]]

LEMMA SumIs ==
    ASSUME NEW n \in Nat, NEW xs, Listed(xs, n)
    PROVE  \E S : /\ SumOf(xs) = S[n] /\ S[0] = Whole(0)
                  /\ \A i \in 1 .. n : Lowest(S[i - 1]) => S[i] = Plus(S[i - 1], xs[i])
  <1> DEFINE steps == [i \in DOMAIN xs |-> [sum \in Fractions |-> Plus(sum, xs[i])]]
             S == Folded(steps, Whole(0))
  <1>1. DOMAIN xs = 1 .. n
    BY DEF Listed
  <1>2. Len(xs) = n
    <2>1. xs \in Seq({xs[i] : i \in 1 .. n})
      <3>1. xs \in [1 .. n -> {xs[i] : i \in 1 .. n}]
        BY DEF Listed
      <3> QED
        BY <3>1, SeqDef
    <2>2. Len(xs) \in Nat /\ DOMAIN xs = 1 .. Len(xs)
      BY <2>1, LenProperties
    <2> QED
      BY <1>1, <2>2
  <1>3. SumOf(xs) = S[n]
    BY <1>2 DEF SumOf
  <1>4. S[0] = Whole(0) /\ \A k \in Nat : S[k + 1] = steps[k + 1][S[k]]
    BY FoldedIs
  <1> HIDE DEF S
  <1>5. ASSUME NEW i \in 1 .. n, Lowest(S[i - 1])
        PROVE  S[i] = Plus(S[i - 1], xs[i])
    <2>1. i - 1 \in Nat /\ (i - 1) + 1 = i
      OBVIOUS
    <2>2. steps[i] = [sum \in Fractions |-> Plus(sum, xs[i])]
      BY <1>1
    <2> HIDE DEF steps
    <2>3. S[i] = steps[i][S[i - 1]]
      BY <1>4, <2>1
    <2>4. S[i - 1] \in Fractions
      BY <1>5, LowestIsFraction
    <2> QED
      BY <2>2, <2>3, <2>4
  <1> QED
    BY <1>3, <1>4, <1>5

\* A sum of multiples is the multiple of the sum.
LEMMA SumScales ==
    ASSUME NEW n \in Nat, NEW xs, NEW ys, Listed(xs, n), Listed(ys, n),
           NEW c, Lowest(c), \A i \in 1 .. n : Lowest(xs[i]) /\ ys[i] = Times(xs[i], c)
    PROVE  Lowest(SumOf(xs)) /\ SumOf(ys) = Times(SumOf(xs), c)
  <1>1. PICK S : /\ SumOf(xs) = S[n] /\ S[0] = Whole(0)
                 /\ \A i \in 1 .. n : Lowest(S[i - 1]) => S[i] = Plus(S[i - 1], xs[i])
    BY SumIs
  <1>2. PICK R : /\ SumOf(ys) = R[n] /\ R[0] = Whole(0)
                 /\ \A i \in 1 .. n : Lowest(R[i - 1]) => R[i] = Plus(R[i - 1], ys[i])
    BY SumIs
  <1> DEFINE G == {i \in Nat : i <= n => Lowest(S[i]) /\ R[i] = Times(S[i], c)}
  <1>3. 0 \in G
    <2>1. Times(Whole(0), c) = Whole(0)
      <3>1. c.n \in Int /\ c.d \in Int /\ c.d # 0 /\ 0 * c.n = 0 /\ 1 * c.d = c.d
        BY DEF Lowest
      <3>2. Times(Whole(0), c) = Fraction(0, c.d)
        BY <3>1 DEF Times, Whole
      <3>3. Whole(0).n = 0 /\ Whole(0).d = 1 /\ Lowest(Whole(0))
        BY WholeLowest DEF Whole
      <3>4. 0 * Whole(0).d = Whole(0).n * c.d
        BY <3>1, <3>3
      <3> QED
        BY <3>1, <3>2, <3>3, <3>4, FractionIs
    <2>2. Lowest(Whole(0))
      BY WholeLowest
    <2> QED
      BY <1>1, <1>2, <2>1, <2>2
  <1>4. ASSUME NEW i \in Nat, i \in G
        PROVE  i + 1 \in G
    <2> SUFFICES ASSUME i + 1 <= n PROVE Lowest(S[i + 1]) /\ R[i + 1] = Times(S[i + 1], c)
      OBVIOUS
    <2> DEFINE s == S[i]
               x == xs[i + 1]
    <2>1. i + 1 \in 1 .. n /\ (i + 1) - 1 = i
      OBVIOUS
    <2>2. Lowest(s) /\ R[i] = Times(s, c) /\ Lowest(x) /\ ys[i + 1] = Times(x, c)
      BY <1>4, <2>1
    <2>3. S[i + 1] = Plus(s, x)
      BY <1>1, <2>1, <2>2
    <2>4. Lowest(R[i])
      BY <2>2, ResultLowest
    <2>5. R[i + 1] = Plus(Times(s, c), Times(x, c))
      BY <1>2, <2>1, <2>2, <2>4
    <2> HIDE DEF s, x
    <2>6. Lowest(Plus(s, x)) /\ Times(Plus(s, x), c) = Plus(Times(s, c), Times(x, c))
      BY <2>2, ResultLowest, TimesPlus
    <2> QED
      BY <2>3, <2>5, <2>6
  <1> HIDE DEF G
  <1>5. \A i \in Nat : i \in G
    BY <1>3, <1>4, Induction
  <1>6. Lowest(S[n]) /\ R[n] = Times(S[n], c)
    BY <1>5 DEF G
  <1> QED
    BY <1>1, <1>2, <1>6

-----------------------------------------------------------------------------
(***************************************************************************)
(* The grid of a valuation.                                                *)
(***************************************************************************)
\* What a year is valued by: its tax rate, its income and its flows.
Counted ==
    /\ \A i \in DOMAIN years :
          years[i].tax_rate \in Int /\ years[i].income \in Incomes /\ years[i].flows \in Flowing
    /\ stage = "built" => years # <<>>
    /\ Len(years) <= Horizon /\ (stage = "projecting" => Len(years) < Horizon)

LEMMA ProjectCounts == ASSUME Holding, Counted, NEW d \in Plans, Project(d) PROVE Counted'
  <1> DEFINE year == YearOf(d, RevenueBefore, SheetBefore, history.sheet)
  <1>1. Anchored /\ Projectable(d) /\ years' = Append(years, year)
    BY DEF Project
  <1>2. year.tax_rate = d.tax_rate /\ year.income \in Incomes /\ year.flows \in Flowing
    <2> DEFINE income == Income(d, RevenueBefore, SheetBefore)
               flows == Flows(d, income, SheetBefore)
    <2>1. Standing(SheetBefore) /\ RevenueBefore \in Int
      BY <1>1, BeforeStands
    <2>2. income \in Incomes
      BY <1>1, <2>1, IncomeTyped
    <2>3. flows \in Flowing
      BY <1>1, <2>1, <2>2, FlowsTyped
    <2>4. year.tax_rate = d.tax_rate /\ year.income = income /\ year.flows = flows
      BY DEF YearOf
    <2> QED
      BY <2>2, <2>3, <2>4
  <1> HIDE DEF year
  <1>3. d.tax_rate \in Int
    BY <1>1, ForecastAssumption DEF Projectable
  <1> DEFINE all == {years[i] : i \in DOMAIN years} \cup {year}
  <1>4. years \in Seq(all) /\ year \in all
    BY DEF Holding
  <1> HIDE DEF all
  <1>5. /\ Len(years) \in Nat /\ DOMAIN years = 1 .. Len(years)
        /\ DOMAIN years' = 1 .. Len(years) + 1 /\ Len(years') = Len(years) + 1
        /\ \A i \in 1 .. Len(years) : years'[i] = years[i]
        /\ years'[Len(years) + 1] = year /\ years' \in Seq(all)
    BY <1>1, <1>4, AppendProperties
  <1>6. years' # <<>>
    BY <1>5, EmptySeq
  <1>7. \A i \in DOMAIN years' : i \in DOMAIN years \/ i = Len(years) + 1
    BY <1>5
  <1>8. Len(years') <= Horizon /\ (stage' = "projecting" => Len(years') < Horizon)
    <2>1. stage = "projecting" /\ stage' = IF Len(years) + 1 = Horizon THEN "built" ELSE stage
      BY DEF Project
    <2>2. Len(years) < Horizon /\ Horizon \in Nat
      BY <2>1, ForecastAssumption DEF Counted
    <2> QED
      BY <1>5, <2>1, <2>2
  <1>9. \A i \in DOMAIN years' :
            years'[i].tax_rate \in Int /\ years'[i].income \in Incomes /\ years'[i].flows \in Flowing
    BY <1>2, <1>3, <1>5, <1>7 DEF Counted
  <1> QED
    BY <1>6, <1>8, <1>9 DEF Counted

LEMMA NextCounts == ASSUME Holding, Counted, [Next]_vars PROVE Counted'
  <1>1. ASSUME NEW d \in Plans, Refuse(d) PROVE Counted'
    <2>1. years' = <<>> /\ stage' = "refused"
      BY <1>1 DEF Refuse
    <2>2. Len(<<>>) = 0 /\ DOMAIN <<>> = {} /\ 0 <= Horizon
      BY ForecastAssumption
    <2> QED
      BY <2>1, <2>2 DEF Counted
  <1>2. CASE UNCHANGED vars
    BY <1>2 DEF vars, Counted
  <1> QED
    BY <1>1, <1>2, ProjectCounts DEF Next

\* The rates of a market that can be valued are fractions, and neither the
\* weight of equity nor, where there is a grid, beta is nothing.
LEMMA MarketRates ==
    ASSUME Holding, Counted, stage = "built", NEW m \in Markets, Valuable(m)
    PROVE  /\ Lowest(Rate(m.inputs.risk_free)) /\ Lowest(Rate(m.inputs.growth))
           /\ Lowest(Rate(m.inputs.beta)) /\ (m.inputs.beta # 0 => Rate(m.inputs.beta).n # 0)
           /\ Lowest(WeightOf(m, "equity")) /\ WeightOf(m, "equity").n # 0
           /\ Lowest(Times(WeightOf(m, "debt"), CostOfDebt(m)))
           /\ Lowest(Wacc(m))
  <1>1. \A code \in MarketCodes : m.inputs[code] \in Int
    BY ValuationAssumption DEF Valuable, Supplied, Optionally
  <1>2. /\ m.inputs.risk_free \in Int /\ m.inputs.growth \in Int /\ m.inputs.beta \in Int
        /\ m.inputs.premium \in Int /\ m.inputs.cost_of_debt \in Int
        /\ m.inputs.equity \in Int /\ m.inputs.debt \in Int
    BY <1>1 DEF MarketCodes
  <1>3. m.inputs.equity > 0 /\ m.inputs.debt >= 0
    BY <1>2 DEF Valuable, Impossible
  <1>4. Unit \in Int /\ Unit # 0
    BY ForecastAssumption
  <1>5. years[Len(years)].tax_rate \in Int
    <2>1. Len(years) \in DOMAIN years
      BY DEF Holding, Counted
    <2> QED
      BY <2>1 DEF Counted
  <1> DEFINE e == m.inputs.equity
             whole == m.inputs.equity + m.inputs.debt
  <1>6. whole \in Int /\ whole # 0 /\ e # 0
    BY <1>2, <1>3
  <1>7. Lowest(WeightOf(m, "debt")) /\ Lowest(WeightOf(m, "equity"))
    BY <1>2, <1>6, FractionLowest DEF WeightOf
  <1>9. WeightOf(m, "equity").n # 0
    BY <1>2, <1>6, SomethingIs DEF WeightOf
  <1>10. m.inputs.beta # 0 => Rate(m.inputs.beta).n # 0
    BY <1>2, <1>4, SomethingIs DEF Rate
  <1>11. Lowest(CostOfDebt(m))
    <2>1. Lowest(Rate(m.inputs.cost_of_debt)) /\ Lowest(Whole(1)) /\ Lowest(Rate(years[Len(years)].tax_rate))
      BY <1>2, <1>5, RateLowest, WholeLowest
    <2> QED
      BY <2>1, ResultLowest DEF CostOfDebt
  <1>12. Lowest(CostOfEquity(m))
    <2>1. Lowest(Rate(m.inputs.risk_free)) /\ Lowest(Rate(m.inputs.beta)) /\ Lowest(Rate(m.inputs.premium))
      BY <1>2, RateLowest
    <2> QED
      BY <2>1, ResultLowest DEF CostOfEquity
  <1>13. Lowest(Times(WeightOf(m, "debt"), CostOfDebt(m)))
    BY <1>7, <1>11, ResultLowest
  <1>14. Lowest(Times(WeightOf(m, "equity"), CostOfEquity(m)))
    BY <1>7, <1>12, ResultLowest
  <1>15. Lowest(Wacc(m))
    BY <1>13, <1>14, ResultLowest DEF Wacc
  <1> QED
    BY <1>2, <1>7, <1>9, <1>10, <1>13, <1>15, RateLowest

\* The premium that is solved for gives the cost of capital it was solved for.
LEMMA ShiftedExactly ==
    ASSUME Holding, Counted, stage = "built", NEW m \in Markets, Valuable(m), m.inputs.beta # 0,
           NEW target, Lowest(target)
    PROVE  WaccAt(m, Shifted(m, target)) = target
  <1> DEFINE E == WeightOf(m, "equity")
             D == Times(WeightOf(m, "debt"), CostOfDebt(m))
             R == Rate(m.inputs.risk_free)
             B == Rate(m.inputs.beta)
             cost == Over(Minus(target, D), E)
             premium == Over(Minus(cost, R), B)
  <1>1. /\ Lowest(E) /\ E.n # 0 /\ Lowest(D) /\ Lowest(R) /\ Lowest(B) /\ B.n # 0
    BY MarketRates
  <1>2. Shifted(m, target) = premium
    BY DEF Shifted
  <1>3. \A p : WaccAt(m, p) = Plus(Times(E, Plus(R, Times(B, p))), D)
    BY DEF WaccAt
  <1> HIDE DEF E, D, R, B
  <1>4. Lowest(Minus(target, D)) /\ Lowest(cost) /\ Lowest(Minus(cost, R))
    <2>1. Lowest(Minus(target, D))
      BY <1>1, ResultLowest
    <2>2. Lowest(cost)
      BY <1>1, <2>1, ResultLowest
    <2> HIDE DEF cost
    <2>3. Lowest(Minus(cost, R))
      BY <1>1, <2>2, ResultLowest
    <2> QED
      BY <2>1, <2>2, <2>3
  <1>5. Times(E, cost) = Minus(target, D)
    BY <1>1, <1>4, TimesOver
  <1> HIDE DEF cost
  <1>6. Times(B, premium) = Minus(cost, R)
    BY <1>1, <1>4, TimesOver
  <1> HIDE DEF premium
  <1>7. Plus(R, Minus(cost, R)) = cost
    BY <1>1, <1>4, PlusMinus, PlusCommutes
  <1>8. Plus(Minus(target, D), D) = target
    BY <1>1, PlusMinus
  <1> QED
    BY <1>2, <1>3, <1>5, <1>6, <1>7, <1>8

LEMMA FlowLowest ==
    ASSUME Holding, Counted, NEW i \in DOMAIN years
    PROVE  Lowest(Free[i])
  <1> DEFINE year == years[i]
             moved == year.flows.depreciation - Abs(year.flows.capex) + year.flows.nwc
  <1>1. /\ year.tax_rate \in Int /\ year.income.ebit \in Int
        /\ year.flows.depreciation \in Int /\ year.flows.capex \in Int /\ year.flows.nwc \in Int
    BY DEF Counted, Incomes, Flowing
  <1>2. Free[i] = Plus(Times(Whole(year.income.ebit), Minus(Whole(1), Rate(year.tax_rate))), Whole(moved))
    BY DEF Free, Fcff
  <1>3. moved \in Int
    <2>1. Abs(year.flows.capex) \in Int
      BY <1>1, SignOf
    <2> QED
      BY <1>1, <2>1
  <1> HIDE DEF year, moved
  <1>4. /\ Lowest(Whole(year.income.ebit)) /\ Lowest(Whole(1)) /\ Lowest(Rate(year.tax_rate))
        /\ Lowest(Whole(moved))
    BY <1>1, <1>3, WholeLowest, RateLowest
  <1>5. Lowest(Minus(Whole(1), Rate(year.tax_rate)))
    BY <1>4, ResultLowest
  <1>6. Lowest(Times(Whole(year.income.ebit), Minus(Whole(1), Rate(year.tax_rate))))
    BY <1>4, <1>5, ResultLowest
  <1> QED
    BY <1>2, <1>4, <1>6, ResultLowest

\* Flows F, discounted by E over the gaps between them, G, and added up by S;
\* and what they are worth, W, at each flow before the last.
Rolling(n, F, E, G, S, W) ==
    /\ n \in Nat
    /\ \A i \in 1 .. n : Lowest(F[i]) /\ Lowest(G[i])
    /\ E[0] = Whole(1)
    /\ \A i \in 1 .. n : E[i] = Times(E[i - 1], G[i])
    /\ S[0] = Whole(0)
    /\ \A i \in 1 .. n : Lowest(S[i - 1]) => S[i] = Plus(S[i - 1], Times(F[i], E[i]))
    /\ Lowest(W[0])
    /\ \A k \in 0 .. n - 1 : Lowest(W[k]) => W[k + 1] = Times(Plus(W[k], F[n - k]), G[n - k])

LEMMA RollingLowest ==
    ASSUME NEW n, NEW F, NEW E, NEW G, NEW S, NEW W, Rolling(n, F, E, G, S, W)
    PROVE  \A i \in 0 .. n : Lowest(E[i]) /\ Lowest(S[i])
  <1> USE DEF Rolling
  <1> DEFINE H == {i \in Nat : i <= n => Lowest(E[i]) /\ Lowest(S[i])}
  <1>1. 0 \in H
    BY WholeLowest
  <1>2. ASSUME NEW i \in Nat, i \in H
        PROVE  i + 1 \in H
    <2> SUFFICES ASSUME i + 1 <= n PROVE Lowest(E[i + 1]) /\ Lowest(S[i + 1])
      OBVIOUS
    <2>1. i + 1 \in 1 .. n /\ (i + 1) - 1 = i
      OBVIOUS
    <2>2. Lowest(E[i]) /\ Lowest(S[i])
      BY <1>2
    <2>3. Lowest(F[i + 1]) /\ Lowest(G[i + 1]) /\ E[i + 1] = Times(E[i], G[i + 1])
      BY <2>1
    <2>4. Lowest(E[i + 1])
      BY <2>2, <2>3, ResultLowest
    <2>5. S[i + 1] = Plus(S[i], Times(F[i + 1], E[i + 1]))
      BY <2>1, <2>2
    <2>6. Lowest(Times(F[i + 1], E[i + 1]))
      BY <2>3, <2>4, ResultLowest
    <2> QED
      BY <2>2, <2>4, <2>5, <2>6, ResultLowest
  <1> HIDE DEF H
  <1>3. \A i \in Nat : i \in H
    BY <1>1, <1>2, Induction
  <1> QED
    BY <1>3 DEF H

\* A last flow is taken into what is worth a gap before it, until none is left.
LEMMA RollBack ==
    ASSUME NEW n, NEW F, NEW E, NEW G, NEW S, NEW W, Rolling(n, F, E, G, S, W)
    PROVE  Lowest(W[n]) /\ Plus(S[n], Times(W[0], E[n])) = W[n]
  <1> DEFINE all == Plus(S[n], Times(W[0], E[n]))
             H == {k \in Nat : k <= n =>
                       Lowest(W[k]) /\ all = Plus(S[n - k], Times(W[k], E[n - k]))}
  <1>1. \A i \in 0 .. n : Lowest(E[i]) /\ Lowest(S[i])
    BY RollingLowest
  <1> USE DEF Rolling
  <1>3. 0 \in H
    <2>1. n - 0 = n
      OBVIOUS
    <2> QED
      BY <2>1
  <1>4. ASSUME NEW k \in Nat, k \in H
        PROVE  k + 1 \in H
    <2> SUFFICES ASSUME k + 1 <= n
                 PROVE  /\ Lowest(W[k + 1])
                        /\ all = Plus(S[n - (k + 1)], Times(W[k + 1], E[n - (k + 1)]))
      OBVIOUS
    <2> DEFINE i == n - k
    <2>1. i \in 1 .. n /\ i - 1 \in 0 .. n /\ n - (k + 1) = i - 1 /\ k \in 0 .. n - 1
      OBVIOUS
    <2>2. Lowest(W[k]) /\ all = Plus(S[i], Times(W[k], E[i]))
      BY <1>4
    <2> HIDE DEF all
    <2> DEFINE w == W[k]
               v == W[k + 1]
               f == F[i]
               s == S[i - 1]
               e == E[i - 1]
               g == G[i]
    <2>3. Lowest(w) /\ Lowest(f) /\ Lowest(s) /\ Lowest(e) /\ Lowest(g)
      BY <1>1, <2>1, <2>2
    <2>4. E[i] = Times(e, g) /\ S[i] = Plus(s, Times(f, E[i]))
      BY <2>1, <2>3
    <2>5. v = Times(Plus(w, f), g)
      BY <2>1, <2>3
    <2> DEFINE d == E[i]
    <2>6. d = Times(e, g) /\ all = Plus(Plus(s, Times(f, d)), Times(w, d))
      BY <2>2, <2>4
    <2> HIDE DEF i, w, v, f, s, e, g, d
    <2>7. Lowest(d)
      BY <2>3, <2>6, ResultLowest
    <2>8. Lowest(Times(f, d)) /\ Lowest(Times(w, d)) /\ Lowest(Plus(w, f))
      BY <2>3, <2>7, ResultLowest
    <2>9. Lowest(v)
      BY <2>3, <2>5, <2>8, ResultLowest
    <2>10. all = Plus(s, Plus(Times(w, d), Times(f, d)))
      BY <2>3, <2>6, <2>8, PlusAssociates, PlusCommutes
    <2>11. Plus(Times(w, d), Times(f, d)) = Times(Plus(w, f), d)
      BY <2>3, <2>7, TimesPlus
    <2>12. Times(Plus(w, f), d) = Times(v, e)
      <3>1. d = Times(g, e)
        BY <2>3, <2>6, TimesCommutes
      <3> QED
        BY <2>3, <2>5, <2>8, <3>1, TimesAssociates
    <2>13. all = Plus(s, Times(v, e))
      BY <2>10, <2>11, <2>12
    <2> QED
      BY <2>1, <2>9, <2>13 DEF s, v, e
  <1> HIDE DEF H
  <1>5. \A k \in Nat : k \in H
    BY <1>3, <1>4, Induction
  <1>6. Lowest(W[n]) /\ all = Plus(S[n - n], Times(W[n], E[n - n]))
    BY <1>5 DEF H
  <1>7. n - n = 0
    OBVIOUS
  <1> HIDE DEF all
  <1>8. all = Plus(Whole(0), Times(W[n], Whole(1)))
    BY <1>6, <1>7
  <1> QED
    BY <1>6, <1>8, TimesOne, PlusZero DEF all

\* What a valuation divides by: one and the cost of capital, over times that
\* are there to be compounded over, after one another.
LEMMA ArrivalsAre ==
    ASSUME Holding, Counted, stage = "built", NEW m \in Markets, Valuable(m), Rooted(m)
    PROVE  LET base == Plus(Whole(1), Wacc(m))
           IN  /\ Len(years) \in Nat /\ Len(years) > 0 /\ DOMAIN years = 1 .. Len(years)
               /\ Divisor(base)
               /\ \A i \in 1 .. Len(years) : Arrivals(m)[i] \in Within(base) /\ Gap(m, i) \in Within(base)
               /\ Arrivals(m)[1] = Gap(m, 1)
               /\ \A i \in 2 .. Len(years) : Arrivals(m)[i] = Arrivals(m)[i - 1] + Gap(m, i)
  <1> DEFINE base == Plus(Whole(1), Wacc(m))
             n == Len(years)
             y == YearLength
             A == Arrivals(m)
  <1>1. n \in Nat /\ DOMAIN years = 1 .. n /\ n > 0 /\ n <= Horizon
    BY LenProperties, EmptySeq DEF Holding, Counted
  <1>2. y \in Nat /\ y # 0 /\ y \in Int /\ y \div 2 \in Int /\ Horizon \in Nat
    BY YearIs, ForecastAssumption
  <1>3. /\ m.timing \in Timings /\ m.year_ends \in [1 .. Horizon -> Int]
        /\ \A i \in 1 .. Horizon - 1 : m.year_ends[i] < m.year_ends[i + 1]
    BY ValuationAssumption
  <1>4. /\ \A i \in 1 .. n : A[i] \in Nat
        /\ \A i \in 2 .. n : A[i - 1] <= A[i]
    <2>1. CASE m.timing = "year_end"
      <3>1. \A i \in 1 .. n : A[i] = y * i
        BY <1>1, <2>1 DEF Arrivals
      <3> HIDE DEF A, n, y
      <3>2. \A i \in 1 .. n : y * i \in Nat
        BY <1>1, <1>2
      <3>3. \A i \in 2 .. n : i \in 1 .. n /\ i - 1 \in 1 .. n /\ y * (i - 1) = y * i - y
        BY <1>1, <1>2
      <3> QED
        BY <1>2, <3>1, <3>2, <3>3
    <2>2. CASE m.timing = "mid_year"
      <3> DEFINE h == y \div 2
      <3>1. \A i \in 1 .. n : A[i] = y * i - h
        BY <1>1, <2>2 DEF Arrivals
      <3>2. h \in Nat /\ h <= y
        BY <1>2
      <3> HIDE DEF A, n, y, h
      <3>3. \A i \in 1 .. n : y * i \in Nat /\ y * i >= y
        BY <1>1, <1>2
      <3>4. \A i \in 2 .. n : i \in 1 .. n /\ i - 1 \in 1 .. n /\ y * (i - 1) = y * i - y
        BY <1>1, <1>2
      <3> QED
        BY <1>2, <3>1, <3>2, <3>3, <3>4
    <2>3. CASE m.timing = "exact"
      <3>1. \A i \in 1 .. n : A[i] = m.year_ends[i] - m.valued_on
        BY <1>1, <2>3 DEF Arrivals
      <3>2. m.valued_on \in Int
        BY <2>3, ValuationAssumption DEF Valuable, Impossible, Optionally
      <3>3. \A i \in 1 .. n : ~ (A[i] < 0)
        BY <1>1 DEF Valuable, Impossible
      <3> DEFINE ends == m.year_ends
      <3>5. ends \in [1 .. Horizon -> Int] /\ \A i \in 1 .. Horizon - 1 : ends[i] < ends[i + 1]
        BY <1>3
      <3> HIDE DEF A, n, y, ends
      <3>6. ASSUME NEW i \in 1 .. n
            PROVE  A[i] \in Nat
        <4>1. i \in 1 .. Horizon
          BY <1>1, <1>2
        <4>2. ends[i] \in Int
          BY <3>5, <4>1
        <4>3. A[i] = ends[i] - m.valued_on
          BY <3>1 DEF ends
        <4> QED
          BY <3>2, <3>3, <4>2, <4>3
      <3>7. ASSUME NEW i \in 2 .. n
            PROVE  A[i - 1] <= A[i]
        <4>1. i \in 1 .. n /\ i - 1 \in 1 .. n /\ i - 1 \in 1 .. Horizon - 1 /\ (i - 1) + 1 = i
                  /\ i \in 1 .. Horizon /\ i - 1 \in 1 .. Horizon
          BY <1>1, <1>2
        <4>2. ends[i] \in Int /\ ends[i - 1] \in Int /\ ends[i - 1] < ends[i]
          BY <3>5, <4>1
        <4>3. A[i] = ends[i] - m.valued_on /\ A[i - 1] = ends[i - 1] - m.valued_on
          BY <3>1, <4>1 DEF ends
        <4> QED
          BY <3>2, <4>2, <4>3
      <3> QED
        BY <3>6, <3>7
    <2> QED
      BY <1>3, <2>1, <2>2, <2>3 DEF Timings
  <1>5. /\ Gap(m, 1) = A[1] - 0
        /\ \A i \in 2 .. n : Gap(m, i) = A[i] - A[i - 1]
    BY DEF Gap
  <1>6. Divisor(base)
    <2> DEFINE wacc == Wacc(m)
               a == wacc.n
               b == wacc.d
    <2>1. Lowest(wacc)
      BY MarketRates
    <2>2. a \in Int /\ b \in Int /\ b > 0
      BY <2>1 DEF Lowest
    <2>3. a * 1 > (-1) * b
      BY DEF Valuable, Discountable, Exceeds, Whole
    <2>4. base = Fraction(1 * b + a * 1, 1 * b)
      BY DEF Plus, Whole
    <2> HIDE DEF a, b, base
    <2>5. 1 * b + a * 1 \in Int /\ 1 * b + a * 1 # 0 /\ 1 * b \in Int /\ 1 * b # 0
      BY <2>2, <2>3
    <2> QED
      BY <2>4, <2>5, SomethingIs, FractionLowest DEF Divisor
  <1>7. (\A i \in 1 .. n : A[i] % y = 0) \/ base \in DOMAIN Roots
    <2>1. Discountable(Wacc(m))
      BY DEF Valuable
    <2> QED
      BY <1>1, <2>1 DEF Rooted
  <1> HIDE DEF A, n
  <1>8. /\ Gap(m, 1) = A[1] /\ Gap(m, 1) \in Nat
        /\ \A i \in 2 .. n : Gap(m, i) \in Nat /\ A[i] = A[i - 1] + Gap(m, i)
    <2>1. 1 \in 1 .. n
      BY <1>1
    <2>2. \A i \in 2 .. n : i \in 1 .. n /\ i - 1 \in 1 .. n
      BY <1>1
    <2>3. A[1] \in Nat
      BY <1>4, <2>1
    <2>4. ASSUME NEW i \in 2 .. n
          PROVE  Gap(m, i) \in Nat /\ A[i] = A[i - 1] + Gap(m, i)
      <3>1. A[i] \in Nat /\ A[i - 1] \in Nat /\ A[i - 1] <= A[i] /\ Gap(m, i) = A[i] - A[i - 1]
        BY <1>4, <1>5, <2>2
      <3> QED
        BY <3>1
    <2> QED
      BY <1>5, <2>3, <2>4
  <1> HIDE DEF base
  <1>9. \A i \in 1 .. n : A[i] \in Within(base) /\ Gap(m, i) \in Within(base)
    <2>1. \A i \in 1 .. n : i = 1 \/ i \in 2 .. n
      BY <1>1
    <2>2. CASE base \in DOMAIN Roots
      <3>1. Within(base) = Nat
        BY <2>2 DEF Within
      <3> QED
        BY <1>4, <1>8, <2>1, <3>1, Zenon
    <2>3. CASE base \notin DOMAIN Roots
      <3>1. Within(base) = {y * k : k \in Nat}
        BY <2>3 DEF Within
      <3>2. \A i \in 1 .. n : \E k \in Nat : A[i] = y * k
        BY <1>4, <1>7, <2>3, IsMultiple
      <3>3. ASSUME NEW i \in 2 .. n
            PROVE  Gap(m, i) \in Within(base)
        <4>1. i \in 1 .. n /\ i - 1 \in 1 .. n
          BY <1>1
        <4>2. PICK k \in Nat : A[i] = y * k
          BY <3>2, <4>1
        <4>3. PICK l \in Nat : A[i - 1] = y * l
          BY <3>2, <4>1
        <4> DEFINE gap == Gap(m, i)
        <4>4. gap \in Nat /\ y * k = y * l + gap
          BY <1>8, <4>2, <4>3
        <4> HIDE DEF gap, y
        <4>5. gap = y * (k - l)
          BY <1>2, <4>4
        <4>6. k - l >= 0
          <5>1. CASE k - l <= -1
            <6>1. y * (k - l) <= -y
              BY <1>2, <5>1
            <6> QED
              BY <1>2, <4>4, <4>5, <6>1
          <5> QED
            BY <5>1
        <4>7. k - l \in Nat
          BY <4>6
        <4> QED
          BY <3>1, <4>5, <4>7 DEF gap
      <3>4. \A i \in 1 .. n : A[i] \in Within(base)
        BY <3>1, <3>2
      <3>5. Gap(m, 1) \in Within(base)
        <4>1. 1 \in 1 .. n
          BY <1>1
        <4> QED
          BY <1>8, <3>4, <4>1
      <3> QED
        BY <2>1, <3>3, <3>4, <3>5, Zenon
    <2> QED
      BY <2>2, <2>3
  <1>10. \A i \in 2 .. n : A[i] = A[i - 1] + Gap(m, i)
    BY <1>8
  <1> QED
    BY <1>1, <1>6, <1>8, <1>9, <1>10 DEF base, A, n

LEMMA TerminalLowest ==
    ASSUME Holding, Counted, stage = "built", NEW m \in Markets, Valuable(m)
    PROVE  Lowest(TerminalValue(Wacc(m), Rate(m.inputs.growth)))
  <1> DEFINE wacc == Wacc(m)
             growth == Rate(m.inputs.growth)
             a == wacc.n
             b == wacc.d
             c == growth.n
             e == growth.d
             last == Free[Len(years)]
             T == TerminalValue(wacc, growth)
  <1>1. Lowest(wacc) /\ Lowest(growth) /\ Lowest(Whole(1))
    BY MarketRates, WholeLowest
  <1>2. Exceeds(wacc, growth)
    BY DEF Valuable
  <1>3. Lowest(last)
    <2>1. Len(years) \in DOMAIN years
      BY LenProperties, EmptySeq DEF Holding, Counted
    <2> QED
      BY <2>1, FlowLowest
  <1>4. T = Over(Times(last, Plus(Whole(1), growth)), Minus(wacc, growth))
    BY DEF TerminalValue
  <1> HIDE DEF wacc, growth, last, T
  <1>5. a \in Int /\ b \in Int /\ c \in Int /\ e \in Int /\ b > 0 /\ e > 0
    BY <1>1 DEF Lowest
  <1>6. a * e > c * b
    BY <1>2 DEF Exceeds
  <1>7. Minus(wacc, growth) = Fraction(a * e - c * b, b * e)
    BY DEF Minus
  <1> HIDE DEF a, b, c, e
  <1>8. a * e \in Int /\ c * b \in Int /\ b * e \in Int /\ b * e # 0
    BY <1>5, NonZeroProduct
  <1>9. a * e - c * b \in Int /\ a * e - c * b # 0
    BY <1>6, <1>8
  <1>10. Minus(wacc, growth).n # 0
    BY <1>7, <1>8, <1>9, SomethingIs
  <1>11. Lowest(Minus(wacc, growth)) /\ Lowest(Plus(Whole(1), growth))
    BY <1>1, ResultLowest
  <1>12. Lowest(Times(last, Plus(Whole(1), growth)))
    BY <1>3, <1>11, ResultLowest
  <1>13. Lowest(T)
    BY <1>4, <1>10, <1>11, <1>12, ResultLowest
  <1> QED
    BY <1>13 DEF T, wacc, growth

\* The flows of a valuation, each discounted.
Discounted(m, wacc) == [i \in DOMAIN years |-> Times(Free[i], Discount(wacc, Arrivals(m)[i]))]

LEMMA EnterpriseIs ==
    ASSUME NEW m, NEW wacc, NEW growth
    PROVE  Enterprise(m, wacc, growth) =
               Plus(SumOf(Discounted(m, wacc)),
                    Times(TerminalValue(wacc, growth), Discount(wacc, Arrivals(m)[Len(years)])))
  BY DEF Enterprise, Discounted, TerminalArrival

LEMMA DiscountedLowest ==
    ASSUME Holding, Counted, stage = "built", NEW m \in Markets, Valuable(m), Rooted(m)
    PROVE  \A i \in 1 .. Len(years) :
               /\ Lowest(Free[i]) /\ Lowest(Discount(Wacc(m), Arrivals(m)[i]))
               /\ Lowest(Discount(Wacc(m), Gap(m, i))) /\ Lowest(Discounted(m, Wacc(m))[i])
  <1> SUFFICES ASSUME NEW i \in 1 .. Len(years)
               PROVE  /\ Lowest(Free[i]) /\ Lowest(Discount(Wacc(m), Arrivals(m)[i]))
                      /\ Lowest(Discount(Wacc(m), Gap(m, i))) /\ Lowest(Discounted(m, Wacc(m))[i])
    OBVIOUS
  <1> DEFINE base == Plus(Whole(1), Wacc(m))
             arrival == Arrivals(m)[i]
             gap == Gap(m, i)
             factor == Discount(Wacc(m), arrival)
  <1>1. i \in DOMAIN years /\ Divisor(base) /\ arrival \in Within(base) /\ gap \in Within(base)
    BY ArrivalsAre
  <1>2. Lowest(Free[i])
    BY <1>1, FlowLowest
  <1> HIDE DEF arrival, gap
  <1>3. Lowest(factor) /\ Lowest(Discount(Wacc(m), gap))
    BY <1>1, DiscountsMultiply
  <1>4. Discounted(m, Wacc(m))[i] = Times(Free[i], factor)
    BY <1>1 DEF Discounted, arrival
  <1> HIDE DEF factor
  <1>5. Lowest(Times(Free[i], factor))
    BY <1>2, <1>3, ResultLowest
  <1> QED
    BY <1>2, <1>3, <1>4, <1>5 DEF arrival, gap, factor

LEMMA WorthIsRolledBack ==
    ASSUME Holding, Counted, stage = "built", NEW m \in Markets, Valuable(m), Rooted(m)
    PROVE  Enterprise(m, Wacc(m), Rate(m.inputs.growth)) =
               WorthBefore(m, Wacc(m), Rate(m.inputs.growth))[Len(years)]
  <1> DEFINE n == Len(years)
             wacc == Wacc(m)
             growth == Rate(m.inputs.growth)
             base == Plus(Whole(1), wacc)
             A == Arrivals(m)
             D(t) == Discount(wacc, t)
             T == TerminalValue(wacc, growth)
             W == WorthBefore(m, wacc, growth)
             F == Free
             flows == Discounted(m, wacc)
             E == [i \in 0 .. n |-> IF i = 0 THEN Whole(1) ELSE D(A[i])]
             G == [i \in 1 .. n |-> D(Gap(m, i))]
  <1>1. /\ n \in Nat /\ n > 0 /\ DOMAIN years = 1 .. n /\ Divisor(base)
        /\ \A i \in 1 .. n : A[i] \in Within(base) /\ Gap(m, i) \in Within(base)
        /\ A[1] = Gap(m, 1)
        /\ \A i \in 2 .. n : A[i] = A[i - 1] + Gap(m, i)
    BY ArrivalsAre
  <1>2. \A i \in 1 .. n : Lowest(F[i]) /\ Lowest(D(A[i])) /\ Lowest(D(Gap(m, i)))
    BY DiscountedLowest
  <1>3. \A i \in 1 .. n : flows[i] = Times(F[i], D(A[i]))
    BY <1>1 DEF Discounted
  <1>4. Listed(flows, n)
    BY <1>1 DEF Discounted, Listed
  <1>5. Enterprise(m, wacc, growth) = Plus(SumOf(flows), Times(T, D(A[n])))
    BY EnterpriseIs
  <1>6. Lowest(T)
    BY TerminalLowest
  <1>7. \A a, b : a \in Within(base) /\ b \in Within(base) => D(a + b) = Times(D(a), D(b))
    <2> SUFFICES ASSUME NEW a \in Within(base), NEW b \in Within(base)
                 PROVE  Discount(wacc, a + b) = Times(Discount(wacc, a), Discount(wacc, b))
      BY Zenon
    <2> HIDE DEF wacc
    <2> QED
      BY <1>1, DiscountsMultiply
  <1>8. /\ W[0] = T
        /\ \A k \in 0 .. n - 1 : Lowest(W[k]) => W[k + 1] = Times(Plus(W[k], F[n - k]), D(Gap(m, n - k)))
    <2> DEFINE steps == [k \in DOMAIN years |->
                             LET i == Len(years) + 1 - k
                             IN  [worth \in Fractions |-> Times(Plus(worth, Free[i]), Discount(wacc, Gap(m, i)))]]
    <2>1. W = Folded(steps, T)
      BY DEF WorthBefore
    <2> HIDE DEF W, T, steps
    <2>2. W[0] = T /\ \A k \in Nat : W[k + 1] = steps[k + 1][W[k]]
      BY <2>1, FoldedIs
    <2>3. ASSUME NEW k \in 0 .. n - 1, Lowest(W[k])
          PROVE  W[k + 1] = Times(Plus(W[k], F[n - k]), D(Gap(m, n - k)))
      <3>0. k \in Nat /\ k + 1 \in 1 .. n /\ n + 1 - (k + 1) = n - k
        <4> HIDE DEF n
        <4> QED
          BY <1>1
      <3>1. k \in Nat /\ k + 1 \in DOMAIN years /\ n + 1 - (k + 1) = n - k
        BY <1>1, <3>0
      <3>2. steps[k + 1] = [worth \in Fractions |-> Times(Plus(worth, F[n - k]), D(Gap(m, n - k)))]
        BY <3>1 DEF steps
      <3>3. W[k + 1] = steps[k + 1][W[k]]
        BY <2>2, <3>1
      <3>4. W[k] \in Fractions
        BY <2>3, LowestIsFraction
      <3> HIDE DEF F, D
      <3> QED
        BY <3>2, <3>3, <3>4
    <2> QED
      BY <2>2, <2>3
  <1> HIDE DEF A, D, T, W, F, flows, n, base
  <1>9. PICK S : /\ SumOf(flows) = S[n] /\ S[0] = Whole(0)
                 /\ \A i \in 1 .. n : Lowest(S[i - 1]) => S[i] = Plus(S[i - 1], flows[i])
    BY <1>1, <1>4, SumIs
  <1>10. E[0] = Whole(1) /\ \A i \in 1 .. n : E[i] = D(A[i])
    BY <1>1
  <1>11. \A i \in 1 .. n : G[i] = D(Gap(m, i))
    OBVIOUS
  <1> HIDE DEF E, G
  <1>12. ASSUME NEW i \in 1 .. n
         PROVE  E[i] = Times(E[i - 1], G[i])
    <2>1. CASE i = 1
      <3>1. i - 1 = 0 /\ E[i] = D(A[1]) /\ G[i] = D(A[1]) /\ Lowest(D(A[1]))
        BY <1>1, <1>2, <1>10, <1>11, <2>1
      <3> QED
        BY <1>10, <3>1, TimesOne
    <2>2. CASE i # 1
      <3>1. i \in 2 .. n /\ i - 1 \in 1 .. n
        BY <1>1, <2>2
      <3>2. A[i] = A[i - 1] + Gap(m, i) /\ A[i - 1] \in Within(base) /\ Gap(m, i) \in Within(base)
        BY <1>1, <3>1
      <3>3. D(A[i]) = Times(D(A[i - 1]), D(Gap(m, i)))
        BY <1>7, <3>2
      <3> QED
        BY <1>10, <1>11, <3>1, <3>3
    <2> QED
      BY <2>1, <2>2
  <1>13. Rolling(n, F, E, G, S, W)
    <2>1. \A i \in 1 .. n : Lowest(F[i]) /\ Lowest(G[i])
      BY <1>2, <1>11
    <2>2. \A i \in 1 .. n : Lowest(S[i - 1]) => S[i] = Plus(S[i - 1], Times(F[i], E[i]))
      BY <1>3, <1>9, <1>10
    <2>3. \A k \in 0 .. n - 1 : Lowest(W[k]) => W[k + 1] = Times(Plus(W[k], F[n - k]), G[n - k])
      <3>1. \A k \in 0 .. n - 1 : n - k \in 1 .. n
        BY <1>1
      <3> QED
        BY <1>8, <1>11, <3>1
    <2> QED
      BY <1>1, <1>6, <1>8, <1>9, <1>10, <1>12, <2>1, <2>2, <2>3 DEF Rolling
  <1>14. Plus(S[n], Times(W[0], E[n])) = W[n]
    BY <1>13, RollBack
  <1>15. E[n] = D(A[n])
    BY <1>1, <1>10
  <1>16. Enterprise(m, wacc, growth) = W[n]
    BY <1>5, <1>8, <1>9, <1>14, <1>15
  <1> QED
    BY <1>16 DEF W, n

\* The same flows at the ends of their years instead of in the middle.
AtYearEnds(m) == [m EXCEPT !.timing = "year_end"]

LEMMA MidYearIsEarlier ==
    ASSUME Holding, Counted, stage = "built", NEW m \in Markets, Valuable(m), Rooted(m), m.timing = "mid_year"
    PROVE  Enterprise(AtYearEnds(m), Wacc(m), Rate(m.inputs.growth)) =
               Times(Enterprise(m, Wacc(m), Rate(m.inputs.growth)), Discount(Wacc(m), YearLength \div 2))
  <1> DEFINE n == Len(years)
             wacc == Wacc(m)
             growth == Rate(m.inputs.growth)
             base == Plus(Whole(1), wacc)
             y == YearLength
             h == y \div 2
             A == Arrivals(m)
             B == Arrivals(AtYearEnds(m))
             D(t) == Discount(wacc, t)
             T == TerminalValue(wacc, growth)
             F == Free
             xs == Discounted(m, wacc)
             ys == Discounted(AtYearEnds(m), wacc)
             c == D(h)
  <1>1. /\ n \in Nat /\ n > 0 /\ DOMAIN years = 1 .. n /\ Divisor(base)
        /\ \A i \in 1 .. n : A[i] \in Within(base)
    BY ArrivalsAre
  <1>2. \A i \in 1 .. n : Lowest(F[i]) /\ Lowest(D(A[i])) /\ Lowest(xs[i])
    BY DiscountedLowest
  <1>3. \A i \in 1 .. n : xs[i] = Times(F[i], D(A[i])) /\ ys[i] = Times(F[i], D(B[i]))
    BY <1>1 DEF Discounted
  <1>4. Listed(xs, n) /\ Listed(ys, n)
    BY <1>1 DEF Discounted, Listed
  <1>5. /\ Enterprise(m, wacc, growth) = Plus(SumOf(xs), Times(T, D(A[n])))
        /\ Enterprise(AtYearEnds(m), wacc, growth) = Plus(SumOf(ys), Times(T, D(B[n])))
    BY EnterpriseIs
  <1>6. Lowest(T)
    BY TerminalLowest
  <1>7. y \in Nat /\ y # 0 /\ y = 2 * h /\ h \in Nat /\ y = h + h
    <2>1. YearLength % 2 = 0 /\ YearLength \in Nat /\ YearLength # 0
      BY ValuationAssumption
    <2> QED
      BY <2>1
  <1>8. \A i \in 1 .. n : A[i] = y * i - h /\ B[i] = y * i
    <2>1. AtYearEnds(m).timing = "year_end"
      BY ValuationAssumption DEF AtYearEnds
    <2> QED
      BY <1>1, <2>1 DEF Arrivals
  <1> HIDE DEF A, B, F, xs, ys, n, T, h
  <1>9. \A i \in 1 .. n : B[i] = A[i] + h
    <2>1. \A i \in 1 .. n : y * i \in Int
      BY <1>1, <1>7
    <2> HIDE DEF y
    <2> QED
      BY <1>7, <1>8, <2>1
  <1>10. h \in Within(base)
    <2>1. 1 \in 1 .. n
      BY <1>1
    <2>2. A[1] = h
      <3>1. y * 1 = y
        BY <1>7
      <3> QED
        BY <1>7, <1>8, <2>1, <3>1
    <2> QED
      BY <1>1, <2>1, <2>2
  <1>11. /\ Lowest(c)
         /\ \A a : a \in Within(base) => D(a + h) = Times(D(a), c)
    <2>1. Divisor(Plus(Whole(1), wacc)) /\ h \in Within(Plus(Whole(1), wacc))
      BY <1>1, <1>10
    <2> HIDE DEF wacc
    <2> QED
      BY <2>1, DiscountsMultiply
  <1> HIDE DEF D, base, c, y
  <1>12. \A i \in 1 .. n : D(B[i]) = Times(D(A[i]), c)
    BY <1>1, <1>9, <1>11
  <1>13. ASSUME NEW i \in 1 .. n
         PROVE  ys[i] = Times(xs[i], c)
    <2>1. Lowest(F[i]) /\ Lowest(D(A[i]))
      BY <1>2
    <2>2. ys[i] = Times(F[i], Times(D(A[i]), c)) /\ xs[i] = Times(F[i], D(A[i]))
      BY <1>3, <1>12
    <2> QED
      BY <1>11, <2>1, <2>2, TimesAssociates
  <1>14. Lowest(SumOf(xs)) /\ SumOf(ys) = Times(SumOf(xs), c)
    BY <1>1, <1>2, <1>4, <1>11, <1>13, SumScales
  <1> DEFINE x == SumOf(xs)
             z == Times(T, D(A[n]))
  <1>15. Lowest(D(A[n])) /\ D(B[n]) = Times(D(A[n]), c)
    <2>1. n \in 1 .. n
      BY <1>1
    <2> QED
      BY <1>2, <1>12, <2>1
  <1>16. Times(T, D(B[n])) = Times(z, c)
    BY <1>6, <1>11, <1>15, TimesAssociates
  <1>17. Lowest(z)
    BY <1>6, <1>15, ResultLowest
  <1>18. /\ Enterprise(m, wacc, growth) = Plus(x, z)
         /\ Enterprise(AtYearEnds(m), wacc, growth) = Plus(Times(x, c), Times(z, c))
         /\ Lowest(x)
    BY <1>5, <1>14, <1>16
  <1> HIDE DEF x, z
  <1>19. Times(Plus(x, z), c) = Plus(Times(x, c), Times(z, c))
    BY <1>11, <1>17, <1>18, TimesPlus
  <1> QED
    BY <1>18, <1>19 DEF c, D, h, y

LEMMA ValueCentres ==
    ASSUME Holding, Counted, NEW m \in Markets, Value(m)
    PROVE  GridIsCentred'
  <1>1. /\ stage = "built" /\ Valuable(m) /\ UNCHANGED vars
        /\ valued'.market = {m} /\ valued'.enterprise = {Enterprise(m, Wacc(m), Rate(m.inputs.growth))}
        /\ valued'.grid = IF Griddable(m) THEN {Grid(m)} ELSE {}
    BY DEF Value
  <1> DEFINE Centred(grid) ==
                 /\ <<0, 0>> \in DOMAIN grid => grid[<<0, 0>>] = {Enterprise(m, Wacc(m), Rate(m.inputs.growth))}
                 /\ \A step \in DOMAIN grid :
                       LET wacc == Plus(Wacc(m), Rate(step[1]))
                           growth == Plus(Rate(m.inputs.growth), Rate(step[2]))
                       IN  grid[step] = IF Exceeds(wacc, growth) THEN {Enterprise(m, wacc, growth)} ELSE {}
  <1>2. ASSUME Griddable(m)
        PROVE  Centred(Grid(m))
    <2> m.inputs.beta # 0
      BY <1>2 DEF Griddable
    <2>1. \A w, g : Lowest(w) => Cell(m, w, g) = IF Exceeds(w, g) THEN {Enterprise(m, w, g)} ELSE {}
      BY <1>1, ShiftedExactly DEF Cell
    <2>2. Lowest(Wacc(m)) /\ Lowest(Rate(m.inputs.growth))
      BY <1>1, MarketRates
    <2>3. DOMAIN Grid(m) = WaccSteps \X GrowthSteps
      BY DEF Grid
    <2>4. ASSUME NEW step \in WaccSteps \X GrowthSteps
          PROVE  LET wacc == Plus(Wacc(m), Rate(step[1]))
                     growth == Plus(Rate(m.inputs.growth), Rate(step[2]))
                 IN  Grid(m)[step] = IF Exceeds(wacc, growth) THEN {Enterprise(m, wacc, growth)} ELSE {}
      <3> DEFINE wacc == Plus(Wacc(m), Rate(step[1]))
                 growth == Plus(Rate(m.inputs.growth), Rate(step[2]))
      <3>1. step[1] \in Int
        BY <2>4, ValuationAssumption
      <3>2. Lowest(wacc)
        BY <2>2, <3>1, RateLowest, ResultLowest
      <3>3. Grid(m)[step] = Cell(m, wacc, growth)
        BY <2>4 DEF Grid
      <3> HIDE DEF wacc, growth
      <3>4. Grid(m)[step] = IF Exceeds(wacc, growth) THEN {Enterprise(m, wacc, growth)} ELSE {}
        BY <2>1, <3>2, <3>3
      <3> QED
        BY <3>4 DEF wacc, growth
    <2>5. ASSUME <<0, 0>> \in DOMAIN Grid(m)
          PROVE  Grid(m)[<<0, 0>>] = {Enterprise(m, Wacc(m), Rate(m.inputs.growth))}
      <3>1. Plus(Wacc(m), Rate(0)) = Wacc(m) /\ Plus(Rate(m.inputs.growth), Rate(0)) = Rate(m.inputs.growth)
        BY <2>2, PlusNothing
      <3>2. Grid(m)[<<0, 0>>] = Cell(m, Plus(Wacc(m), Rate(0)), Plus(Rate(m.inputs.growth), Rate(0)))
        BY <2>3, <2>5 DEF Grid
      <3>3. Exceeds(Wacc(m), Rate(m.inputs.growth))
        BY <1>1 DEF Valuable
      <3> QED
        BY <2>1, <2>2, <3>1, <3>2, <3>3
    <2> QED
      BY <2>3, <2>4, <2>5
  <1>3. /\ Wacc(m)' = Wacc(m)
        /\ \A w, g : Enterprise(m, w, g)' = Enterprise(m, w, g)
    BY <1>1 DEF vars, Wacc, CostOfEquity, CostOfDebt, WeightOf, Enterprise, Free, Fcff, Arrivals,
            TerminalArrival, TerminalValue, Discount
  <1> HIDE DEF Centred
  <1>4. \A grid \in valued'.grid : Centred(grid)
    BY <1>1, <1>2
  <1> QED
    BY <1>1, <1>3, <1>4 DEF GridIsCentred, Centred

\* Both sides of the valuation are read off the forecast alone.
LEMMA SameForecast ==
    ASSUME UNCHANGED vars
    PROVE  /\ \A m : Wacc(m)' = Wacc(m)
           /\ \A w, t : Discount(w, t)' = Discount(w, t)
           /\ \A m, w, g : /\ WorthBefore(m, w, g)' = WorthBefore(m, w, g)
                          /\ Enterprise(m, w, g)' = Enterprise(m, w, g)
           /\ Len(years)' = Len(years)
  BY DEF vars, Wacc, CostOfEquity, CostOfDebt, WeightOf, Arrivals, Gap, Discount, WorthBefore, Free, Fcff,
         TerminalValue, TerminalArrival, Enterprise

LEMMA ValueRollsBack ==
    ASSUME Holding, Counted, NEW m \in Markets, Value(m)
    PROVE  ValueIsRolledBack'
  <1> DEFINE growth == Rate(m.inputs.growth)
             enterprise == Enterprise(m, Wacc(m), growth)
  <1>1. /\ stage = "built" /\ Valuable(m) /\ Rooted(m) /\ UNCHANGED vars
        /\ valued'.market = {m} /\ valued'.enterprise = {enterprise}
    BY DEF Value
  <1>2. enterprise = WorthBefore(m, Wacc(m), growth)[Len(years)]
    BY <1>1, WorthIsRolledBack
  <1>3. m.timing = "mid_year" =>
            Enterprise([m EXCEPT !.timing = "year_end"], Wacc(m), growth)
                = Times(enterprise, Discount(Wacc(m), YearLength \div 2))
    BY <1>1, MidYearIsEarlier DEF AtYearEnds
  <1>4. /\ Wacc(m)' = Wacc(m) /\ Len(years)' = Len(years)
        /\ \A w, t : Discount(w, t)' = Discount(w, t)
        /\ \A k, w, g : WorthBefore(k, w, g)' = WorthBefore(k, w, g) /\ Enterprise(k, w, g)' = Enterprise(k, w, g)
    BY <1>1, SameForecast
  <1> HIDE DEF enterprise
  <1> QED
    BY <1>1, <1>2, <1>3, <1>4 DEF ValueIsRolledBack

\* What is valued is built, and what is built stays as it is.
Valued ==
    /\ Holding
    /\ Counted
    /\ valued # NotValued => stage = "built"
    /\ GridIsCentred
    /\ ValueIsRolledBack

LEMMA StillCentred ==
    ASSUME GridIsCentred, UNCHANGED <<vars, valued>>
    PROVE  GridIsCentred'
  <1>1. \A m : Wacc(m)' = Wacc(m)
    BY DEF vars, Wacc, CostOfEquity, CostOfDebt, WeightOf
  <1>2. \A m, w, g : Enterprise(m, w, g)' = Enterprise(m, w, g)
    BY DEF vars, Enterprise, Free, Fcff, Arrivals, TerminalArrival, TerminalValue, Discount
  <1> QED
    BY <1>1, <1>2 DEF GridIsCentred

LEMMA StillRolledBack ==
    ASSUME ValueIsRolledBack, UNCHANGED <<vars, valued>>
    PROVE  ValueIsRolledBack'
  <1>1. /\ \A m : Wacc(m)' = Wacc(m)
        /\ \A w, t : Discount(w, t)' = Discount(w, t)
        /\ \A m, w, g : WorthBefore(m, w, g)' = WorthBefore(m, w, g) /\ Enterprise(m, w, g)' = Enterprise(m, w, g)
        /\ Len(years)' = Len(years)
    BY SameForecast
  <1>2. valued' = valued
    OBVIOUS
  <1> QED
    BY <1>1, <1>2 DEF ValueIsRolledBack

LEMMA ValuedNext ==
    ASSUME Valued, [ValuationNext]_<<vars, valued>>
    PROVE  Valued'
  <1>1. [Next]_vars
    BY DEF ValuationNext, Forecasting, Value, RefuseToValue
  <1>2. Holding' /\ Counted'
    BY <1>1, NextHolds, NextCounts DEF Valued
  <1>3. ASSUME Next, UNCHANGED valued
        PROVE  (valued' # NotValued => stage' = "built") /\ GridIsCentred' /\ ValueIsRolledBack'
    <2>1. stage = "projecting"
      BY <1>3 DEF Next, Project, Refuse
    <2>2. valued' = NotValued
      BY <1>3, <2>1 DEF Valued
    <2> QED
      BY <2>2 DEF NotValued, GridIsCentred, ValueIsRolledBack
  <1>4. ASSUME NEW m \in Markets, Value(m)
        PROVE  (valued' # NotValued => stage' = "built") /\ GridIsCentred' /\ ValueIsRolledBack'
    <2>1. stage' = "built"
      BY <1>4 DEF Value, vars
    <2> QED
      BY <1>4, <2>1, ValueCentres, ValueRollsBack DEF Valued
  <1>5. ASSUME NEW m \in Markets, RefuseToValue(m)
        PROVE  (valued' # NotValued => stage' = "built") /\ GridIsCentred' /\ ValueIsRolledBack'
    <2>1. stage' = "built" /\ valued'.enterprise = {}
      BY <1>5 DEF RefuseToValue, vars, NotValued
    <2> QED
      BY <2>1 DEF GridIsCentred, ValueIsRolledBack
  <1>6. ASSUME UNCHANGED <<vars, valued>>
        PROVE  (valued' # NotValued => stage' = "built") /\ GridIsCentred' /\ ValueIsRolledBack'
    BY <1>6, StillCentred, StillRolledBack DEF Valued, vars, NotValued
  <1> QED
    BY <1>2, <1>3, <1>4, <1>5, <1>6 DEF Valued, ValuationNext, Forecasting

LEMMA AlwaysValued == ValuationSpec => []Valued
  <1>1. ASSUME ValuationInit
        PROVE  Valued
    <2>1. Init /\ valued = NotValued /\ years = <<>> /\ stage = "projecting"
      BY <1>1 DEF ValuationInit, Init
    <2>2. Counted
      <3>1. Len(<<>>) = 0 /\ DOMAIN <<>> = {}
        OBVIOUS
      <3>2. Horizon \in Nat /\ 0 < Horizon
        BY ForecastAssumption
      <3> QED
        BY <2>1, <3>1, <3>2 DEF Counted
    <2> QED
      BY <2>1, <2>2, InitHolds DEF Valued, NotValued, GridIsCentred, ValueIsRolledBack
  <1> QED
    BY <1>1, ValuedNext, PTL DEF ValuationSpec

\* Each cell of the grid is the valuation at exactly the rates it is labelled
\* with, whatever the market, the plan and the steps: the premium is solved
\* for so that the cost of capital comes out, and the cell in the middle is
\* the valuation itself (model/sensitivity.py).
THEOREM GridCentred == ValuationSpec => []GridIsCentred
  <1>1. Valued => GridIsCentred
    BY DEF Valued
  <1> QED
    BY <1>1, AlwaysValued, PTL

\* A valuation is the firm's worth rolled back from flow to flow, from the
\* terminal value to the valuation date, over the time there really is between
\* them, whatever the market, the plan, the horizon and the dates; and flows in
\* the middle of the years are all worth half a year more than at their ends
\* (model/dcf.py run_dcf, model/timing.py).
THEOREM ValueRolledBack == ValuationSpec => []ValueIsRolledBack
  <1>1. Valued => ValueIsRolledBack
    BY DEF Valued
  <1> QED
    BY <1>1, AlwaysValued, PTL

\* A valuation leaves the forecast it values as it is: valuing is nothing the
\* forecast's own theorems would not hold of.
THEOREM ValuingForecasts == ValuationSpec => Spec
  <1>1. ValuationInit => Init
    BY DEF ValuationInit
  <1>2. [ValuationNext]_<<vars, valued>> => [Next]_vars
    BY DEF ValuationNext, Forecasting, Value, RefuseToValue
  <1> QED
    BY <1>1, <1>2, PTL DEF ValuationSpec, Spec

=============================================================================
