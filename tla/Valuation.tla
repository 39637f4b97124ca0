----------------------------- MODULE Valuation -----------------------------
(***************************************************************************)
(* A finished forecast, valued: free cash flow to the firm read back out   *)
(* of its years, the cost of capital of a market, the discounting          *)
(* convention, the terminal value and the bridge to equity; and the grid   *)
(* of the same valuation at other rates. Values are exact fractions.       *)
(***************************************************************************)
EXTENDS Forecast

CONSTANTS
    Markets,        \* what a scenario may supply for the valuation
    WaccSteps,      \* the steps of the grid's axes, either way, in 1/Unit
    GrowthSteps,
    YearLength,     \* of the year that days are divided by: 365 days are 730 half-days
    Roots           \* what a base grows by in one of these units of time

VARIABLE valued     \* the last valuation that was asked for

MarketCodes == {"risk_free", "beta", "premium", "cost_of_debt", "equity", "debt", "growth"}

BridgeCodes == {"investments", "minority_interest", "preferred", "pension", "claims"}

Timings == {"year_end", "mid_year", "exact"}

\* Dates are the valuation's, and the real ends of the forecast years.
ASSUME ValuationAssumption ==
    /\ Markets \subseteq [inputs : [MarketCodes -> Optionally], bridge : [BridgeCodes -> Optionally],
                          timing : Timings, valued_on : Optionally, year_ends : [1 .. Horizon -> Int]]
    /\ \A m \in Markets, i \in 1 .. Horizon - 1 : m.year_ends[i] < m.year_ends[i + 1]
    /\ WaccSteps \cup GrowthSteps \subseteq Int
    /\ YearLength \in Nat \ {0} /\ YearLength % 2 = 0

-----------------------------------------------------------------------------
(***************************************************************************)
(* Fractions, in lowest terms and with a positive denominator.             *)
(***************************************************************************)
Abs(n) == IF n < 0 THEN -n ELSE n

\* Of b and a.
gcd[b \in Nat] == [a \in Nat |-> IF b = 0 THEN a ELSE gcd[a % b][b]]

Fraction(n, d) ==
    LET g == gcd[Abs(d)][Abs(n)]
        s == IF d < 0 THEN -1 ELSE 1
    IN  [n |-> (s * n) \div g, d |-> (s * d) \div g]

Whole(n) == [n |-> n, d |-> 1]
Rate(r) == Fraction(r, Unit)

Plus(x, y) == Fraction(x.n * y.d + y.n * x.d, x.d * y.d)
Minus(x, y) == Fraction(x.n * y.d - y.n * x.d, x.d * y.d)
Times(x, y) == Fraction(x.n * y.n, x.d * y.d)
Over(x, y) == Fraction(x.n * y.d, x.d * y.n)
Exceeds(x, y) == x.n * y.d > y.n * x.d

Fractions == [n : Int, d : Int]

\* Steps, functions of fractions, taken one after the other.
Folded(steps, start) ==
    LET after[n \in Nat] == IF n = 0 THEN start ELSE steps[n][after[n - 1]] IN after

SumOf(xs) == Folded([i \in DOMAIN xs |-> [sum \in Fractions |-> Plus(sum, xs[i])]], Whole(0))[Len(xs)]
Power(x, k) == Folded([i \in Nat |-> [power \in Fractions |-> Times(power, x)]], Whole(1))[k]

ASSUME RootsAssumption ==
    \A base \in DOMAIN Roots :
        LET root == Roots[base]
        IN  /\ root.n \in Nat \ {0} /\ root.d \in Nat \ {0} /\ root = Fraction(root.n, root.d)
            /\ Power(root, YearLength) = base

-----------------------------------------------------------------------------
(***************************************************************************)
(* What is discounted, and at what (model/dcf.py, model/timing.py).        *)
(***************************************************************************)
\* What the change in working capital took, and the capital expenditure as the
\* cash flow statement has it, its sign removed.
Fcff(year) ==
    LET ebit == Whole(year.income.ebit)
    IN  Plus(Times(ebit, Minus(Whole(1), Rate(year.tax_rate))),
             Whole(year.flows.depreciation - Abs(year.flows.capex) + year.flows.nwc))

Free == [i \in DOMAIN years |-> Fcff(years[i])]

\* The last forecast year's tax rate is the one of the cost of capital.
CostOfEquity(m) == Plus(Rate(m.inputs.risk_free), Times(Rate(m.inputs.beta), Rate(m.inputs.premium)))
CostOfDebt(m) == Times(Rate(m.inputs.cost_of_debt), Minus(Whole(1), Rate(years[Len(years)].tax_rate)))

WeightOf(m, part) == Fraction(m.inputs[part], m.inputs.equity + m.inputs.debt)

Wacc(m) == Plus(Times(WeightOf(m, "equity"), CostOfEquity(m)), Times(WeightOf(m, "debt"), CostOfDebt(m)))

\* When each year's flow arrives: years and half-years that are all alike, or
\* the days there really are, leap days included, between two dates.
Arrivals(m) ==
    [i \in DOMAIN years |->
        CASE m.timing = "year_end" -> YearLength * i
          [] m.timing = "mid_year" -> YearLength * i - YearLength \div 2
          [] m.timing = "exact" -> m.year_ends[i] - m.valued_on]

\* Faulty: the terminal value is always discounted from the year end.
TerminalAtYearEnd(m) == YearLength * Len(years)

\* On the same convention as the flows before it.
TerminalArrival(m) == Arrivals(m)[Len(years)]

\* Whole years by multiplication, anything else by the exponential.
Discount(wacc, time) ==
    LET base == Plus(Whole(1), wacc)
    IN  Over(Whole(1), IF time % YearLength = 0 THEN Power(base, time \div YearLength)
                       ELSE Power(Roots[base], time))

TerminalValue(wacc, growth) ==
    Over(Times(Free[Len(years)], Plus(Whole(1), growth)), Minus(wacc, growth))

Enterprise(m, wacc, growth) ==
    Plus(SumOf([i \in DOMAIN years |-> Times(Free[i], Discount(wacc, Arrivals(m)[i]))]),
         Times(TerminalValue(wacc, growth), Discount(wacc, TerminalArrival(m))))

\* Cash and debt of the last actual year, and the lines that were supplied;
\* the ones nobody addressed are nil.
ToEquity(m, enterprise) ==
    Plus(enterprise,
         Whole(history.sheet.cash - history.sheet.debt + Amount(m.bridge.investments)
                   - Amount(m.bridge.minority_interest) - Amount(m.bridge.preferred)
                   - Amount(m.bridge.pension) - Amount(m.bridge.claims)))

-----------------------------------------------------------------------------
(***************************************************************************)
(* The grid: the whole valuation again in every cell, at a cost of capital *)
(* reached by solving for the equity risk premium (model/sensitivity.py).  *)
(***************************************************************************)
\* Faulty: the weight of equity is not divided out.
ShiftedUnweighted(m, target) ==
    Over(Minus(Minus(target, Times(WeightOf(m, "debt"), CostOfDebt(m))), Rate(m.inputs.risk_free)),
         Rate(m.inputs.beta))

\* The premium at which the cost of capital is the target.
Shifted(m, target) ==
    LET cost == Over(Minus(target, Times(WeightOf(m, "debt"), CostOfDebt(m))), WeightOf(m, "equity"))
    IN  Over(Minus(cost, Rate(m.inputs.risk_free)), Rate(m.inputs.beta))

WaccAt(m, premium) ==
    Plus(Times(WeightOf(m, "equity"),
               Plus(Rate(m.inputs.risk_free), Times(Rate(m.inputs.beta), premium))),
         Times(WeightOf(m, "debt"), CostOfDebt(m)))

\* A cell at or under the growth rate is there, with its reason and no value.
Cell(m, wacc, growth) ==
    IF ~Exceeds(wacc, growth) THEN {}
    ELSE LET shifted == WaccAt(m, Shifted(m, wacc)) IN {Enterprise(m, shifted, growth)}

Grid(m) ==
    [step \in WaccSteps \X GrowthSteps |->
        Cell(m, Plus(Wacc(m), Rate(step[1])), Plus(Rate(m.inputs.growth), Rate(step[2])))]

-----------------------------------------------------------------------------
\* Every input has to be supplied, and they are named all at once; the tax
\* rate has been checked by the forecast.
Supplied(m) == \A code \in MarketCodes : m.inputs[code] # Absent

\* What the engine's own records refuse: a market value that cannot be one,
\* real days counted from no date, a flow before the valuation date.
Impossible(m) ==
    \/ m.inputs.equity <= 0 \/ m.inputs.debt < 0
    \/ m.timing = "exact" /\ m.valued_on = Absent
    \/ \E i \in DOMAIN years : Arrivals(m)[i] < 0

\* A rate of minus one or less has no power to discount by.
Discountable(wacc) == Exceeds(wacc, Whole(-1))

Valuable(m) ==
    Supplied(m) /\ ~Impossible(m) /\ Exceeds(Wacc(m), Rate(m.inputs.growth)) /\ Discountable(Wacc(m))

\* One cell that cannot be discounted is no grid, and no premium reaches
\* another cost of capital with a beta of nothing.
Griddable(m) ==
    /\ m.inputs.beta # 0
    /\ \A step \in WaccSteps \X GrowthSteps :
          LET wacc == Plus(Wacc(m), Rate(step[1]))
          IN  Exceeds(wacc, Plus(Rate(m.inputs.growth), Rate(step[2]))) => Discountable(wacc)

\* The bound on the markets that are valued: a part of a year is discounted by
\* a fraction, in the valuation and in the cells.
Rooted(m) ==
    \/ \A i \in DOMAIN years : Arrivals(m)[i] % YearLength = 0
    \/ \A wacc \in {Wacc(m)} \cup {Plus(Wacc(m), Rate(step)) : step \in WaccSteps} :
           Discountable(wacc) => Plus(Whole(1), wacc) \in DOMAIN Roots

NotValued == [by |-> "nothing", market |-> {}, enterprise |-> {}, equity |-> {}, grid |-> {}]

ValuationInit == Init /\ valued = NotValued

Forecasting == Next /\ UNCHANGED valued

\* A valuation leaves nothing behind, so one of each forecast is enough.
Value(m) ==
    /\ stage = "built" /\ valued = NotValued
    /\ Valuable(m) /\ Rooted(m)
    /\ LET enterprise == Enterprise(m, Wacc(m), Rate(m.inputs.growth))
       IN  valued' = [by |-> "valued", market |-> {m}, enterprise |-> {enterprise},
                      equity |-> {ToEquity(m, enterprise)},
                      grid |-> IF Griddable(m) THEN {Grid(m)} ELSE {}]
    /\ UNCHANGED vars

\* Missing inputs and a growth rate too high are refused by name; what the
\* engine's own records refuse is not caught.
RefuseToValue(m) ==
    /\ stage = "built" /\ valued = NotValued
    /\ ~Valuable(m)
    /\ valued' = [NotValued EXCEPT !.by = IF Supplied(m) /\ Impossible(m) THEN "error" ELSE "refused",
                                   !.market = {m}]
    /\ UNCHANGED vars

ValuationNext ==
    \/ Forecasting
    \/ \E m \in Markets : Value(m) \/ RefuseToValue(m)

ValuationSpec == ValuationInit /\ [][ValuationNext]_<<vars, valued>>

-----------------------------------------------------------------------------
(***************************************************************************)
(* Properties.                                                             *)
(***************************************************************************)
\* The time from one flow to the next, or from the valuation date to the first.
Gap(m, i) == Arrivals(m)[i] - (IF i = 1 THEN 0 ELSE Arrivals(m)[i - 1])

\* Worth so many flows before the horizon: there, the terminal value; a flow
\* before, that worth and the flow, discounted by the time up to the flow.
WorthBefore(m, wacc, growth) ==
    Folded([k \in DOMAIN years |->
                LET i == Len(years) + 1 - k
                IN  [worth \in Fractions |-> Times(Plus(worth, Free[i]), Discount(wacc, Gap(m, i)))]],
           TerminalValue(wacc, growth))

\* The sum over the years is the firm's worth rolled back from flow to flow by
\* the time there really is between two of them, a leap year's day more
\* included, the terminal value arriving with the last flow; and flows in the
\* middle of the years are all worth half a year more than at their ends
\* (model/dcf.py run_dcf, model/timing.py, 16.11-16.17).
ValueIsRolledBack ==
    \A m \in valued.market, enterprise \in valued.enterprise :
        LET growth == Rate(m.inputs.growth)
        IN  /\ enterprise = WorthBefore(m, Wacc(m), growth)[Len(years)]
            /\ m.timing = "mid_year" =>
                  Enterprise([m EXCEPT !.timing = "year_end"], Wacc(m), growth)
                      = Times(enterprise, Discount(Wacc(m), YearLength \div 2))

\* Each cell of the grid is the valuation at exactly the rates it is labelled
\* with, the one without a step is the valuation itself, and a cell is empty
\* exactly where the rates do not allow one (model/sensitivity.py, 16.23).
GridIsCentred ==
    \A m \in valued.market, enterprise \in valued.enterprise, grid \in valued.grid :
        /\ <<0, 0>> \in DOMAIN grid => grid[<<0, 0>>] = {enterprise}
        /\ \A step \in DOMAIN grid :
              LET wacc == Plus(Wacc(m), Rate(step[1]))
                  growth == Plus(Rate(m.inputs.growth), Rate(step[2]))
              IN  grid[step] = IF Exceeds(wacc, growth) THEN {Enterprise(m, wacc, growth)} ELSE {}

-----------------------------------------------------------------------------
(***************************************************************************)
(* What the documentation says and the code does not do.                   *)
(***************************************************************************)
\* "The valuation could not be built, and this says exactly what is missing"
\* (valuation/build.py:58).
RefusalsAreNamed == valued.by # "error"

\* "FCFF is read back out of the completed three-statement forecast"
\* (model/dcf.py:3): it is the cash before financing, of operations alone.
FreeCashIsTheStatements ==
    \A i \in DOMAIN years :
        LET year == years[i]
            left_over == year.income.ebit - Part(year.income.ebit, year.tax_rate) - year.income.net
        IN  Free[i] = Whole(year.flows.cfo + year.flows.cfi + left_over - year.flows.sbc
                                - year.flows.other_operating - year.flows.acquisitions
                                - year.flows.disposals - year.flows.other_investing)

=============================================================================
