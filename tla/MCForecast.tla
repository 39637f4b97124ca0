----------------------------- MODULE MCForecast -----------------------------
(***************************************************************************)
(* Two forecast years, with plans that leave a plain one in each respect   *)
(* and in the ones that meet: investing, financing and paying out. Amounts *)
(* are multiples that every rate used divides exactly.                     *)
(***************************************************************************)
EXTENDS Valuation, TLC

Set(f, codes, value) == [x \in DOMAIN f |-> IF x \in codes THEN value ELSE f[x]]

BaseSheet ==
    Set(Set(Set(Set([a \in Accounts |-> 0], {"cash", "common"}, 16), {"ppe", "debt"}, 32),
            {"goodwill", "leases"}, 8), {"intangibles", "minority"}, Absent)

Nothing == [t \in Totals |-> Absent]

Moved == [cfo |-> 8, cfi |-> 0, cff |-> 0]

Filing == [revenue |-> 64, sheet |-> BaseSheet, printed |-> Nothing, cash_before |-> 8, moved |-> Moved]

SmallHistories ==
    {Filing,
     [Filing EXCEPT !.printed = [assets |-> 56, liabilities |-> 40, equity |-> 16]],
     \* A line the mapping missed: the printed totals balance, the lines do not.
     [Filing EXCEPT !.printed = [assets |-> 64, liabilities |-> 48, equity |-> 16],
                    !.sheet = Set(BaseSheet, {"leases"}, 16)],
     \* Lines that balance under a printed total that does not.
     [Filing EXCEPT !.printed = [assets |-> 60, liabilities |-> 40, equity |-> 16]],
     [Filing EXCEPT !.moved = [Moved EXCEPT !["cff"] = Absent]],
     [Filing EXCEPT !.cash_before = 0],
     [Filing EXCEPT !.sheet = Set(BaseSheet, {"retained"}, Absent)]}

Plain ==
    Set(Set(Set([name \in Drivers |-> Absent], Structural, 0), {"capex_amount", "cogs_amount", "opex_amount"}, 8),
        {"depreciation", "growth"}, 1)

With(codes, value) == Set(Plain, codes, value)

SmallPlans ==
    {Plain, With({"acquisitions"}, 8), With({"capex_amount"}, -8), With({"disposals", "other_investing"}, 8),
     With({"other_operating", "other_financing"}, 8), With({"repayment"}, 64), With({"repayment", "issuance"}, 16),
     With({"dso", "inventory_days"}, 1), With({"dpo"}, 2), With({"dso"}, -1),
     With({"tax_rate", "payout_ratio", "interest_rate"}, 1), With({"tax_rate"}, 2),
     With({"buybacks", "dividends_amount", "sbc_pct"}, 1), With({"payout_ratio", "dividends_amount"}, 1),
     With({"opex_pct"}, 1), Set(With({"opex_pct"}, 1), {"opex_amount"}, Absent),
     Set(With({"other_income"}, -8), {"capex_amount"}, Absent)}

\* Costs of capital of five fourths, one, less than nothing and under minus one; growth under, at and over them.
Nil == [c \in BridgeCodes |-> Absent]

\* A year of two units of time, and the second forecast year a leap year of
\* three: a day more is half a year more here.
Market(rf, beta, premium, kd, e, d, g, timing, valued_on) ==
    [inputs |-> [risk_free |-> rf, beta |-> beta, premium |-> premium, cost_of_debt |-> kd,
                 equity |-> e, debt |-> d, growth |-> g],
     bridge |-> Nil, timing |-> timing, valued_on |-> valued_on, year_ends |-> <<2, 5>>]

Common(m) == [m EXCEPT !.year_ends = <<2, 4>>]

SmallMarkets ==
    {Market(2, 1, 1, 6, 1, 0, g, t, 0) : g \in {0, 2}, t \in Timings}
        \cup {Market(2, 1, 1, 6, 1, 0, 0, "exact", date) : date \in {Absent, -1, 1, 3}}
        \cup {Common(Market(2, 2, 0, 4, 1, 1, 0, "exact", -2)), Market(2, 0, 4, 2, 1, 0, 0, "year_end", Absent),
              Market(2, 2, 0, 4, 1, 1, 2, "year_end", 0), Market(2, 2, 0, 2, 0, 1, 0, "year_end", 0),
              Market(2, 2, 0, Absent, 1, 1, 0, "year_end", 0),
              Market(-4, 2, 0, -8, 1, 1, -8, "year_end", 0), Market(-1, 2, 0, 2, 1, 0, -6, "year_end", 0),
              [Market(2, 4, 1, 4, 1, 1, -2, "year_end", 0) EXCEPT !.bridge = Set(Nil, {"claims"}, 8)]}

\* From a cost of capital of five fourths to a base that has a root.
SmallWaccSteps == {-4, 0}

SmallGrowthSteps == {-2, 0, 2}

SmallRoots == [base \in {[n |-> r * r, d |-> 4] : r \in {1, 3}} |->
                   CHOOSE root \in [n : {1, 3}, d : {2}] : root.n * root.n = base.n]

==============================================================================
