------------------------------ MODULE Historical ------------------------------
(***************************************************************************)
(* The historical statements a strict build makes of the reviewed facts,   *)
(* the checks run on them and the roll-forward schedules reconciled with   *)
(* them: statements/build.py, statements/checks.py and schedules/.  Pure   *)
(* functions of a mapping m, of the facts' values v and of the set of      *)
(* verified facts.                                                         *)
(*                                                                         *)
(* A build b has `refused`, `years` and `cells`: the lines that have a     *)
(* figure, [at: <<statement, code, year>>, is: figure].  Absent is never   *)
(* zero.                                                                   *)
(***************************************************************************)
EXTENDS Ledger

-----------------------------------------------------------------------------
(* build_statements *)

Figured(rows, v) == {row \in rows : Total(row.from, v) # NoValue}

\* BuildError: no period at all, a figure under a mapping nobody approved, or
\* one that rests on a fact not verified.
Refuses(rows, v, verified) ==
    \/ rows = {}
    \/ \E row \in Figured(rows, v) : \E p \in row.from : ~p[2].approved \/ p[1] \notin verified

Build(m, v, verified) ==
    LET rows == Rows(m)
    IN  [refused |-> Refuses(rows, v, verified),
         years |-> {row.at[3] : row \in rows},
         cells |-> {[at |-> row.at, is |-> Total(row.from, v)] : row \in Figured(rows, v)}]

Cell(b, statement, code, year) ==
    LET found == {x \in b.cells : x.at = <<statement, code, year>>}
    IN  IF found = {} THEN NoValue ELSE (CHOOSE x \in found : TRUE).is

\* The years with a period before them in this filing, and that period: the
\* one printed before, however far back.
Later(b) == {y \in b.years : \E x \in b.years : x < y}
Prior(b, year) == Max({x \in b.years : x < year})

-----------------------------------------------------------------------------
(* What a check answers *)

Status == {"PASS", "FAIL", "SKIP"}

\* Faulty: a check passes as long as something it compared holds.
VerdictIfAnyHolds(checked, failing) ==
    IF checked = {} THEN "SKIP" ELSE IF failing = checked THEN "FAIL" ELSE "PASS"

\* Nothing to compare is not a pass.
Verdict(checked, failing) ==
    IF checked = {} THEN "SKIP" ELSE IF failing # {} THEN "FAIL" ELSE "PASS"

-----------------------------------------------------------------------------
(* statements/checks.py *)

BalanceSheetBalances(b) ==
    LET Of(c, y) == Cell(b, "balance", c, y)
        checked == {y \in b.years : \A c \in {"total_assets", "total_liabilities", "total_equity"} :
                                        Of(c, y) # NoValue}
    IN  Verdict(checked,
                {y \in checked : ~Close(Of("total_assets", y),
                                        Of("total_liabilities", y) + Of("total_equity", y))})

CashReconciles(b) ==
    LET Opening(y) == Cell(b, "balance", Cash, Prior(b, y))
        Closing(y) == Cell(b, "balance", Cash, y)
        Flow(c, y) == Cell(b, "cashflow", c, y)
        checked == {y \in Later(b) :
                      NoValue \notin {Opening(y), Closing(y)}
                                       \cup {Flow(c, y) : c \in {CFO, CFI, CFF}}}
    IN  Verdict(checked,
                {y \in checked : ~Close(Opening(y) + Flow(CFO, y) + Flow(CFI, y) + Flow(CFF, y),
                                        Closing(y))})

\* Ledger.cross_check: on each statement, a subtotal both printed and derivable.
\* A residual line that is absent adds nothing, any other makes it underivable.
SubtotalsReconcile(b) ==
    LET Of(k, c) == Cell(b, k[1], c, k[3])
        present(k) == {c \in Components(k[2]) : Of(k, c) # NoValue}
        figures(k) == [c \in present(k) |-> Of(k, c)]
        derived(k) == SumOver(figures(k), Plus[k[2]] \cap present(k))
                        - SumOver(figures(k), Minus[k[2]] \cap present(k))
        comparable == {k \in {x.at : x \in b.cells} :
                         /\ k[2] \in Subtotals
                         /\ Components(k[2]) \ present(k) \subseteq Optional}
    IN  Verdict(comparable,
                {k \in comparable : present(k) # {} /\ ~Close(Of(k, k[2]), derived(k))})

NetIncomeLinks(b) ==
    LET Of(st, y) == Cell(b, st, NetIncome, y)
        checked == {y \in b.years : NoValue \notin {Of("income", y), Of("cashflow", y)}}
    IN  Verdict(checked, {y \in checked : ~Close(Of("income", y), Of("cashflow", y))})

-----------------------------------------------------------------------------
(* schedules/rollforward.py and schedules/checks.py *)

\* A movement is [statement, account, multiplier]; one the filing does not
\* print is absent and stays in the difference.
Move(statement, account, multiplier) ==
    [statement |-> statement, account |-> account, multiplier |-> multiplier]

Disclosed(b, movements, year) ==
    {x \in movements : Cell(b, x.statement, x.account, year) # NoValue}

\* Beginning plus every movement the filing disclosed, against the balance
\* printed at the end.  Without an opening balance there is nothing to roll.
RollForward(b, balance, movements) ==
    LET Opening(y) == Cell(b, "balance", balance, Prior(b, y))
        Ending(y) == Cell(b, "balance", balance, y)
        Computed(y) ==
            LET Amount(x) == x.multiplier * Cell(b, x.statement, x.account, y)
            IN  Opening(y) + MapThenSumSet(Amount, Disclosed(b, movements, y))
        checked == {y \in Later(b) : Opening(y) # NoValue /\ Ending(y) # NoValue}
    IN  Verdict(checked, {y \in checked : ~Close(Computed(y), Ending(y))})

\* Capital expenditure is stored as an outflow.  The combined charge falls on
\* PP&E unless the filing splits it in some year.
PpeMovements(b) ==
    LET splits == \E y \in b.years : Cell(b, "cashflow", "depreciation", y) # NoValue
    IN  {Move("cashflow", "capex", -1),
         Move("cashflow", IF splits THEN "depreciation" ELSE "depreciation_amortization", -1)}

PpeReconciles(b) == RollForward(b, "ppe_net", PpeMovements(b))

IntangiblesReconcile(b) ==
    RollForward(b, "intangibles", {Move("cashflow", "amortization", -1)})

DebtReconciles(b) ==
    RollForward(b, "debt", {Move("cashflow", "debt_issuance", 1),
                            Move("cashflow", "debt_repayment", 1)})

RetainedEarningsReconcile(b) ==
    RollForward(b, "retained_earnings", {Move("income", NetIncome, 1),
                                         Move("cashflow", "dividends", 1)})

\* tax.py: the years whose effective rate a forecast could use, 0 <= rate < 1.
UsableRates(b) ==
    {y \in b.years :
        LET pretax == Cell(b, "income", "pretax_income", y)
            tax == Cell(b, "income", "taxes", y)
        IN  /\ pretax # NoValue /\ tax # NoValue
            /\ pretax > 0
            /\ 0 <= tax /\ tax < pretax}

==============================================================================
