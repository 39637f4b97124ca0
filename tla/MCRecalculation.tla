--------------------------- MODULE MCRecalculation ---------------------------
(***************************************************************************)
(* Operating expenses, operating income and net income over sales and a    *)
(* category of cost, as every chart over these lines up to the size that   *)
(* matters: chains, diamonds, subtotals of optional lines only, and loops. *)
(* Under it, cash from operations, from the net income the cash flow       *)
(* statement carries over, and EBITDA, which has terms on two statements.  *)
(***************************************************************************)
EXTENDS Recalculation, TLC

Names == <<"cfo", "da", "ebit", "ebitda", "net", "opex", "rate", "rd", "sales", "sga", "share", "tax">>

Sum(plus, minus) == [plus |-> plus, minus |-> minus, op |-> "none", by |-> "none"]

SmallCharts ==
    {[opex |-> o, ebit |-> e, net |-> n, ebitda |-> Sum({"ebit", "da"}, {}), cfo |-> Sum({"net", "da"}, {})] :
        o \in {Sum({"rd", "sga"}, {}), Sum({"ebit", "sga"}, {"rd"})},
        e \in {Sum({"sales"}, {"opex"}), Sum({"net"}, {"opex"}), Sum({"sales"}, {})},
        n \in {Sum({"ebit"}, {}), Sum({"opex"}, {}), Sum({"ebit", "opex"}, {"sales"})}}

Rated == [tax |-> [plus |-> {"ebit"}, minus |-> {}, op |-> "/", by |-> "rate"],
          share |-> Sum({"net"}, {"tax"})]

RateValues == {-1, 0}

\* Exact, as what is divided by is zero, which is refused, or minus one.
Divided(sum, by) == sum * by

TwoSheets == [income |-> {"sales", "sga", "rd", "opex", "ebit", "ebitda", "net"}, cash |-> {"net", "da", "cfo"}]

ReadOn == [a \in TwoSheets.income \cup TwoSheets.cash |-> IF a \in TwoSheets.cash THEN "cash" ELSE "income"]

Amounts ==
    [income |-> [sales |-> {1}, rd |-> {1}, opex |-> {2}],
     cash |-> [net |-> {0, 1}, da |-> {1}]]

==============================================================================
