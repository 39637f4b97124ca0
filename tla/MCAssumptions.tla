--------------------------- MODULE MCAssumptions ----------------------------
(***************************************************************************)
(* A small instance of the assumption register: a driver the forecast      *)
(* requires under either of two methodologies, a base case and a variant,  *)
(* two forecast years, and records for every year or for the second only.  *)
(***************************************************************************)
EXTENDS Assumptions, TLC

Choice == {{"capex_amount", "capex_pct"}}
MeasuredOne == [c \in Codes |-> IF c = "capex_pct" THEN {1} ELSE {}]

Entry(periods, source, evidence) ==
    [periods |-> periods, value |-> 1, source |-> source, evidence |-> evidence]
Entries == {Entry({}, "CompanyFiling", {"page"}), Entry({2}, "AnalystAssumption", {})}

==============================================================================
