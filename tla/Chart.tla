-------------------------------- MODULE Chart --------------------------------
(***************************************************************************)
(* The canonical chart of accounts: which subtotal is derived from which   *)
(* lines (model/accounts.py DERIVED), on which statements a line may be    *)
(* printed and with which sign it is stored (mapping/chart.py).  The chart *)
(* is data of the program, so it is a parameter here and every result      *)
(* about the mapping stage holds for any chart.                            *)
(***************************************************************************)
EXTENDS Integers, Sequences, FiniteSets

CONSTANTS
    Codes,          \* canonical codes
    Subtotals,      \* the keys of accounts.DERIVED
    Plus, Minus,    \* Subtotals -> the codes a subtotal adds and subtracts
    Optional,       \* accounts.OPTIONAL_IN_DERIVATION
    StatementTypes, \* Codes -> the statements a line may appear on, in order
    ExpectedSign,   \* Codes -> "positive", "negative" or "either"
    NoValue         \* an absent figure; never zero

Statements == {"income", "balance", "cashflow"}

ASSUME ChartAssumption ==
    /\ Subtotals \subseteq Codes
    /\ Plus \in [Subtotals -> SUBSET Codes]
    /\ Minus \in [Subtotals -> SUBSET Codes]
    /\ Optional \subseteq Codes
    /\ DOMAIN StatementTypes = Codes
    /\ \A c \in Codes : StatementTypes[c] # <<>>
    /\ ExpectedSign \in [Codes -> {"positive", "negative", "either"}]
    /\ NoValue \notin Int

Components(s) == Plus[s] \cup Minus[s]

\* The subtotals a line feeds directly.
Feeds(c) == {s \in Subtotals : c \in Components(s)}

\* Every subtotal a line feeds, transitively: the worklist of `ancestors`, one
\* round of the frontier per step.
Ancestors(c) ==
    LET reach[n \in Nat] ==
            IF n = 0
              THEN Feeds(c)
              ELSE reach[n-1] \cup UNION {Feeds(s) : s \in reach[n-1]}
    IN  reach[Cardinality(Subtotals)]

InSumRelationship(a, b) ==
    /\ a # b
    /\ b \in Ancestors(a) \/ a \in Ancestors(b)

\* 11.8: flip a figure printed against the sign the chart stores.
InferSign(code, value) ==
    IF /\ value # NoValue
       /\ \/ ExpectedSign[code] = "positive" /\ value < 0
          \/ ExpectedSign[code] = "negative" /\ value > 0
      THEN "negated"
      ELSE "as_printed"

==============================================================================
