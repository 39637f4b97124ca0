-------------------------------- MODULE Ledger --------------------------------
(***************************************************************************)
(* The normalized ledger and the findings computed from it:                *)
(* mapping/normalized.py and mapping/checks.py.  Everything here is a pure *)
(* function of a mapping m \in [Facts -> SUBSET Mapping] and of the facts' *)
(* values v \in [Facts -> Figure].                                         *)
(***************************************************************************)
EXTENDS Chart, FiniteSetsExt

CONSTANTS
    Facts,
    PeriodOf,        \* Facts -> the year its column is headed by: each is, here
    PrintedOn,       \* Facts -> the statement its table's caption names
    UnknownStatement,
    NetIncome, Cash, CFO, CFI, CFF,   \* the codes the linkages name
    ToleranceScale   \* 1 / the relative tolerance (10^9 in model/checks.py)

ASSUME LedgerAssumption ==
    /\ IsFiniteSet(Facts)
    /\ PeriodOf \in [Facts -> Nat]
    /\ PrintedOn \in [Facts -> Statements \cup {UnknownStatement}]
    /\ ToleranceScale \in Nat \ {0}

Figure == Int \cup {NoValue}

MappingType == {"one_to_one", "aggregate", "split", "rejected"}

\* One FactMapping.  A fact's mappings have distinct codes, so a set holds them.
Mapping == [code : Codes, type : MappingType,
            sign : {"as_printed", "negated"},
            amount : Figure, approved : BOOLEAN]

Contributes(r) == r.type # "rejected"

\* MappingSet.is_approved: a contributing mapping, and no unapproved one.
IsApproved(m, f) ==
    /\ \E r \in m[f] : Contributes(r)
    /\ \A r \in m[f] : r.approved

-----------------------------------------------------------------------------
(* normalized.py *)

StatementFor(code, f) ==
    IF Len(StatementTypes[code]) = 1 \/ PrintedOn[f] = UnknownStatement
      THEN StatementTypes[code][1]
      ELSE PrintedOn[f]

Contribution(r, value) ==
    LET raw == IF r.type = "split" THEN r.amount ELSE value
    IN  IF raw = NoValue THEN NoValue
        ELSE IF r.sign = "negated" THEN -raw ELSE raw

Place(p) == <<StatementFor(p[2].code, p[1]), p[2].code, PeriodOf[p[1]]>>

\* The lines of the ledger, those without a figure included: where each is,
\* and the (fact, mapping) pairs that make it.
Rows(m) ==
    LET pairs == UNION {{<<f, r>> : r \in {s \in m[f] : Contributes(s)}} : f \in Facts}
    IN  {[at |-> k, from |-> {p \in pairs : Place(p) = k}] : k \in {Place(p) : p \in pairs}}

Line(rows, code, period, statement) ==
    UNION {row.from : row \in {x \in rows : x.at = <<statement, code, period>>}}

\* A line nobody mapped is absent, and so is one with an unreadable
\* contributor: a partial sum would look like a total.
Total(line, v) ==
    LET Term(p) == Contribution(p[2], v[p[1]])
    IN  IF line = {} \/ \E p \in line : Term(p) = NoValue
          THEN NoValue
          ELSE MapThenSumSet(Term, line)

LineValue(rows, v, code, period, statement) == Total(Line(rows, code, period, statement), v)

Contributors(rows, code, period, statement) ==
    {p[1] : p \in Line(rows, code, period, statement)}

-----------------------------------------------------------------------------
(* checks.py: 11.6, two figures added where one was reported *)

\* One fact mapped to two lines of which one is counted inside the other.
NestedMapping(m, f) ==
    \E r, s \in m[f] :
        /\ r # s
        /\ Contributes(r) /\ Contributes(s)
        /\ r.code = s.code \/ InSumRelationship(r.code, s.code)

\* The contributing mappings that share a code and a period.
Group(m, code, period) ==
    UNION {{<<f, r>> : r \in {s \in m[f] : Contributes(s) /\ s.code = code}} :
             f \in {g \in Facts : PeriodOf[g] = period}}

\* Net income is printed on two statements: a linkage, not a sum.
CrossStatementDuplicate(code, group) ==
    /\ Len(StatementTypes[code]) >= 2
    /\ Cardinality({PrintedOn[p[1]] : p \in group} \ {UnknownStatement}) > 1

UndeclaredAggregate(m, f) ==
    \E r \in m[f] :
        LET group == Group(m, r.code, PeriodOf[f])
        IN  /\ Contributes(r)
            /\ \E p, q \in group : p # q
            /\ \E p \in group : p[2].type # "aggregate"
            /\ ~CrossStatementDuplicate(r.code, group)

\* duplicate_counting names f.
DoubleCounted(m, f) == NestedMapping(m, f) \/ UndeclaredAggregate(m, f)

-----------------------------------------------------------------------------
(* checks.py: 11.7 and 10.30, reported totals against what was mapped *)

\* The sum of a table's figures over some of its codes.
SumOver(table, codes) ==
    LET Term(c) == table[c] IN MapThenSumSet(Term, codes)

AbsOf(x) == IF x < 0 THEN -x ELSE x

Close(a, b) == AbsOf(a - b) * ToleranceScale <= Max({AbsOf(a), AbsOf(b)})

DerivationStatement(s) ==
    IF Len(StatementTypes[s]) = 1 THEN StatementTypes[s][1] ELSE "income"

\* The reported subtotal disagrees with the sum of its mapped components.  An
\* absent component that is not optional makes the sum unknown, not smaller.
SubtotalMismatch(rows, v, s, period) ==
    LET st == DerivationStatement(s)
        Of(c) == LineValue(rows, v, c, period, st)
        present == {c \in Components(s) : Of(c) # NoValue}
        figures == [c \in present |-> Of(c)]
        derived == SumOver(figures, Plus[s] \cap present)
                     - SumOver(figures, Minus[s] \cap present)
    IN  /\ Of(s) # NoValue
        /\ Components(s) \ present \subseteq Optional
        /\ present # {}
        /\ ~Close(Of(s), derived)

SubtotalNames(rows, s, period) ==
    UNION {Contributors(rows, c, period, DerivationStatement(s)) :
             c \in {s} \cup Components(s)}

\* Net income on the income statement against the cash flow statement's.
LinkageMismatch(rows, v, period) ==
    LET income == LineValue(rows, v, NetIncome, period, "income")
        flow == LineValue(rows, v, NetIncome, period, "cashflow")
    IN  /\ income # NoValue /\ flow # NoValue
        /\ ~Close(income, flow)

LinkageNames(rows, period) ==
    UNION {Contributors(rows, NetIncome, period, st) : st \in {"income", "cashflow"}}

\* Opening cash plus the three flows against closing cash. The code passes over
\* columns that are headed by no year.
RollForwardMismatch(rows, v, period) ==
    LET opening == LineValue(rows, v, Cash, period - 1, "balance")
        closing == LineValue(rows, v, Cash, period, "balance")
        Flow(c) == LineValue(rows, v, c, period, "cashflow")
    IN  /\ NoValue \notin {opening, closing} \cup {Flow(c) : c \in {CFO, CFI, CFF}}
        /\ ~Close(opening + Flow(CFO) + Flow(CFI) + Flow(CFF), closing)

RollForwardNames(rows, period) ==
    Contributors(rows, Cash, period - 1, "balance")
      \cup Contributors(rows, Cash, period, "balance")
      \cup UNION {Contributors(rows, c, period, "cashflow") : c \in {CFO, CFI, CFF}}

MappingCodes == {"DOUBLE_COUNTED", "SUBTOTAL_MISMATCH", "CROSS_STATEMENT_MISMATCH"}

Periods == {PeriodOf[f] : f \in Facts}

\* all_findings: the codes raised against each fact.
Findings(m, v) ==
    LET rows == Rows(m)
        subtotals == UNION {{<<s, y>> : y \in {x \in Periods : SubtotalMismatch(rows, v, s, x)}} :
                              s \in Subtotals}
        linkages == {y \in Periods : LinkageMismatch(rows, v, y)}
        rolls == {y \in Periods : RollForwardMismatch(rows, v, y)}
    IN  [f \in Facts |->
           {c \in MappingCodes :
              \/ c = "DOUBLE_COUNTED" /\ DoubleCounted(m, f)
              \/ /\ c = "SUBTOTAL_MISMATCH"
                 /\ \E k \in subtotals : f \in SubtotalNames(rows, k[1], k[2])
              \/ /\ c = "CROSS_STATEMENT_MISMATCH"
                 /\ \/ \E y \in linkages : f \in LinkageNames(rows, y)
                    \/ \E y \in rolls : f \in RollForwardNames(rows, y)}]

==============================================================================
