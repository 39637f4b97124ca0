---------------------------- MODULE Recalculation ----------------------------
(***************************************************************************)
(* A filing whose lines arrive and are corrected, a driver that changes,   *)
(* and the model that is calculated, recalculated and previewed over them. *)
(* A chart is one of Charts, circular ones included: the engine takes any. *)
(***************************************************************************)
EXTENDS Formulas

CONSTANTS
    Charts,         \* Subtotals -> formulas that only add and subtract
    Measures,       \* further formulas, over the subtotals and the driver
    Driver,         \* the assumption they read
    Rates,          \* its values
    Sheets,         \* VALID_ACCOUNTS: statement -> its accounts
    SheetOf,        \* STATEMENT_OF: account -> the one statement it is read from
    Printed,        \* statement -> account -> the amounts a filing may print for it
    MaxPending      \* bound on the values changed between two calculations

Statements == DOMAIN Sheets

ASSUME RecalculationAssumption ==
    /\ \A chart \in Charts : DOMAIN chart = Subtotals
    /\ DOMAIN Measures \subseteq ToSet(Alphabet)
    \* Each derivation is a sum of at least one term.
    /\ \A chart \in Charts, t \in Subtotals : chart[t].op = "none" /\ Terms(chart[t]) # {}
    \* True of model/accounts.py: what may be left out is a term of one subtotal.
    /\ \A chart \in Charts, a \in Optional :
          Cardinality({t \in Subtotals : a \in Terms(chart[t])}) <= 1
    /\ DOMAIN SheetOf \subseteq ToSet(Alphabet)
    /\ \A a \in DOMAIN SheetOf : SheetOf[a] \in Statements /\ a \in Sheets[SheetOf[a]]
    /\ \A s \in Statements : DOMAIN Printed[s] \subseteq Sheets[s] /\ Sheets[s] \subseteq DOMAIN SheetOf
    \* A ledger refuses an account that is not of its statement: none that it
    \* could derive is.
    /\ \A chart \in Charts, s \in Statements, t \in Subtotals :
          Terms(chart[t]) \cap Sheets[s] # {} /\ Terms(chart[t]) \ Optional \subseteq Sheets[s] => t \in Sheets[s]

VARIABLES
    chart,          \* DERIVED
    reported,       \* statement -> the lines the filing prints on it, in one year
    rate,           \* the driver as the scenario has it
    model,          \* the last CalculatedModel, or NoModel
    basis,          \* the environment it was calculated over
    preview         \* the last impact: what was proposed, and what it would move

vars == <<chart, reported, rate, model, basis, preview>>

NoModel == [cells |-> Nothing, unavailable |-> {}, inputs |-> Nothing]
NoPreview == [proposed |-> {}, moved |-> {}]

Formulas == With(chart, Measures)

\* A line on two statements is read from one of them.
Lines == [a \in {x \in DOMAIN SheetOf : x \in DOMAIN reported[SheetOf[x]]} |-> reported[SheetOf[a]][a]]

\* The scenario's assumptions are written over the ledgers' environment.
Environment == Put(LedgerEnvironment(chart, Lines), Driver, rate)

Changed ==
    LET present == Environment
    IN  {x \in DOMAIN present \cup DOMAIN basis : Only(present, {x}) # Only(basis, {x})}

Init ==
    /\ chart \in Charts
    /\ reported = [s \in Statements |-> Nothing]
    /\ rate \in Rates
    /\ model = NoModel
    /\ basis = Nothing
    /\ preview = NoPreview

\* A line is mapped, or its figure corrected.
MapLine(s, a, amount) ==
    /\ reported' = [reported EXCEPT ![s] = Put(@, a, amount)]
    /\ preview' = NoPreview
    /\ UNCHANGED <<chart, rate, model, basis>>

SetRate(r) ==
    /\ rate' = r
    /\ preview' = NoPreview
    /\ UNCHANGED <<chart, reported, model, basis>>

\* The order is refused up front if there is a cycle.
CalculateAll ==
    /\ Cycles(Formulas) = {}
    /\ model' = Calculate(Formulas, Environment)
    /\ basis' = Environment
    /\ preview' = NoPreview
    /\ UNCHANGED <<chart, reported, rate>>

\* The caller names what moved, and may name more.
RecalculateAfter(more) ==
    /\ model # NoModel
    /\ model' = Recalculate(Formulas, model, Environment, Changed \cup more)
    /\ basis' = Environment
    /\ preview' = NoPreview
    /\ UNCHANGED <<chart, reported, rate>>

\* Before saving a driver's change: nothing of the model is touched.
PreviewRate(r) ==
    /\ Cycles(Formulas) = {}
    /\ preview' = [proposed |-> {r}, moved |-> Moved(Formulas, Environment, Driver, r)]
    /\ UNCHANGED <<chart, reported, rate, model, basis>>

Next ==
    \/ /\ Cardinality(Changed) < MaxPending
       /\ \E s \in Statements : \E a \in DOMAIN Printed[s] : \E amount \in Printed[s][a] : MapLine(s, a, amount)
    \/ \E r \in Rates : SetRate(r) \/ PreviewRate(r)
    \/ CalculateAll
    \/ \E more \in {{}, DOMAIN Environment} : RecalculateAfter(more)

Spec == Init /\ [][Next]_vars

-----------------------------------------------------------------------------
(***************************************************************************)
(* Properties.                                                             *)
(***************************************************************************)
\* A partial recalculation is a full one: whatever lines appeared or changed
\* and however many recalculations were made one upon the other, each cell is
\* what its formula gives over the present inputs, and there is none where a
\* full calculation has none (formula/calculate.py, 18.8 and 18.14).
Full == INSTANCE Calculation WITH formulas <- Formulas, environment <- basis, cells <- model.cells
EveryModelIsAFullOne == Full!Spec

\* A set of formulas is refused before anything is calculated exactly if some
\* target reads itself through others; otherwise the order has every target
\* after what it reads (formula/graph.py, 18.5 and 18.6). The walk visits each
\* target once, so not every loop is looked for.
RefusesExactlyLoops ==
    LET loops == {t \in Targets(Formulas) : t \in Descendants(Formulas, {t})}
        order == Order(Formulas)
    IN  /\ Cycles(Formulas) = {} <=> loops = {}
        /\ loops = {} => /\ ToSet(order) = Targets(Formulas)
                         /\ \A i, j \in DOMAIN order :
                               order[j] \in InnerInputs(Formulas, order[i]) => j < i

\* What is read from a statement, and the subtotals it carries over from
\* another: net income on the cash flow statement.
ReadFrom(s) == {a \in DOMAIN SheetOf : SheetOf[a] = s}
CarriedOver(s) == {t \in Subtotals \cap ReadFrom(s) : Terms(chart[t]) \cap ReadFrom(s) = {}}

\* What rests on another statement, not looking behind what is carried over.
RestElsewhere(s) ==
    Descendants(Only(chart, Subtotals \ CarriedOver(s)), ToSet(Alphabet) \ ReadFrom(s))

SameFigure(cells, lines, t) == t \in DOMAIN lines /\ lines[t] = cells[t]

\* Two ways to one figure. The formulas read all the statements together, and
\* a statement derives from its own lines alone: what the formulas compute
\* from a statement's lines and from what it carries over, that statement has
\* at the same value, if its printed subtotals agree with their terms and what
\* it carries over is what was computed (formula/catalog.py supplies nil lines,
\* model/statements.py skips them). And whatever is computed, EBITDA over two
\* statements included, rests on a printed line.
FormulasAgreeWithStatements ==
    Cycles(Formulas) = {} =>
        LET cells == Report(chart, Lines).cells
        IN  /\ DOMAIN cells \subseteq DOMAIN Lines \cup Descendants(chart, DOMAIN Lines)
            /\ \A s \in Statements :
                  LET lines == FillDerivable(chart, reported[s])
                  IN  /\ Discrepancies(chart, reported[s], lines) = {}
                      /\ \A t \in CarriedOver(s) \cap DOMAIN cells : SameFigure(cells, lines, t)
                      => \A t \in DOMAIN cells \ (CarriedOver(s) \cup RestElsewhere(s)) :
                            SameFigure(cells, lines, t)

\* What a preview says would move is what moves: the difference between two
\* full calculations, with the driver as it is and as proposed, and nothing
\* that keeps its value (assumptions/impact.py, 14.8).
PreviewIsWhatSavingDoes ==
    \A r \in preview.proposed :
        LET before == Calculate(Formulas, Environment).cells
            after == Calculate(Formulas, Put(Environment, Driver, r)).cells
        IN  preview.moved =
                {<<t, Only(before, {t}), Only(after, {t})>> :
                    t \in {u \in Targets(Formulas) : Only(before, {u}) # Only(after, {u})}}

-----------------------------------------------------------------------------
(***************************************************************************)
(* What the documentation says and the code does not do.                   *)
(***************************************************************************)
\* "Every elementary cycle among the computed targets" (formula/graph.py:112).
EveryCycleIsNamed ==
    \A S \in SUBSET Targets(Formulas) :
        (S # {} /\ \E f \in [1 .. Cardinality(S) -> S] :
            /\ IsInjective(f)
            /\ \A i \in DOMAIN f :
                  f[i] \in InnerInputs(Formulas, f[IF i = Cardinality(S) THEN 1 ELSE i + 1]))
        => S \in Cycles(Formulas)

\* "A derived account whose own derivation cannot run here is still the best
\* figure available, and downstream formulas need it" (formula/catalog.py:189).
PrintedStandsWhereUnderivable ==
    Cycles(Formulas) = {} =>
        \A t \in Subtotals \cap DOMAIN Lines :
            \/ t \in DOMAIN Report(chart, Lines).cells
            \/ t \in DOMAIN LedgerEnvironment(chart, Lines)

\* "the same model re-run on the same inputs hashes identically and a single
\* changed input does not" (formula/registry.py:23): equal fingerprints are
\* equal calculations.
FingerprintsTellApart ==
    [][model # NoModel /\ model'.inputs = model.inputs => model'.cells = model.cells]_vars

=============================================================================
