------------------------------ MODULE Formulas ------------------------------
(***************************************************************************)
(* The formula engine as functions of values: the dependency graph, its    *)
(* cycles and its order, calculating and recalculating a set of formulas,  *)
(* what a statement derives from the lines of a filing, and how the        *)
(* formulas are fed from all of them. An environment, a model's cells and  *)
(* a ledger's year are functions whose domain is what has a value.         *)
(*                                                                         *)
(* A formula adds and subtracts references and may multiply or divide the  *)
(* result by one more. Units are a static matter of the text and are left  *)
(* out: no value makes a formula's unit right or wrong.                    *)
(***************************************************************************)
EXTENDS Integers, FiniteSets, Sequences, FiniteSetsExt, SequencesExt, TLC

CONSTANTS
    Alphabet,       \* every reference, in the order sorted() gives them
    Subtotals,      \* accounts of the chart that are derived from others
    Optional,       \* OPTIONAL_IN_DERIVATION
    Quotient(_, _)  \* of decimals, as the context rounds it

ASSUME FormulasAssumption ==
    /\ Alphabet \in Seq(ToSet(Alphabet)) /\ IsInjective(Alphabet)
    /\ Subtotals \cup Optional \subseteq ToSet(Alphabet)
    /\ Subtotals \cap Optional = {}

\* The first of S in sorted order.
First(S) == Alphabet[Min({i \in DOMAIN Alphabet : Alphabet[i] \in S})]

\* f, and what g has besides.
With(f, g) == [x \in DOMAIN f \cup DOMAIN g |-> IF x \in DOMAIN f THEN f[x] ELSE g[x]]
Put(f, path, value) == With([x \in {path} |-> value], f)
Only(f, S) == [x \in DOMAIN f \cap S |-> f[x]]
Nothing == [x \in {} |-> 0]

\* The sum of f over S, to which nil adds nothing.
Total(f, S) == FoldFunction(+, 0, [x \in {y \in S : f[y] # 0} |-> f[x]])

\* A step, a function on the states of a loop, taken over and over.
Repeated(step, start) ==
    LET after[n \in Nat] == IF n = 0 THEN start ELSE step[after[n - 1]] IN after

-----------------------------------------------------------------------------
(***************************************************************************)
(* The graph of a set of formulas: a function from targets to formulas.    *)
(***************************************************************************)
Inputs(formula) ==
    formula.plus \cup formula.minus \cup (IF formula.op = "none" THEN {} ELSE {formula.by})

Targets(formulas) == DOMAIN formulas

InnerInputs(formulas, t) == Inputs(formulas[t]) \cap Targets(formulas)

RequiredInputs(formulas) ==
    UNION {Inputs(formulas[t]) : t \in Targets(formulas)} \ Targets(formulas)

\* The depth-first walk of cycles(): the path it is on, the targets it is
\* done with, and the loops found.
Walks(formulas) ==
    [path : Seq(Targets(formulas)), visited : SUBSET Targets(formulas), found : SUBSET SUBSET Targets(formulas)]

NotWalked == [path |-> <<>>, visited |-> {}, found |-> {}]

\* The loops an input of the last target of the path closes.
LoopsClosed(formulas, path) ==
    {{path[j] : j \in i .. Len(path)} :
        i \in {k \in DOMAIN path : path[k] \in InnerInputs(formulas, path[Len(path)])}}

\* Where the walk may go down to: a target, or an input of where it is.
Ahead(formulas, walk) ==
    (IF walk.path = <<>> THEN Targets(formulas) ELSE InnerInputs(formulas, walk.path[Len(walk.path)]))
        \ (walk.visited \cup ToSet(walk.path))

WalkStep(formulas) ==
    [walk \in Walks(formulas) |->
        IF Ahead(formulas, walk) # {}
        THEN [walk EXCEPT !.path = Append(@, First(Ahead(formulas, walk)))]
        ELSE IF walk.path # <<>>
        THEN [path |-> SubSeq(walk.path, 1, Len(walk.path) - 1),
              visited |-> walk.visited \cup {walk.path[Len(walk.path)]},
              found |-> walk.found \cup LoopsClosed(formulas, walk.path)]
        ELSE walk]

\* Faulty: a walk that meets a target again takes it for a loop.
CyclesByMeeting(formulas) ==
    {S \in SUBSET Targets(formulas) :
        \E a \in S : \E b, c \in Targets(formulas) :
            b # c /\ a \in InnerInputs(formulas, b) \cap InnerInputs(formulas, c)}

\* Each target is gone down to and up from once.
Cycles(formulas) ==
    Repeated(WalkStep(formulas), NotWalked)[2 * Cardinality(Targets(formulas))].found

\* order(): whatever has all its inputs, in sorted order, and again.
Orders(formulas) == [done : Seq(Targets(formulas)), ready : SUBSET Targets(formulas)]

NotOrdered == [done |-> <<>>, ready |-> {}]

Ready(formulas, so_far) ==
    IF so_far.ready # {} THEN so_far.ready
    ELSE {t \in Targets(formulas) \ ToSet(so_far.done) : InnerInputs(formulas, t) \subseteq ToSet(so_far.done)}

OrderStep(formulas) ==
    [so_far \in Orders(formulas) |->
        LET ready == Ready(formulas, so_far)
        IN  IF ready = {} THEN so_far
            ELSE [done |-> Append(so_far.done, First(ready)), ready |-> ready \ {First(ready)}]]

Order(formulas) ==
    Repeated(OrderStep(formulas), NotOrdered)[Cardinality(Targets(formulas))].done

\* What reads one of `changed` directly.
DirectReaders(formulas, changed) ==
    {t \in Targets(formulas) : Inputs(formulas[t]) \cap changed # {}}

\* Everything that reads one of `changed`, directly or not.
ReadersStep(formulas, changed) ==
    [read \in SUBSET Targets(formulas) |-> read \cup DirectReaders(formulas, changed \cup read)]

Descendants(formulas, changed) ==
    Repeated(ReadersStep(formulas, changed), {})[Cardinality(Targets(formulas))]

-----------------------------------------------------------------------------
(***************************************************************************)
(* Calculating.                                                            *)
(***************************************************************************)
\* A missing input and a division by zero leave a cell out; it is no zero.
CanCompute(formula, environment) ==
    /\ Inputs(formula) \subseteq DOMAIN environment
    /\ formula.op = "/" => environment[formula.by] # 0

\* A quotient is whatever the decimal context makes of it.
Evaluate(formula, environment) ==
    LET sum == Total(environment, formula.plus) - Total(environment, formula.minus)
    IN  CASE formula.op = "none" -> sum
          [] formula.op = "*" -> sum * environment[formula.by]
          [] formula.op = "/" -> Quotient(sum, environment[formula.by])

\* One target of the order: its cell goes into the environment, or it is
\* unavailable and stays out of it.
Compute(formulas, run, t) ==
    IF CanCompute(formulas[t], run.environment)
    THEN LET value == Evaluate(formulas[t], run.environment)
         IN  [run EXCEPT !.environment = Put(@, t, value), !.cells = Put(@, t, value)]
    ELSE [run EXCEPT !.unavailable = @ \cup {t}]

ModelOf(formulas, run, environment) ==
    [cells |-> run.cells, unavailable |-> run.unavailable,
     inputs |-> Only(environment, RequiredInputs(formulas))]

\* The order, from a start: the affected targets are computed.
Turn(formulas, affected, run, t) == IF t \in affected THEN Compute(formulas, run, t) ELSE run

Runs(formulas, affected, start) ==
    LET order == Order(formulas)
        after[n \in Nat] == IF n = 0 THEN start ELSE Turn(formulas, affected, after[n - 1], order[n])
    IN  after

Run(formulas, affected, start) == Runs(formulas, affected, start)[Len(Order(formulas))]

Calculate(formulas, environment) ==
    ModelOf(formulas,
            Run(formulas, Targets(formulas),
                [environment |-> environment, cells |-> Nothing, unavailable |-> {}]),
            environment)

\* Faulty: what is not recalculated is not put into the environment either.
RecalculateBare(formulas, model, environment, changed) ==
    LET affected == Descendants(formulas, changed)
        kept == Only(model.cells, Targets(formulas) \ affected)
    IN  ModelOf(formulas,
                Run(formulas, affected,
                    [environment |-> environment, cells |-> kept,
                     unavailable |-> model.unavailable \ affected]),
                environment)

\* Only what the change reaches; every other cell is carried across.
Recalculate(formulas, model, environment, changed) ==
    LET affected == Descendants(formulas, changed)
        kept == Only(model.cells, Targets(formulas) \ affected)
    IN  ModelOf(formulas,
                Run(formulas, affected,
                    [environment |-> With(kept, environment), cells |-> kept,
                     unavailable |-> model.unavailable \ affected]),
                environment)

\* Cells that are what the formulas give over an environment, an input that
\* has no value as a target being what the environment supplies for it. Over
\* formulas without loops there is one way to be right.
Right(formulas, environment, cells) ==
    LET known == With(cells, environment)
    IN  \A t \in Targets(formulas) :
            IF CanCompute(formulas[t], known)
            THEN t \in DOMAIN cells /\ cells[t] = Evaluate(formulas[t], known)
            ELSE t \notin DOMAIN cells

\* impact.preview: the change made on a copy, and which targets it moves.
Moved(formulas, environment, code, proposed) ==
    LET before == Calculate(formulas, environment)
        after == Recalculate(formulas, before, Put(environment, code, proposed), {code})
    IN  {<<t, Only(before.cells, {t}), Only(after.cells, {t})>> :
            t \in {u \in Descendants(formulas, {code}) : Only(before.cells, {u}) # Only(after.cells, {u})}}

-----------------------------------------------------------------------------
(***************************************************************************)
(* One statement's ledger (model/statements.py), of one year: absent is    *)
(* not zero, and a line that may be left out of a subtotal counts as       *)
(* nothing there. A subtotal with a term on another statement is derived   *)
(* on neither.                                                             *)
(***************************************************************************)
Terms(formula) == formula.plus \cup formula.minus

\* _try_derive: every term that may not be left out, and at least one at all.
Derives(formula, lines) ==
    /\ Terms(formula) \ Optional \subseteq DOMAIN lines
    /\ Terms(formula) \cap DOMAIN lines # {}

Derived(formula, lines) ==
    Total(lines, formula.plus \cap DOMAIN lines) - Total(lines, formula.minus \cap DOMAIN lines)

\* fill_derivable, to its fixed point: a subtotal that is absent and can be
\* derived, and again.
Derivable(chart, lines) == {t \in DOMAIN chart \ DOMAIN lines : Derives(chart[t], lines)}

Fill(chart, lines) ==
    LET able == Derivable(chart, lines)
    IN  IF able = {} THEN lines ELSE Put(lines, First(able), Derived(chart[First(able)], lines))

Fills(chart, reported) ==
    LET after[n \in Nat] == IF n = 0 THEN reported ELSE Fill(chart, after[n - 1]) IN after

FillDerivable(chart, reported) == Fills(chart, reported)[Cardinality(DOMAIN chart)]

\* cross_check of a ledger as it stands, allowing no tolerance: subtotals it
\* holds as reported that their own terms, as it holds them, disagree with.
Discrepancies(chart, reported, lines) ==
    {t \in DOMAIN chart \cap DOMAIN reported :
        Derives(chart[t], lines) /\ Derived(chart[t], lines) # reported[t]}

-----------------------------------------------------------------------------
(***************************************************************************)
(* Feeding the formulas from a year of the statements, each account from   *)
(* the one it is read from (formula/catalog.py).                           *)
(***************************************************************************)
\* A reported subtotal is an input only if nothing it is made of is reported.
AsInputs(chart, reported) ==
    Only(reported, {a \in DOMAIN reported :
                       a \in DOMAIN chart => Terms(chart[a]) \cap DOMAIN reported = {}})

SiblingPresent(chart, a, environment) ==
    \E t \in DOMAIN chart : a \in Terms(chart[t]) /\ (Terms(chart[t]) \ {a}) \cap DOMAIN environment # {}

\* Faulty: every line that may be left out is supplied as nil.
LedgerEnvironmentNil(chart, reported) ==
    With(AsInputs(chart, reported), [a \in Optional |-> 0])

\* Lines that may be left out are supplied as nil where a sibling is there,
\* one after the other.
Supply(chart, environment, a) ==
    IF a \in Optional \ DOMAIN environment /\ SiblingPresent(chart, a, environment)
    THEN Put(environment, a, 0) ELSE environment

Supplies(chart, inputs) ==
    LET after[n \in Nat] == IF n = 0 THEN inputs ELSE Supply(chart, after[n - 1], Alphabet[n]) IN after

LedgerEnvironment(chart, reported) == Supplies(chart, AsInputs(chart, reported))[Len(Alphabet)]

\* What the environment reaches through the formulas, targets included.
ReachStep(formulas, given) ==
    [reached \in SUBSET Targets(formulas) |->
        {t \in Targets(formulas) : t \in reached \/ Inputs(formulas[t]) \subseteq given \cup reached}]

Reachable(formulas, given) ==
    given \cup Repeated(ReachStep(formulas, given), {})[Cardinality(Targets(formulas))]

\* A formula whose target the environment supplies is kept if it could run.
ComputableSubset(formulas, environment) ==
    LET reached == Reachable(formulas, DOMAIN environment)
    IN  [t \in {u \in Targets(formulas) : Inputs(formulas[u]) \subseteq reached} |-> formulas[t]]

\* formula_report: a year of the statements, calculated again.
Report(chart, reported) ==
    LET environment == LedgerEnvironment(chart, reported)
    IN  Calculate(ComputableSubset(chart, environment), environment)

=============================================================================
