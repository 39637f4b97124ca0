------------------------------ MODULE Register ------------------------------
(***************************************************************************)
(* The assumption register of one document as a value: scenarios that vary *)
(* one another, the assumptions each holds, how a scenario resolves a      *)
(* driver for a period, the gate in front of a forecast, and what the      *)
(* forecast engine reads once the gate is open.                            *)
(*                                                                         *)
(* An assumption carries `at`, the version of the set that put it there:   *)
(* the code keeps a tuple in order of insertion, and with_assumption       *)
(* appends and advances the version in one step, so `at` is that order.    *)
(***************************************************************************)
EXTENDS Integers, FiniteSets, FiniteSetsExt

CONSTANTS
    Scenarios,      \* the identifiers a scenario may be given
    Base,           \* the root of every lineage
    NoScenario,     \* the parent of the root, and "overrides nothing"
    Codes,          \* forecast drivers
    TaxRate,        \* the driver the engine takes through a tax schedule
    Required,       \* drivers.REQUIRED: each choice is satisfied by one member
    Periods,        \* forecast years
    Values,
    People,
    NoOne           \* an empty name

EveryYear == 0

ASSUME RegisterAssumption ==
    /\ Base \in Scenarios
    /\ NoScenario \notin Scenarios
    /\ NoOne \notin People
    /\ Required \subseteq SUBSET Codes /\ \A choice \in Required : IsFiniteSet(choice)
    /\ Periods \subseteq Nat \ {EveryYear}
    /\ IsFiniteSet(Periods)

Statuses == {"Draft", "NeedsSource", "Reviewed", "Approved", "Rejected"}

\* A forecast may not calculate on one of these.
BlocksCalculation == {"Draft", "NeedsSource", "Rejected"}

LegalTransitions ==
    [Draft       |-> {"NeedsSource", "Reviewed", "Rejected"},
     NeedsSource |-> {"Draft", "Reviewed", "Rejected"},
     Reviewed    |-> {"Approved", "Rejected", "Draft"},
     Approved    |-> {"Draft", "Rejected"},
     Rejected    |-> {"Draft"}]

NeedsReviewer == {"Reviewed", "Approved"}

SourceTypes ==
    {"CompanyGuidance", "CompanyFiling", "ExternalMarketData",
     "HistoricalDriver", "AnalystAssumption", "ScenarioOverride"}

\* The fields of Evidence that are filled in.
Evidence == SUBSET {"page", "url", "date", "measured_over"}

Assumption ==
    [scenario : Scenarios, code : Codes, periods : SUBSET Periods, value : Values,
     source : SourceTypes, evidence : Evidence, overrides : Scenarios \cup {NoScenario},
     owner : People, reviewer : People \cup {NoOne}, status : Statuses, at : Nat]

\* What a source type must be able to show.
EvidenceHolds(a) ==
    /\ a.source = "CompanyFiling" => "page" \in a.evidence
    /\ a.source = "CompanyGuidance" =>
           "date" \in a.evidence /\ a.evidence \cap {"page", "url"} # {}
    /\ a.source = "ExternalMarketData" => {"url", "date"} \subseteq a.evidence
    /\ a.source = "HistoricalDriver" => "measured_over" \in a.evidence
    /\ a.source = "ScenarioOverride" => a.overrides # NoScenario

-----------------------------------------------------------------------------
(***************************************************************************)
(* Scenario sets.                                                          *)
(***************************************************************************)
Fresh == [parent |-> [s \in {Base} |-> NoScenario], assumptions |-> {}, version |-> 1]

Held(set) == DOMAIN set.parent

\* A set that has, with a scenario, the one that scenario varies.
Closed(set, S) == \A x \in S : set.parent[x] \in S \cup {NoScenario}

\* This scenario and everything it varies: what no closed set that has the
\* scenario is without.
Lineage(set, s) ==
    IF set.parent[s] = NoScenario THEN {s}
    ELSE {t \in Held(set) : \A S \in SUBSET (Held(set) \ {t}) : s \in S => ~Closed(set, S)}

Own(set, s) == {a \in set.assumptions : a.scenario = s}

\* The order in which resolve meets two assumptions of one lineage: nearer
\* scenario first, then insertion.
MetBefore(set, a, b) ==
    \/ a.scenario = b.scenario /\ a.at <= b.at
    \/ a.scenario # b.scenario /\ b.scenario \in Lineage(set, a.scenario)

FirstMet(set, found) == {a \in found : \A b \in found : MetBefore(set, a, b)}

Visible(set, s, c) ==
    LET lineage == Lineage(set, s)
    IN  {a \in set.assumptions : a.code = c /\ a.scenario \in lineage}

\* resolve without a period: the first record met, whatever years it is for.
ResolveAnyYear(set, s, c) == FirstMet(set, Visible(set, s, c))

\* resolve for a period, as the singleton of the record found or {}: a record
\* for the year shadows one for every year, wherever in the lineage it is.
Resolve(set, s, c, p) ==
    LET specific == {a \in Visible(set, s, c) : p \in a.periods}
        general == {a \in Visible(set, s, c) : a.periods = {}}
    IN  FirstMet(set, IF specific # {} THEN specific ELSE general)

\* What the forecast and the valuation read of a record found.
ValueOf(found) == {a.value : a \in found}

-----------------------------------------------------------------------------
(***************************************************************************)
(* Changes. Each makes the next version.                                   *)
(***************************************************************************)
\* Faulty: a record replaces its like in every scenario.
WithAssumptionAnywhere(set, a) ==
    [set EXCEPT !.assumptions =
                   {b \in @ : ~(b.code = a.code /\ b.periods = a.periods)}
                     \cup {[a EXCEPT !.at = set.version + 1]},
                !.version = @ + 1]

WithAssumption(set, a) ==
    [set EXCEPT !.assumptions =
                   {b \in @ : ~(/\ b.scenario = a.scenario
                                /\ b.code = a.code
                                /\ b.periods = a.periods)}
                     \cup {[a EXCEPT !.at = set.version + 1]},
                !.version = @ + 1]

WithScenario(set, s, parent) ==
    [set EXCEPT !.parent = [x \in DOMAIN @ \cup {s} |-> IF x = s THEN parent ELSE @[x]],
                !.version = @ + 1]

\* Faulty: the record overridden is looked up in the scenario itself.
InheritedOrOwn(set, s, c) == ResolveAnyYear(set, s, c)

\* What an override departs from.
Inherited(set, s, c) == ResolveAnyYear(set, set.parent[s], c)

\* The record an override makes of the one it departs from: a draft without a
\* reviewer, carrying the evidence forward and naming where it came from.
OverrideOf(source, s, value, periods, owner) ==
    [source EXCEPT !.scenario = s,
                   !.value = value,
                   !.periods = IF periods = {} THEN source.periods ELSE periods,
                   !.source = "ScenarioOverride",
                   !.overrides = source.scenario,
                   !.owner = owner,
                   !.reviewer = NoOne,
                   !.status = "Draft"]

\* workflow.transition, when it does not refuse.
MayMove(a, to, reviewer) ==
    /\ to \in LegalTransitions[a.status]
    /\ to \in NeedsReviewer => reviewer # NoOne \/ a.reviewer # NoOne
    /\ to = "Approved" => EvidenceHolds(a)

Moved(a, to, reviewer) ==
    [a EXCEPT !.status = to, !.reviewer = IF reviewer = NoOne THEN @ ELSE reviewer]

-----------------------------------------------------------------------------
(***************************************************************************)
(* The gate, over every forecast year.                                     *)
(***************************************************************************)
Supplied(set, s, choice, p) == {c \in choice : Resolve(set, s, c, p) # {}}

Missing(set, s) == {k \in Required \X Periods : Supplied(set, s, k[1], k[2]) = {}}

Ambiguous(set, s) == {k \in Required \X Periods : Cardinality(Supplied(set, s, k[1], k[2])) > 1}

Unresolved(set, s) ==
    {k \in Required \X Periods :
        \E c \in k[1] : /\ Supplied(set, s, k[1], k[2]) = {c}
                        /\ \E a \in Resolve(set, s, c, k[2]) : a.status \in BlocksCalculation}

MayCalculate(set, s) ==
    /\ Missing(set, s) = {}
    /\ Ambiguous(set, s) = {}
    /\ Unresolved(set, s) = {}

-----------------------------------------------------------------------------
(***************************************************************************)
(* What a forecast reads: the register narrowed to the engine's, which     *)
(* knows a driver by its code and a year, or by its code alone.            *)
(***************************************************************************)
\* Faulty: every record is registered for every year.
ScopeEveryYear(a, p) == EveryYear

Scope(a, p) == IF a.periods = {} THEN EveryYear ELSE p

\* The years whose resolution registers the code under a scope.
Registering(set, s, c, scope) ==
    {p \in Periods : \E a \in Resolve(set, s, c, p) :
        a.status \notin BlocksCalculation /\ Scope(a, p) = scope}

\* The first of them is the one that is kept.
Registered(set, s, c, scope) ==
    LET years == Registering(set, s, c, scope)
    IN  IF c = TaxRate \/ years = {} THEN {} ELSE Resolve(set, s, c, Min(years))

\* What the engine gets when it asks for a driver in a year.
EngineReads(set, s, c, p) ==
    IF Registered(set, s, c, p) # {}
    THEN Registered(set, s, c, p)
    ELSE Registered(set, s, c, EveryYear)

\* The rate of the tax schedule, which is read back out of the register.
RateFor(set, s, p) == Resolve(set, s, TaxRate, p)

ForecastReads(set, s, c, p) ==
    IF c = TaxRate THEN RateFor(set, s, p) ELSE EngineReads(set, s, c, p)

-----------------------------------------------------------------------------
(***************************************************************************)
(* The assumptions screen.                                                 *)
(***************************************************************************)
\* A driver the scenario carries, shown once whatever years it is for.
RowSatisfied(set, s, choice) ==
    \E c \in choice :
        /\ {d \in choice : ResolveAnyYear(set, s, d) # {}} = {c}
        /\ \A a \in ResolveAnyYear(set, s, c) : a.status \notin BlocksCalculation

=============================================================================
