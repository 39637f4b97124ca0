---------------------------- MODULE Assumptions -----------------------------
(***************************************************************************)
(* The register of one document under the requests of the assumptions      *)
(* screen and the calls of a program that adds scenarios and records. A    *)
(* request that is refused saves nothing and is no step. Each step is a    *)
(* load, a change and a save; ScenarioStore takes them apart.              *)
(***************************************************************************)
EXTENDS Register

CONSTANTS
    Measured,       \* per driver the values the schedules of the filing may measure
    Entered,        \* the records a program may put: [periods, value, source, evidence]
    OverrideValues, \* values an override may state
    Previewed,      \* drivers whose change is previewed
    MaxVersion      \* bound on the changes made

ASSUME AssumptionsAssumption ==
    /\ Measured \in [Codes -> SUBSET Values]
    /\ \A e \in Entered : /\ e.periods \subseteq Periods
                          /\ e.value \in Values
                          /\ e.source \in SourceTypes \ {"ScenarioOverride"}
                          /\ e.evidence \in Evidence
    /\ OverrideValues \subseteq Values
    /\ Previewed \subseteq Codes

VARIABLES
    register,       \* assumptions/<document>.json
    impact,         \* app.state.last_impact[document]
    reviewed        \* history: the records ever stored as Reviewed

vars == <<register, impact, reviewed>>

NoImpact == [of |-> NoScenario, code |-> ""]

Judged(a) == <<a.scenario, a.code, a.periods, a.value, a.source, a.evidence>>

Init ==
    /\ register = Fresh
    /\ impact = NoImpact
    /\ reviewed = {}

Save(set) ==
    /\ register.version < MaxVersion
    /\ register' = set
    /\ reviewed' = reviewed \cup {Judged(a) : a \in {b \in set.assumptions : b.status = "Reviewed"}}
    /\ UNCHANGED impact

\* A program adds a scenario. The set refuses an id it has and a parent it
\* has not, which is also why no lineage can become circular.
AddScenario(s, parent) ==
    /\ s \notin Held(register)
    /\ parent \in Held(register)
    /\ Save(WithScenario(register, s, parent))

\* A program puts a record, as a draft.
PutAssumption(s, c, entry, owner) ==
    LET a == [scenario |-> s, code |-> c, periods |-> entry.periods, value |-> entry.value,
              source |-> entry.source, evidence |-> entry.evidence, overrides |-> NoScenario,
              owner |-> owner, reviewer |-> NoOne, status |-> "Draft", at |-> 0]
    IN  /\ s \in Held(register)
        /\ EvidenceHolds(a)
        /\ Save(WithAssumption(register, a))

\* A program overrides an inherited record. The base scenario inherits none.
Override(s, c, value, periods, owner) ==
    /\ s \in Held(register) \ {Base}
    /\ \E source \in Inherited(register, s, c) :
          Save(WithAssumption(register, OverrideOf(source, s, value, periods, owner)))

\* POST assumptions/accept: a measured driver becomes a draft for every year,
\* in the place of whatever the scenario held for every year. The review of
\* the document moves what is measured between two requests.
AcceptProposal(s, c, owner) ==
    /\ s \in Held(register)
    /\ \E value \in Measured[c] :
          Save(WithAssumption(register,
             [scenario |-> s, code |-> c, periods |-> {}, value |-> value,
              source |-> "HistoricalDriver", evidence |-> {"measured_over"},
              overrides |-> NoScenario, owner |-> owner, reviewer |-> NoOne,
              status |-> "Draft", at |-> 0]))

\* POST assumptions/{code}/status: the record the scenario resolves without
\* naming a year, if it is one of its own.
ChangeStatus(s, c, to, reviewer) ==
    /\ s \in Held(register)
    /\ \E a \in ResolveAnyYear(register, s, c) :
          /\ a.scenario = s
          /\ MayMove(a, to, reviewer)
          /\ Save(WithAssumption(register, Moved(a, to, reviewer)))

\* POST assumptions/preview: what a change would do, kept until shown. Any
\* later preview of the document replaces it. Recalculation says what it is.
PreviewAssumption(s, c) ==
    /\ s \in Held(register)
    /\ ResolveAnyYear(register, s, c) # {}
    /\ impact' = [of |-> s, code |-> c]
    /\ UNCHANGED <<register, reviewed>>

\* GET assumptions: takes the kept preview, whichever scenario is shown.
ShowAssumptions(s) ==
    /\ s \in Held(register)
    /\ impact # NoImpact
    /\ impact' = NoImpact
    /\ UNCHANGED <<register, reviewed>>

Next ==
    \/ \E s, parent \in Scenarios : AddScenario(s, parent)
    \/ \E s \in Scenarios, c \in Codes, owner \in People :
          \/ \E entry \in Entered : PutAssumption(s, c, entry, owner)
          \/ \E value \in OverrideValues, periods \in {e.periods : e \in Entered} :
                Override(s, c, value, periods, owner)
          \/ AcceptProposal(s, c, owner)
    \/ \E s \in Scenarios, c \in Codes :
          \/ \E to \in Statuses, reviewer \in People \cup {NoOne} : ChangeStatus(s, c, to, reviewer)
          \/ c \in Previewed /\ PreviewAssumption(s, c)
    \/ \E s \in Scenarios : ShowAssumptions(s)

Spec == Init /\ [][Next]_vars

-----------------------------------------------------------------------------
(***************************************************************************)
(* Properties.                                                             *)
(***************************************************************************)
TypeOK ==
    /\ register.parent \in [Held(register) -> Held(register) \cup {NoScenario}]
    /\ Base \in Held(register)
    /\ Held(register) \subseteq Scenarios
    /\ register.assumptions \subseteq Assumption
    /\ register.version \in Nat
    /\ \A a \in register.assumptions : a.scenario \in Held(register) /\ a.at <= register.version
    /\ impact \in [of : Scenarios \cup {NoScenario}, code : Codes \cup {""}]

\* A forecast that may calculate reads, for each driver it requires and each
\* year, the very record the scenario resolves for that year; somebody
\* reviewed that record at its present value and source, and its evidence
\* holds. The narrowing to the engine's register has its own order of lookup
\* (forecast/build.py, _register), which has to agree with resolve.
ForecastReadsReviewedAnswers ==
    \A s \in Held(register) : MayCalculate(register, s) =>
        \A choice \in Required, p \in Periods :
            \E c \in choice : \E a \in Resolve(register, s, c, p) :
                /\ ForecastReads(register, s, c, p) = {a}
                /\ \A d \in choice \ {c} : ForecastReads(register, s, d, p) = {}
                /\ Judged(a) \in reviewed
                /\ a.reviewer # NoOne
                /\ EvidenceHolds(a)

\* An approved record was reviewed as it stands: no request approves in one
\* step, and what replaces an approved record or changes its value starts as a
\* draft (assumptions/workflow.py, "Nothing may move to Approved from Draft").
ApprovedWasReviewed ==
    \A a \in register.assumptions : a.status = "Approved" => Judged(a) \in reviewed

\* The lineage an override keeps can be followed: the scenario it names lies
\* strictly above its own and still holds a record of the driver, whatever
\* was put, accepted or overridden since (assumptions/scenarios.py, 14.7).
OverridesKeepLineage ==
    \A a \in register.assumptions : a.source = "ScenarioOverride" =>
        /\ a.overrides \in Lineage(register, a.scenario) \ {a.scenario}
        /\ \E b \in Own(register, a.overrides) : b.code = a.code

\* What a scenario resolves in a year moves only when a record of that very
\* driver is put into the scenario or one it varies: a variant never disturbs
\* its base or its siblings, and a record for one year never shadows or
\* drops another driver's (assumptions/scenarios.py, resolve and
\* with_assumption, which filters the whole document's tuple).
AnswersMoveInTheirBranch ==
    [][register' # register => \A s \in Held(register), c \in Codes, p \in Periods :
          Resolve(register', s, c, p) # Resolve(register, s, c, p) =>
              \E a \in register'.assumptions \ register.assumptions :
                 a.code = c /\ a.scenario \in Lineage(register, s)]_vars

-----------------------------------------------------------------------------
(***************************************************************************)
(* What the documentation says and the code does not do.                   *)
(***************************************************************************)
\* "Nearer scenario wins": the first of the two precedence rules of resolve
\* (assumptions/scenarios.py:263-268), which the second does not yield to.
NearerScenarioWins ==
    \A s \in Held(register), c \in Codes, p \in Periods :
        \A a \in Resolve(register, s, c, p), b \in Visible(register, s, c) :
            b.periods = {} \/ p \in b.periods =>
                a.scenario = b.scenario \/ b.scenario \in Lineage(register, a.scenario)

\* "14.1; the gate has already reported it" (forecast/build.py:180): what the
\* register passes over because it is no answer yet.
PassedOverWasReported ==
    \A s \in Held(register), c \in Codes, p \in Periods :
        \A a \in Resolve(register, s, c, p) :
            a.status \in BlocksCalculation => ~MayCalculate(register, s)

\* "before saving": the preview shown on a scenario's page is of that scenario
\* (api/routes.py:1085).
PreviewIsOfThisScenario ==
    [][\A s \in Scenarios : ShowAssumptions(s) => impact.of = s]_vars

\* A driver the screen counts as satisfied is not one the gate misses
\* (assumptions/views.py:70, api/routes.py:975).
SatisfiedRowsAreSupplied ==
    \A s \in Held(register), choice \in Required :
        RowSatisfied(register, s, choice) =>
            \A p \in Periods : <<choice, p>> \notin Missing(register, s)

=============================================================================
