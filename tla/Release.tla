------------------------------- MODULE Release -------------------------------
(***************************************************************************)
(* What leaves the system: the thirty-clause panel (diagnostics/run.py)    *)
(* and the release gate on it, the portfolio's ladder of statuses          *)
(* (dashboard/standing.py), which climbs the same stages by code of its    *)
(* own, and the exports with the model version they carry.                 *)
(*                                                                         *)
(* Composes Review, Historical and Register: the reviewer is still at work *)
(* on the open facts of a filing and on the answers of its base scenario   *)
(* while the panel is read and exports are taken.  The forecast and the    *)
(* valuation engines are modelled by Forecast and Valuation; here they are *)
(* what they refuse and what their checks answer.                          *)
(***************************************************************************)
EXTENDS Review, Historical, TLC

CONSTANTS
    Open,           \* the facts still being worked on
    Answering,      \* the assumptions still being worked on
    Candidates,     \* Open -> the codes a reviewer may map each to
    TaxRate,        \* the driver the forecast takes its tax rate from
    Drivers,        \* the drivers the forecast requires, one per choice
    Inputs,         \* market inputs a valuation requires
    Adjustments,    \* bridge inputs it takes as nil when nobody entered them
    Shares,         \* the bridge input the per-share value needs
    ForecastYears,
    Anchors,        \* <<statement, code>> the engine needs in the last actual year
    EngineSays,     \* what the engines' own checks answer, by clause
    Begun,          \* the register and the review when this work begins
    Entries,        \* assumptions a program may put: [code, periods, value]
    MaxRegister     \* bound: the last register version explored

Reg == INSTANCE Register WITH
           Scenarios <- {"base"}, Base <- "base", NoScenario <- "none",
           Codes <- Drivers \cup Inputs \cup Adjustments,
           Required <- {{d} : d \in Drivers}, Periods <- ForecastYears,
           Values <- Int, People <- {"ann"}, NoOne <- ""

EngineClauses == {"17.16", "17.17", "17.20", "17.22", "17.24"}

ASSUME ReleaseAssumption ==
    /\ Open \subseteq Facts
    /\ Candidates \in [Open -> SUBSET Codes]
    /\ Answering \subseteq Drivers \cup Inputs \cup Adjustments
    /\ TaxRate \in Drivers
    /\ Shares \in Adjustments
    /\ EngineSays \in [EngineClauses -> Status]
    /\ MaxRegister \in Nat

VARIABLES
    register,   \* the scenarios of the document
    taken       \* history: the first export that carried statements, if any

releaseVars == <<register, taken>>
gateVars == <<vars, releaseVars>>

-----------------------------------------------------------------------------
(* The stages, as the panel, the dashboard and the exports attempt them *)

Verified == {f \in Facts : IsVerified(f)}

\* What a strict build makes of the review as it stands.
BuildNow == Build(mapping, Values, Verified)

\* The scenarios are handed on only when the register holds an assumption.
Started == register.assumptions # {}

GateOpen == Reg!MayCalculate(register, "base")

\* Not ForecastError: the gate, a year without a tax rate, or a balance the
\* forecast starts from that the last actual year does not have.
ForecastBuilds(b) ==
    /\ Started /\ GateOpen
    /\ \A p \in ForecastYears : Reg!Resolve(register, "base", TaxRate, p) # {}
    /\ \A a \in Anchors : Cell(b, a[1], a[2], Max(b.years)) # NoValue

Entered(c) == Reg!ResolveAnyYear(register, "base", c)

MissingInputs == {c \in Inputs : Entered(c) = {}}

Unanswered == {c \in Inputs \cup Adjustments : \E a \in Entered(c) : a.status \in Reg!BlocksCalculation}

\* Not ValuationError, nor run_dcf refusing a terminal growth above the WACC.
ValuationBuilds(b) ==
    /\ ForecastBuilds(b)
    /\ MissingInputs = {} /\ Unanswered = {}
    /\ EngineSays["17.24"] = "PASS"

-----------------------------------------------------------------------------
(* diagnostics/run.py: clause -> status *)

Says(holds) == IF holds THEN "PASS" ELSE "FAIL"
SkipUnless(ran, answer) == IF ran THEN answer ELSE "SKIP"

\* 17.1-17.7.  17.1 holds of every ingested document, which has its hash.
SourceChecks(b) ==
    [c \in {"17.1", "17.2", "17.3", "17.4", "17.5", "17.6", "17.7"} |->
       CASE c = "17.1" -> "PASS"
         [] c = "17.2" -> Says(DocumentConfirmed)
         [] c = "17.3" -> SkipUnless(~b.refused, "PASS")
         [] c = "17.4" -> Says(DocumentCodes(meta) = {})
         [] c = "17.5" -> Says(Verified = Facts /\ Facts # {})
         [] c = "17.6" -> Says(\A f \in Facts : mapping[f] # {})
         [] c = "17.7" -> Says(\A f \in Facts : ~DoubleCounted(mapping, f))]

\* 17.8-17.15.  When the statements do not build, 17.12 is not skipped with
\* its neighbours: it is left out.
StatementChecks(b) ==
    IF b.refused
      THEN [c \in {"17.8", "17.9", "17.10", "17.11", "17.13", "17.14", "17.15"} |-> "SKIP"]
      ELSE [c \in {"17.8", "17.9", "17.10", "17.11", "17.12", "17.13", "17.14", "17.15"} |->
              CASE c = "17.8"  -> BalanceSheetBalances(b)
                [] c = "17.9"  -> CashReconciles(b)
                [] c = "17.10" -> SubtotalsReconcile(b)
                [] c = "17.11" -> PpeReconciles(b)
                [] c = "17.12" -> IntangiblesReconcile(b)
                [] c = "17.13" -> DebtReconciles(b)
                [] c = "17.14" -> SkipUnless(UsableRates(b) # {}, "PASS")
                [] c = "17.15" -> RetainedEarningsReconcile(b)]

\* A rejected answer still in the scenario, whatever year it is for.
RejectedAnswers == {c \in Drivers \cup Inputs \cup Adjustments :
                       \E a \in Entered(c) : a.status = "Rejected"}

\* 17.16-17.21.  17.21 has nothing to approve: no calculation is iterative.
ForecastPanel(b) ==
    LET builds == ~b.refused /\ ForecastBuilds(b)
    IN  [c \in {"17.16", "17.17", "17.18", "17.19", "17.20", "17.21"} |->
           CASE c = "17.18" -> SkipUnless(~b.refused /\ Started, Says(GateOpen))
             [] c = "17.19" -> SkipUnless(~b.refused /\ Started, Says(RejectedAnswers = {}))
             [] c = "17.21" -> "SKIP"
             [] OTHER -> SkipUnless(builds, EngineSays[c])]

\* 17.22-17.26.  17.23 reads the evidence of the inputs on record, 17.25 what
\* was taken as nil because nobody entered it.
ValuationPanel(b) ==
    LET onRecord == {c \in Inputs \cup Adjustments : Entered(c) # {}}
        dated == \A c \in onRecord : \A a \in Entered(c) : a.evidence \cap {"date", "url"} # {}
        builds == ~b.refused /\ ValuationBuilds(b)
    IN  [c \in {"17.22", "17.23", "17.24", "17.25", "17.26"} |->
           SkipUnless(builds,
             CASE c = "17.22" -> EngineSays[c]
               [] c = "17.23" -> Says(dated)
               [] c = "17.24" -> EngineSays[c]
               [] c = "17.25" -> Says(Adjustments \ {Shares} \subseteq onRecord)
               [] c = "17.26" -> SkipUnless(Shares \in onRecord, "PASS"))]

\* 17.27-17.30.  Stored figures are finite decimals shown by the formatter
\* the check reads back, and every cell of a build cites its page.
NumberChecks(b) ==
    [c \in {"17.27", "17.28", "17.29", "17.30"} |->
       CASE c = "17.27" -> SkipUnless(~b.refused /\ b.cells # {}, "PASS")
         [] c = "17.28" -> "SKIP"
         [] OTHER -> SkipUnless(~b.refused, "PASS")]

\* What two groups of checks answer; no clause is in both.
With(f, g) == [c \in DOMAIN f \cup DOMAIN g |-> IF c \in DOMAIN f THEN f[c] ELSE g[c]]

\* Each stage is attempted once, and what depends on one that did not build
\* skips.
Panel(b) ==
    With(SourceChecks(b),
      With(StatementChecks(b),
        With(ForecastPanel(b), With(ValuationPanel(b), NumberChecks(b)))))

-----------------------------------------------------------------------------
(* diagnostics/release.py *)

\* Clauses no reviewer can change: not iterative, and attested elsewhere.
NotActionable == {"17.21", "17.28"}

\* Faulty: only a failure blocks, not a check that could not run.
BlockingFailures(panel) == {c \in DOMAIN panel \ NotActionable : panel[c] = "FAIL"}

Blocking(panel) == {c \in DOMAIN panel \ NotActionable : panel[c] # "PASS"}

MayRelease(b) == Blocking(Panel(b)) = {}

-----------------------------------------------------------------------------
(* dashboard/standing.py: each stage opens only when the one before it did *)

AllDecided == \A f \in Facts : status[f] # "unverified"

Reviewed == Facts # {} /\ AllDecided /\ DocumentConfirmed
Validated(b) == Reviewed /\ ~b.refused
ForecastReady(b) == Validated(b) /\ ForecastBuilds(b)
ValuationReady(b) == ForecastReady(b) /\ MissingInputs = {}

Standing(b) ==
    CASE ValuationReady(b) -> "Valuation Ready"
      [] ~ValuationReady(b) /\ ForecastReady(b) -> "Forecast Ready"
      [] ~ForecastReady(b) /\ Validated(b) -> "Validated"
      [] ~Validated(b) /\ Facts # {} -> "Needs Review"
      [] OTHER -> "Extracting"

\* What the portfolio lists as unresolved beside the status.
UnresolvedNotes(b) ==
    {n \in {"undecided", "metadata", "blocking code", "build", "no scenario",
            "gate", "forecast", "inputs"} :
        CASE n = "undecided"     -> ~AllDecided
          [] n = "metadata"      -> ~DocumentConfirmed
          [] n = "blocking code" -> \E f \in Facts : Outstanding(f) # {}
          [] n = "build"         -> Reviewed /\ b.refused
          [] n = "no scenario"   -> Validated(b) /\ ~Started
          [] n = "gate"          -> Validated(b) /\ Started /\ ~GateOpen
          [] n = "forecast"      -> Validated(b) /\ Started /\ GateOpen /\ ~ForecastBuilds(b)
          [] n = "inputs"        -> ForecastReady(b) /\ MissingInputs # {}}

-----------------------------------------------------------------------------
(* exports/version.py and exports/gather.py *)

\* Faulty: the line a fact becomes is left out of the digest.
RowsWithoutCodes == [f \in Facts |-> {[r EXCEPT !.code = "-"] : r \in mapping[f]}]

MappingRows == mapping

\* The parts of the digest that move here: the mapping decisions, and each
\* code with the years, the value and the status it resolves to without a year.
ModelVersion ==
    [rows |-> MappingRows,
     answers |-> {<<a.code, a.periods, a.value, a.status>> :
                    a \in UNION {Entered(c) : c \in Drivers \cup Inputs \cup Adjustments}}]

\* What the forecast and valuation tabs are computed from.
AnswersRead ==
    IF ~Started THEN {}
    ELSE {<<c, p, Reg!ValueOf(Reg!ForecastReads(register, "base", c, p))>> :
            c \in Drivers, p \in ForecastYears}
           \cup {<<c, 0, Reg!ValueOf(Entered(c))>> : c \in Inputs \cup Adjustments}

\* gather is strict: a model that does not build is exported as its refusal.
Export(b) == [version |-> ModelVersion, read |-> Values,
              figures |-> b.cells, answers |-> AnswersRead]

TakeExport ==
    /\ taken = {}        \* bound: one export, compared with all that could follow
    /\ UNCHANGED <<vars, register>>
    /\ \E b \in {BuildNow} : ~b.refused /\ taken' = {Export(b)}

-----------------------------------------------------------------------------

ReviewOpen ==
    /\ \E f \in Open :
         \/ Accept(f) \/ Reject(f)
         \/ \E x \in CorrectedValues : Correct(f, x)
         \/ \E c \in Candidates[f] : MapFact(f, c)
         \/ RejectMapping(f) \/ ApproveMapping(f)
    /\ UNCHANGED releaseVars

Save(set) ==
    /\ register.version < MaxRegister
    /\ register' = set
    /\ UNCHANGED <<vars, taken>>

\* A program puts a record, as a draft.
PutAnswer(e) ==
    Save(Reg!WithAssumption(register,
           [scenario |-> "base", code |-> e.code, periods |-> e.periods, value |-> e.value,
            source |-> "ExternalMarketData", evidence |-> {"url", "date"},
            overrides |-> "none", owner |-> "ann", reviewer |-> "", status |-> "Draft", at |-> 0]))

ChangeAnswer(c, to) ==
    \E a \in Entered(c) :
        /\ Reg!MayMove(a, to, "ann")
        /\ Save(Reg!WithAssumption(register, Reg!Moved(a, to, "ann")))

AnswerOpen ==
    \/ \E e \in Entries : PutAnswer(e)
    \/ \E c \in Answering, to \in Reg!Statuses : ChangeAnswer(c, to)

\* The review has reached the open facts: everything else is decided, mapped
\* and approved, and the register holds what was answered so far.
ReleaseInit ==
    /\ meta = Begun.meta /\ parsed = Begun.parsed /\ reasons = Begun.reasons
    /\ mappingCodes = [f \in Facts |-> {}]
    /\ status = [f \in Facts |-> IF f \in Open THEN "unverified" ELSE "accepted"]
    /\ corrected = [f \in Facts |-> NoValue]
    /\ resolved = [f \in Facts |-> {}]
    /\ mapping = Begun.mapping
    /\ version = Begun.version
    /\ register = Begun.register
    /\ taken = {}

ReleaseNext == ReviewOpen \/ AnswerOpen \/ TakeExport

ReleaseSpec == ReleaseInit /\ [][ReleaseNext]_gateVars

-----------------------------------------------------------------------------
(* Properties *)

\* A model the gate releases is the one the portfolio calls Valuation Ready,
\* with nothing listed as unresolved: the panel (diagnostics/run.py) and the
\* ladder (dashboard/standing.py) attempt the same stages in separate code, in
\* another order and with other conditions, and a reader sees both.
ReleasedMeansValuationReady ==
    LET b == BuildNow
    IN  MayRelease(b) => Standing(b) = "Valuation Ready" /\ UnresolvedNotes(b) = {}

\* What is released reconciles as it stands now.  The findings saved on the
\* facts are those of the last mapping step, and a reviewer may resolve them;
\* neither opens the gate: the figures add up to their printed totals, carry
\* cash from year to year and are counted once when computed afresh
\* (mapping/checks.py against statements/checks.py, two codes for one rule).
ReleasedFiguresReconcile ==
    LET rows == Rows(mapping)
    IN  MayRelease(BuildNow) =>
        /\ \A f \in Facts : ~DoubleCounted(mapping, f)
        /\ \A y \in Periods :
              /\ ~RollForwardMismatch(rows, Values, y)
              /\ \A s \in Subtotals : ~SubtotalMismatch(rows, Values, s, y)

ExportsNow == {Export(b) : b \in {x \in {BuildNow} : ~x.refused}}

\* Of the same printed figures, two exports with the same version show the
\* same statements: whatever was remapped, excluded or approved in between
\* moved the version with it (exports/version.py, _mapping_part).
VersionTellsMappingsApart ==
    \A now \in ExportsNow, e \in taken :
        e.read = now.read /\ e.version = now.version => e.figures = now.figures

-----------------------------------------------------------------------------
(* What the documentation says and the code does not do *)

\* "One changed digit anywhere changes it" (exports/version.py:13).
VersionTellsModelsApart ==
    \A now \in ExportsNow, e \in taken :
        e.version = now.version => e.figures = now.figures /\ e.answers = now.answers

\* The same of the answers alone: a record for one year, entered after one for
\* every year, is what the forecast reads and not what the digest resolves.
VersionTellsAnswersApart ==
    \A now \in ExportsNow, e \in taken : e.version = now.version => e.answers = now.answers

\* "All thirty checks, in Section 17's order" (diagnostics/run.py:125).
AllThirtyReported ==
    DOMAIN Panel(BuildNow) = {"17." \o ToString(n) : n \in 1..30}

\* "The same figure is printed on two statements.  They should agree."
\* (statements/checks.py:151): no clause of the panel asks it.
ReleasedLinkagesTie == MayRelease(BuildNow) => NetIncomeLinks(BuildNow) # "FAIL"

\* Of a Valuation Ready model (dashboard/status.py): there is a valuation.
ValuationReadyIsValued == Standing(BuildNow) = "Valuation Ready" => ValuationBuilds(BuildNow)

\* 17.12 is among the checks "separated out" of the verdict
\* (diagnostics/release.py:26).
IntangiblesDoNotBlock == ~BuildNow.refused => "17.12" \notin Blocking(Panel(BuildNow))

==============================================================================
