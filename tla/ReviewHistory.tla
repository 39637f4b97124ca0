---------------------------- MODULE ReviewHistory ----------------------------
(***************************************************************************)
(* The review with what the record does not keep: which mapping set        *)
(* versions were ever saved, the figures the findings were last computed   *)
(* from, and what a reviewer had in front of them when deciding.  The      *)
(* history is written by every step and read by none.                      *)
(***************************************************************************)
EXTENDS Review

CONSTANT ConfiguredThreshold  \* INGEST_REVIEW_THRESHOLD, in eighths

VARIABLES
    held,     \* the versions of the mapping set some save stored
    weighed,  \* the values at the last mapping step
    judged    \* Facts -> the <<finding, footprint>> a decision was made against

historyVars == <<held, weighed, judged>>
allVars == <<vars, historyVars>>

HistoryInit ==
    /\ Init
    /\ held = {version}
    /\ weighed = Values
    /\ judged = [f \in Facts |-> {}]

Judge(f) ==
    /\ judged' = [judged EXCEPT ![f] =
                    @ \cup {<<c, Footprint(f)'>> : c \in mappingCodes[f]}]
    /\ UNCHANGED <<held, weighed>>

HistoryNext ==
    \/ ReviewMetadata /\ UNCHANGED historyVars
    \/ \E f \in Facts : Accept(f) /\ Judge(f)
    \/ \E f \in Facts, x \in CorrectedValues : Correct(f, x) /\ Judge(f)
    \/ \E f \in Facts : Reject(f) /\ UNCHANGED historyVars
    \/ /\ ReviewMappings
       /\ held' = held \cup {version'}
       /\ weighed' = Values
       /\ UNCHANGED judged

HistorySpec == HistoryInit /\ [][HistoryNext]_allVars

-----------------------------------------------------------------------------
(* What holds *)

\* The findings on the facts are those of the current mapping set, whatever was
\* accepted, rejected or confirmed since, until some figure moves: apply_findings
\* derives all of them at the end of every mapping step, and nothing a decision
\* alone changes enters them.
FindingsCurrentUntilAFigureMoves ==
    Values = weighed => mappingCodes = Findings(mapping, Values)

\* A verified fact carries no reconciliation failure that nobody has decided on:
\* every code on it was in front of a reviewer in some decision on this fact.
VerifiedFindingsWereJudged ==
    \A f \in Facts : IsVerified(f) =>
        \A c \in mappingCodes[f] : \E j \in judged[f] : j[1] = c

-----------------------------------------------------------------------------
(* What the documentation says and the code does not do *)

\* 10.35 (docs/source-policy.md): after a change every dependent calculation is
\* re-run, so a verified figure fails no check that its reviewer did not clear.
VerifiedFiguresReconcile ==
    \A f \in Facts : IsVerified(f) => Findings(mapping, Values)[f] \subseteq resolved[f]

\* "A split must account for the whole value, exactly" (mapping/actions.py).
SplitAccountsForValue ==
    \A f \in Facts :
        LET shares == {r \in mapping[f] : r.type = "split"}
            Amount(r) == r.amount
        IN  IsVerified(f) /\ shares # {} => MapThenSumSet(Amount, shares) = ValueOf(f)

\* 11.6 says prevent (mapping/actions.py): approved mappings never add two
\* figures on one line of one statement unless declared an aggregate.
ApprovedLinesCountOnce ==
    \A f, g \in Facts : \A r \in mapping[f], s \in mapping[g] :
        /\ f # g /\ PeriodOf[f] = PeriodOf[g]
        /\ r.approved /\ s.approved
        /\ Contributes(r) /\ Contributes(s)
        /\ r.code = s.code
        /\ StatementFor(r.code, f) = StatementFor(s.code, g)
        => r.type = "aggregate" /\ s.type = "aggregate"

\* A rejected fact "takes no further part" (review/actions.py).
RejectedFactsLeaveLedger ==
    \A f \in Facts : status[f] = "rejected" => Footprint(f) = {}

\* Accept: "the extracted value is right as printed" (review/actions.py).
AcceptedIsAsPrinted ==
    \A f \in Facts : status[f] = "accepted" => ValueOf(f) = parsed[f].value

\* 11.8 (mapping/actions.py): the flip is worked out from the chart's convention,
\* and no route overrides it, so a verified figure is stored with the sign the
\* chart stores it with.
SignFollowsChart ==
    \A f \in Facts : \A r \in mapping[f] :
        IsVerified(f) /\ r.type # "split" =>
            InferSign(r.code, Contribution(r, ValueOf(f))) = "as_printed"

\* Gate 5: a verified fact passes, or was explicitly accepted against, its
\* reconciliations: against the figure it now puts in the ledger.
MismatchesWereAcceptedAgainst ==
    \A f \in Facts : IsVerified(f) =>
        \A c \in mappingCodes[f] : <<c, Footprint(f)>> \in judged[f]

\* 11.12 (mapping/sets.py): every change produces the next version and the
\* previous one remains addressable: the version a set supersedes was saved.
SupersededVersionWasHeld == version = 1 \/ version - 1 \in held

\* 10.29 (extraction/text_native.py): the review threshold is configuration.
LowConfidenceFollowsConfiguration ==
    \A f \in Facts :
        "LOW_CONFIDENCE" \in reasons[f] <=>
            parsed[f].evidence + TableEvidence[f] < ConfiguredThreshold

\* confirm_metadata: an acceptance is withdrawn "because the value they accepted
\* changed".
WithdrawnOnlyWhenTheFigureMoved ==
    [][\A f \in Facts :
         status[f] = "accepted" /\ status[f]' = "unverified" =>
            ValueOf(f)' # ValueOf(f)]_vars

==============================================================================
