-------------------------------- MODULE Review --------------------------------
(***************************************************************************)
(* The review of one ingested document: the metadata confirmation, the     *)
(* reviewer's decision on each fact and the mapping of facts to canonical  *)
(* lines, with the findings each mapping step writes back to the facts.    *)
(* One action is one POST route of api/routes.py: what it loads, computes  *)
(* and saves is a single step here (RecordStore splits it).                *)
(*                                                                         *)
(* Requests a route refuses save nothing and are not steps.  Notes,        *)
(* reasons and actors only have to be present and are left out, and so are *)
(* the advisory reason codes, which gate nothing.                          *)
(***************************************************************************)
EXTENDS Ledger

CONSTANTS
    Fields,             \* the metadata fields detect_metadata returns
    Required,           \* those the document needs before it is CONFIRMED
    Detected,           \* Fields -> the value found in the filing
    Replacements,       \* Fields -> the values a reviewer may type in
    Undetected,         \* no value found
    Reading,            \* Facts -> Locales -> what the parser makes of the cell
    TableCodes,         \* Facts -> the blocking codes of its table and page
    TableEvidence,      \* Facts -> the evidence checks its table and page pass
    DefaultThreshold,   \* DEFAULT_REVIEW_THRESHOLD, in eighths
    Proposal,           \* Facts -> the code of the best candidate, if any
    NoProposal,
    FallbackCode,       \* what a rejected mapping without candidates names
    CorrectedValues,    \* the values a reviewer may correct a fact to
    SplitAmounts,       \* the amounts a reviewer may allocate
    MaxVersion          \* bound: the last mapping set version explored

Locales == {"unknown", "dot_decimal", "comma_decimal"}

ParseCodes == {"BLANK_CELL", "DASH_AMBIGUOUS", "NOT_APPLICABLE", "NOT_NUMERIC",
               "SEPARATOR_AMBIGUOUS", "SIGN_UNRESOLVED"}
TablePageCodes == {"PERIOD_AMBIGUOUS", "SCOPE_AMBIGUOUS"}
DocumentLevelCodes == {"SCALE_UNCONFIRMED", "CURRENCY_UNCONFIRMED"}
ReasonCodes == ParseCodes \cup TablePageCodes \cup DocumentLevelCodes
                 \cup {"LOW_CONFIDENCE"}

\* The document-level field whose confirmation clears each code.
FieldOf == [c \in DocumentLevelCodes |->
              IF c = "SCALE_UNCONFIRMED" THEN "displayed_scale"
                                         ELSE "reporting_currency"]

ParsedValue == [value : Figure, codes : SUBSET ParseCodes, evidence : 0..3]

ASSUME ReviewAssumption ==
    /\ {"displayed_scale", "reporting_currency", "number_locale"} \subseteq Fields
    /\ {"displayed_scale", "reporting_currency"} \subseteq Required
    /\ Required \subseteq Fields
    /\ DOMAIN Detected = Fields /\ DOMAIN Replacements = Fields
    /\ Reading \in [Facts -> [Locales -> ParsedValue]]
    /\ TableCodes \in [Facts -> SUBSET TablePageCodes]
    /\ TableEvidence \in [Facts -> 0..5]
    /\ DefaultThreshold \in 0..8
    /\ Proposal \in [Facts -> Codes \cup {NoProposal}] /\ NoProposal \notin Codes
    /\ FallbackCode \in Codes
    /\ CorrectedValues \subseteq Int /\ SplitAmounts \subseteq Int
    /\ MaxVersion \in Nat

VARIABLES
    meta,         \* Fields -> [state, value]
    parsed,       \* Facts -> the parse under the confirmed locale
    reasons,      \* Facts -> the blocking codes of the extraction
    mappingCodes, \* Facts -> the codes the last mapping step found
    status,       \* Facts -> verification_status; "unverified": no decision
    corrected,    \* Facts -> the reviewer's value, NoValue when none
    resolved,     \* Facts -> the codes a reviewer has resolved
    mapping,      \* Facts -> the fact's mappings in the current mapping set
    version       \* of the current mapping set

docVars == <<meta, parsed, reasons>>
decisionVars == <<status, corrected, resolved>>
mappingVars == <<mapping, version, mappingCodes>>
vars == <<docVars, decisionVars, mappingVars>>

-----------------------------------------------------------------------------
(* Reading the record *)

Confirmed(field) == field.state \in {"confirmed", "corrected"}

\* DocumentVerificationState.CONFIRMED.
DocumentConfirmed == \A n \in Required : Confirmed(meta[n])

\* Faulty variants, each the mutation a property must catch, stand before the
\* definition they would replace.  Here: the fields instead of their codes.
DocumentCodesAsFields(md) == {FieldOf[c] : c \in {d \in DocumentLevelCodes : ~Confirmed(md[FieldOf[d]])}}

DocumentCodes(md) == {c \in DocumentLevelCodes : ~Confirmed(md[FieldOf[c]])}

\* The locale to parse with: unknown unless a reviewer confirmed a real one.
ConfirmedLocale(md) ==
    LET n == md["number_locale"]
    IN  IF Confirmed(n) /\ n.value \in Locales THEN n.value ELSE "unknown"

ValueOf(f) == IF corrected[f] # NoValue THEN corrected[f] ELSE parsed[f].value
Values == [f \in Facts |-> ValueOf(f)]

\* Faulty: a finding does not block.
OutstandingOfExtraction(f) == reasons[f] \ resolved[f]

\* ReportedFact.blocking_codes.
Outstanding(f) == (reasons[f] \cup mappingCodes[f]) \ resolved[f]

Decided(f) == status[f] \in {"accepted", "corrected"}

\* review/progress.py: the gates a fact can fail.
IsVerified(f) ==
    /\ DocumentConfirmed
    /\ Outstanding(f) = {}
    /\ Decided(f)
    /\ IsApproved(mapping, f)

-----------------------------------------------------------------------------
(* The document: build_facts, then confirm_metadata *)

LowConfidence(f, reading) ==
    IF reading.evidence + TableEvidence[f] < DefaultThreshold THEN {"LOW_CONFIDENCE"} ELSE {}

\* A freshly ingested document: nothing confirmed, nothing decided.
Init ==
    /\ meta = [n \in Fields |-> [state |-> "unconfirmed", value |-> Detected[n]]]
    /\ parsed = [f \in Facts |-> Reading[f]["unknown"]]
    /\ reasons = [f \in Facts |->
                    parsed[f].codes \cup TableCodes[f] \cup DocumentLevelCodes
                      \cup LowConfidence(f, parsed[f])]
    /\ mappingCodes = [f \in Facts |-> {}]
    /\ status = [f \in Facts |-> "unverified"]
    /\ corrected = [f \in Facts |-> NoValue]
    /\ resolved = [f \in Facts |-> {}]
    /\ mapping = [f \in Facts |-> {}]
    /\ version = 1

\* The acceptances a re-parse under md withdraws: it reads another figure.
Reread(md, f) == Reading[f][ConfirmedLocale(md)]

\* Faulty: nothing is withdrawn; a correction is withdrawn too.
NoneWithdrawn(md) == {}
AllWithdrawn(md) == {f \in Facts : Decided(f) /\ Reread(md, f).value # parsed[f].value}

Withdrawn(md) == {f \in Facts : /\ status[f] = "accepted"
                                /\ Reread(md, f).value # parsed[f].value}

\* _refresh_fact on every fact.  A withdrawn acceptance takes its resolutions
\* with it; a correction stands.
Revalidate(md) ==
    LET Intrinsic(f) == (reasons[f] \ parsed[f].codes)
                          \ (DocumentLevelCodes \cup {"LOW_CONFIDENCE"})
    IN  /\ meta' = md
        /\ parsed' = [f \in Facts |-> Reread(md, f)]
        /\ reasons' = [f \in Facts |->
                         Reread(md, f).codes \cup Intrinsic(f) \cup DocumentCodes(md)
                           \cup LowConfidence(f, Reread(md, f))]
        /\ status' = [f \in Facts |->
                        IF f \in Withdrawn(md) THEN "unverified" ELSE status[f]]
        /\ resolved' = [f \in Facts |-> IF f \in Withdrawn(md) THEN {} ELSE resolved[f]]
        /\ UNCHANGED <<corrected, mappingVars>>

ConfirmField(n) ==
    /\ meta[n].value # Undetected
    /\ Revalidate([meta EXCEPT ![n].state = "confirmed"])

CorrectField(n, w) ==
    Revalidate([meta EXCEPT ![n] = [state |-> "corrected", value |-> w]])

\* The form without a field: accept every detection still open.
ConfirmDetected ==
    LET open == {n \in Fields : meta[n].value # Undetected /\ ~Confirmed(meta[n])}
    IN  /\ open # {}
        /\ Revalidate([n \in Fields |-> IF n \in open
                                          THEN [meta[n] EXCEPT !.state = "confirmed"]
                                          ELSE meta[n]])

-----------------------------------------------------------------------------
(* The facts: review/actions.py, saved by the `decide` route *)

\* Faulty: a decision clears the document's codes as well.
ResolveEverything(f) == resolved' = [resolved EXCEPT ![f] = @ \cup Outstanding(f)]

\* Accepting and correcting resolve every code that is not the document's.
Resolve(f) ==
    resolved' = [resolved EXCEPT ![f] = @ \cup (Outstanding(f) \ DocumentLevelCodes)]

\* Faulty: the document-level check is dropped.
AcceptAnyUnits(f) ==
    /\ ValueOf(f) # NoValue
    /\ status' = [status EXCEPT ![f] = "accepted"]
    /\ Resolve(f)
    /\ UNCHANGED <<corrected, docVars, mappingVars>>

Accept(f) ==
    /\ ValueOf(f) # NoValue
    /\ Outstanding(f) \cap DocumentLevelCodes = {}
    /\ status' = [status EXCEPT ![f] = "accepted"]
    /\ Resolve(f)
    /\ UNCHANGED <<corrected, docVars, mappingVars>>

Correct(f, x) ==
    /\ status' = [status EXCEPT ![f] = "corrected"]
    /\ corrected' = [corrected EXCEPT ![f] = x]
    /\ Resolve(f)
    /\ UNCHANGED <<docVars, mappingVars>>

Reject(f) ==
    /\ status' = [status EXCEPT ![f] = "rejected"]
    /\ UNCHANGED <<corrected, resolved, docVars, mappingVars>>

-----------------------------------------------------------------------------
(* The mapping set: mapping/actions.py, each route ending in apply_findings *)

\* Faulty: findings are added and never withdrawn.
CommitAccumulating(m, n) ==
    /\ version + n \in version .. MaxVersion
    /\ mapping' = m
    /\ version' = version + n
    /\ mappingCodes' = LET found == Findings(m, Values)
                       IN  [f \in Facts |-> mappingCodes[f] \cup found[f]]
    /\ UNCHANGED <<docVars, decisionVars>>

\* _commit then apply_findings: n versions were made to reach m.
Commit(m, n) ==
    /\ version + n \in version .. MaxVersion
    /\ mapping' = m
    /\ version' = version + n
    /\ mappingCodes' = Findings(m, Values)
    /\ UNCHANGED <<docVars, decisionVars>>

\* A new mapping, proposed or manual, starts unapproved.
Manual(code, type, sign, amount) ==
    [code |-> code, type |-> type, sign |-> sign, amount |-> amount,
     approved |-> FALSE]

OneToOne(code, value) == Manual(code, "one_to_one", InferSign(code, value), NoValue)

\* propose_all: one version for the lot, none when nothing matches.
Propose ==
    LET new == {f \in Facts : /\ mapping[f] = {}
                              /\ status[f] # "rejected"
                              /\ Proposal[f] # NoProposal}
    IN  Commit([f \in Facts |-> IF f \in new
                                  THEN {OneToOne(Proposal[f], ValueOf(f))}
                                  ELSE mapping[f]],
               IF new = {} THEN 0 ELSE 1)

MapFact(f, code) ==
    /\ status[f] # "rejected"
    /\ Commit([mapping EXCEPT ![f] = {OneToOne(code, ValueOf(f))}], 1)

\* allocation: the codes named -> their amounts, which must add up exactly.
SplitFact(f, allocation) ==
    LET codes == DOMAIN allocation
        Share(c) == allocation[c]
    IN  /\ status[f] # "rejected"
        /\ ValueOf(f) # NoValue
        /\ Cardinality(codes) >= 2
        /\ MapThenSumSet(Share, codes) = ValueOf(f)
        /\ Commit([mapping EXCEPT ![f] =
                     {Manual(c, "split", InferSign(c, Share(c)), Share(c)) : c \in codes}], 1)

\* The request lists `listed` >= 2 ids: a fact listed twice counts twice.
CombineFacts(fs, listed, code) ==
    /\ listed >= 2 /\ listed >= Cardinality(fs)
    /\ \A f \in fs : status[f] # "rejected"
    /\ \A f, g \in fs : PeriodOf[f] = PeriodOf[g]
    /\ Commit([f \in Facts |->
                 IF f \in fs
                   THEN {Manual(code, "aggregate", InferSign(code, ValueOf(f)), NoValue)}
                   ELSE mapping[f]],
              listed)

RejectMapping(f) ==
    LET code == IF Proposal[f] = NoProposal THEN FallbackCode ELSE Proposal[f]
    IN  Commit([mapping EXCEPT ![f] = {Manual(code, "rejected", "as_printed", NoValue)}], 1)

Approve(r) == [r EXCEPT !.approved = TRUE]

ApproveMapping(f) ==
    /\ mapping[f] # {}
    /\ ~DoubleCounted(mapping, f)
    /\ Commit([mapping EXCEPT ![f] = {Approve(r) : r \in mapping[f]}],
              Cardinality(mapping[f]))

\* Faulty: everything is approved without the double-counting check.
ApproveAllUnchecked ==
    LET targets == {f \in Facts : mapping[f] # {} /\ ~IsApproved(mapping, f)}
        Count(f) == Cardinality(mapping[f])
    IN  Commit([f \in Facts |-> IF f \in targets
                                  THEN {Approve(r) : r \in mapping[f]}
                                  ELSE mapping[f]],
               MapThenSumSet(Count, targets))

\* All or nothing: one refusal and the request saves none of the approvals.
ApproveAll ==
    LET targets == {f \in Facts : mapping[f] # {} /\ ~IsApproved(mapping, f)}
        Count(f) == Cardinality(mapping[f])
    IN  /\ \A f \in targets : ~DoubleCounted(mapping, f)
        /\ Commit([f \in Facts |-> IF f \in targets
                                     THEN {Approve(r) : r \in mapping[f]}
                                     ELSE mapping[f]],
                  MapThenSumSet(Count, targets))

-----------------------------------------------------------------------------

Allocations == UNION {[cs -> SplitAmounts] : cs \in SUBSET Codes}

ReviewMetadata ==
    \/ \E n \in Fields : ConfirmField(n)
    \/ \E n \in Fields : \E w \in Replacements[n] : CorrectField(n, w)
    \/ ConfirmDetected

ReviewFacts ==
    \/ \E f \in Facts : Accept(f)
    \/ \E f \in Facts, x \in CorrectedValues : Correct(f, x)
    \/ \E f \in Facts : Reject(f)

ReviewMappings ==
    \/ Propose
    \/ \E f \in Facts, c \in Codes : MapFact(f, c)
    \/ \E f \in Facts, a \in Allocations : SplitFact(f, a)
    \/ \E fs \in SUBSET Facts \ {{}}, c \in Codes, k \in 2..Cardinality(Facts) :
         CombineFacts(fs, k, c)
    \/ \E f \in Facts : RejectMapping(f)
    \/ \E f \in Facts : ApproveMapping(f)
    \/ ApproveAll

Next == ReviewMetadata \/ ReviewFacts \/ ReviewMappings

Spec == Init /\ [][Next]_vars

-----------------------------------------------------------------------------
(* Properties *)

FieldValue == UNION {{Detected[n]} \cup Replacements[n] : n \in Fields}

\* Every variable holds a record the program can serialize.
TypeOK ==
    /\ meta \in [Fields -> [state : {"unconfirmed", "confirmed", "corrected"},
                            value : FieldValue]]
    /\ parsed \in [Facts -> ParsedValue]
    /\ reasons \in [Facts -> SUBSET ReasonCodes]
    /\ mappingCodes \in [Facts -> SUBSET MappingCodes]
    /\ status \in [Facts -> {"unverified", "accepted", "corrected", "rejected"}]
    /\ corrected \in [Facts -> Figure]
    /\ resolved \in [Facts -> SUBSET (ReasonCodes \cup MappingCodes)]
    /\ mapping \in [Facts -> SUBSET Mapping]
    /\ version \in Nat

\* An accepted figure is a number: it has a value, and the scale and currency
\* it is in were confirmed on the document, whatever was confirmed, re-parsed
\* or decided since (review/actions.py, "what none of them can do").
AcceptedHasConfirmedUnits ==
    \A f \in Facts : status[f] = "accepted" =>
        /\ ValueOf(f) # NoValue
        /\ \A c \in DocumentLevelCodes : Confirmed(meta[FieldOf[c]])

\* A fact nobody stands behind has no resolved code: withdrawing an acceptance
\* takes back what it cleared (records._refresh_fact), and no decision, however
\* often it is remade, clears what only the document's confirmation can.
OnlyDecisionsResolve ==
    \A f \in Facts :
        /\ status[f] = "unverified" => resolved[f] = {}
        /\ resolved[f] \cap DocumentLevelCodes = {}

\* 11.6, "prevention is structural" (mapping/actions.py): on a line printed on
\* one statement, two approved figures of a period are a declared aggregate, in
\* whatever order the facts were mapped, remapped, combined and approved.
ApprovedMappingsDoNotOverlap ==
    \A c \in Codes : Len(StatementTypes[c]) = 1 =>
        \A f, g \in Facts : PeriodOf[f] = PeriodOf[g] =>
            \A r \in mapping[f], s \in mapping[g] :
                /\ r.approved /\ s.approved
                /\ Contributes(r) /\ Contributes(s)
                /\ r.code = c /\ s.code = c
                /\ <<f, r>> # <<g, s>>
                => r.type = "aggregate" /\ s.type = "aggregate"

\* An approved fact is not split over a line and a total that contains it.
ApprovedFactNotNested ==
    \A f \in Facts : IsApproved(mapping, f) => ~NestedMapping(mapping, f)

\* What a fact puts in the ledger: the lines it is on, with its figure there.
Footprint(f) ==
    {<<r.code, StatementFor(r.code, f), Contribution(r, ValueOf(f))>> :
       r \in {r \in mapping[f] : Contributes(r)}}

\* A verified figure moves in the ledger only in a step that leaves it
\* unverified or that corrects this very fact: a re-parse withdraws the
\* acceptance and a new mapping starts unapproved, so no figure changes under
\* an approval given to another one.
VerifiedFigureNeverMovesUnseen ==
    [][\A f \in Facts :
         IsVerified(f) /\ Footprint(f)' # Footprint(f) =>
            \/ ~IsVerified(f)'
            \/ corrected[f]' # corrected[f] /\ status[f]' = "corrected"]_vars

\* An approval is of a mapping that stood before the request that gave it: no
\* step writes and approves at once, or edits an approved mapping in place.
ApprovalIsOfAStandingMapping ==
    [][\A f \in Facts : \A r \in mapping'[f] :
         r.approved => \E s \in mapping[f] : r \in {s, Approve(s)}]_vars

\* 10.35 and "a correction is not withdrawn": a figure a reviewer supplied
\* survives every re-parse, and the decision about a fact changes only by a
\* decision or because the re-parse changed the figure that was accepted.
DecisionsSurviveReparse ==
    [][meta' # meta =>
         \A f \in Facts :
            /\ corrected[f]' = corrected[f]
            /\ status[f]' # status[f] =>
                  status[f] = "accepted" /\ parsed[f]'.value # parsed[f].value]_vars

\* A fact rejected in source review gains no figure in the ledger: every
\* mapping route that adds one refuses it or passes it over.
RejectedGainsNoFigure ==
    [][\A f \in Facts : status[f] = "rejected" /\ mapping'[f] # mapping[f] =>
         \A r \in mapping'[f] : Contributes(r) => \E s \in mapping[f] : r = Approve(s)]_vars

==============================================================================
