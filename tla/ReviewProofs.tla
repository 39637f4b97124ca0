---------------------------- MODULE ReviewProofs ----------------------------
(***************************************************************************)
(* What the review guarantees for every chart, every set of facts and      *)
(* every filing, and what the release gate behind it guarantees for every  *)
(* scenario.                                                               *)
(***************************************************************************)
EXTENDS ReviewHistory, Release, TLAPS

-----------------------------------------------------------------------------
(* The operators the actions are built from *)

\* apply_findings writes mapping-stage codes and nothing else.
LEMMA FindingsType ==
    ASSUME NEW m, NEW v
    PROVE  Findings(m, v) \in [Facts -> SUBSET MappingCodes]
  BY Zenon DEF Findings

\* The confirmed locale is one the parser knows.
LEMMA ConfirmedLocaleType ==
    ASSUME NEW md
    PROVE  ConfirmedLocale(md) \in Locales
  BY DEF ConfirmedLocale, Locales

\* The score adds at most the LOW_CONFIDENCE code.
LEMMA LowConfidenceType ==
    ASSUME NEW f, NEW reading
    PROVE  LowConfidence(f, reading) \in SUBSET {"LOW_CONFIDENCE"}
  BY DEF LowConfidence

\* A figure is a number or absent, corrected or parsed.
LEMMA ValueType ==
    ASSUME TypeOK, NEW f \in Facts
    PROVE  ValueOf(f) \in Figure
  BY DEF TypeOK, ValueOf, ParsedValue

\* Every new mapping is well formed and unapproved.
LEMMA ManualType ==
    ASSUME NEW code \in Codes, NEW type \in MappingType, NEW value, NEW amount \in Figure
    PROVE  /\ Manual(code, type, InferSign(code, value), amount) \in Mapping
           /\ Manual(code, type, "as_printed", amount) \in Mapping
  <1>1. InferSign(code, value) \in {"as_printed", "negated"}
    BY DEF InferSign
  <1>2. QED
    BY <1>1 DEF Manual, Mapping

\* Approving keeps a mapping well formed.
LEMMA ApproveType ==
    ASSUME NEW r \in Mapping
    PROVE  Approve(r) \in Mapping
  BY DEF Approve, Mapping

-----------------------------------------------------------------------------
(* Every step is a metadata step, a decision or a mapping step *)

\* What Revalidate keeps typed, for any well-typed metadata.
LEMMA RevalidateType ==
    ASSUME TypeOK,
           NEW md \in [Fields -> [state : {"unconfirmed", "confirmed", "corrected"},
                                  value : FieldValue]],
           Revalidate(md)
    PROVE  TypeOK'
  <1>1. \A f \in Facts : Reread(md, f) \in ParsedValue
    BY ConfirmedLocaleType, ReviewAssumption DEF Reread
  <1>2. parsed' \in [Facts -> ParsedValue]
    BY <1>1 DEF Revalidate
  <1>3. reasons' \in [Facts -> SUBSET ReasonCodes]
    <2>1. ASSUME NEW f \in Facts
          PROVE  /\ Reread(md, f).codes \subseteq ReasonCodes
                 /\ reasons[f] \subseteq ReasonCodes
                 /\ DocumentCodes(md) \subseteq ReasonCodes
                 /\ LowConfidence(f, Reread(md, f)) \subseteq ReasonCodes
      BY <1>1, LowConfidenceType
      DEF TypeOK, ParsedValue, ReasonCodes, DocumentCodes
    <2>2. QED
      BY <2>1 DEF Revalidate
  <1>4. /\ status' \in [Facts -> {"unverified", "accepted", "corrected", "rejected"}]
        /\ resolved' \in [Facts -> SUBSET (ReasonCodes \cup MappingCodes)]
    BY DEF Revalidate, TypeOK
  <1>5. meta' = md /\ UNCHANGED <<corrected, mapping, version, mappingCodes>>
    BY DEF Revalidate, mappingVars
  <1>6. QED
    BY <1>2, <1>3, <1>4, <1>5 DEF TypeOK

\* Every metadata request revalidates well-typed metadata.
LEMMA MetadataSteps ==
    ASSUME TypeOK, ReviewMetadata
    PROVE  \E md \in [Fields -> [state : {"unconfirmed", "confirmed", "corrected"},
                                 value : FieldValue]] :
              /\ Revalidate(md)
              /\ \A n \in Fields : Confirmed(meta[n]) => Confirmed(md[n])
  <1> DEFINE Field == [state : {"unconfirmed", "confirmed", "corrected"}, value : FieldValue]
  <1>0. meta \in [Fields -> Field]
    BY DEF TypeOK
  <1>1. ASSUME NEW n \in Fields, ConfirmField(n)
        PROVE  \E md \in [Fields -> Field] :
                  Revalidate(md) /\ \A k \in Fields : Confirmed(meta[k]) => Confirmed(md[k])
    <2> DEFINE md == [meta EXCEPT ![n].state = "confirmed"]
    <2>1. md \in [Fields -> Field]
      BY <1>0
    <2>2. \A k \in Fields : Confirmed(meta[k]) => Confirmed(md[k])
      BY <1>0 DEF Confirmed
    <2>3. Revalidate(md)
      BY <1>1 DEF ConfirmField
    <2>4. QED
      BY <2>1, <2>2, <2>3
  <1>2. ASSUME NEW n \in Fields, NEW w \in Replacements[n], CorrectField(n, w)
        PROVE  \E md \in [Fields -> Field] :
                  Revalidate(md) /\ \A k \in Fields : Confirmed(meta[k]) => Confirmed(md[k])
    <2> DEFINE md == [meta EXCEPT ![n] = [state |-> "corrected", value |-> w]]
    <2>1. w \in FieldValue
      BY DEF FieldValue
    <2>2. md \in [Fields -> Field]
      BY <1>0, <2>1
    <2>3. \A k \in Fields : Confirmed(meta[k]) => Confirmed(md[k])
      BY <1>0 DEF Confirmed
    <2>4. Revalidate(md)
      BY <1>2 DEF CorrectField
    <2>5. QED
      BY <2>2, <2>3, <2>4
  <1>3. ASSUME ConfirmDetected
        PROVE  \E md \in [Fields -> Field] :
                  Revalidate(md) /\ \A k \in Fields : Confirmed(meta[k]) => Confirmed(md[k])
    <2> DEFINE open == {n \in Fields : meta[n].value # Undetected /\ ~Confirmed(meta[n])}
               md == [n \in Fields |-> IF n \in open
                                         THEN [meta[n] EXCEPT !.state = "confirmed"]
                                         ELSE meta[n]]
    <2>1. md \in [Fields -> Field]
      BY <1>0
    <2>2. \A k \in Fields : Confirmed(meta[k]) => Confirmed(md[k])
      BY <1>0
    <2>3. Revalidate(md)
      BY <1>3 DEF ConfirmDetected
    <2>4. QED
      BY <2>1, <2>2, <2>3
  <1>4. QED
    BY <1>1, <1>2, <1>3 DEF ReviewMetadata

\* Every mapping request commits well-formed mappings, of which the approved
\* ones stood before or were approved by a request that checked them; a rejected
\* fact gains none that contributes.
LEMMA MappingSteps ==
    ASSUME TypeOK, ReviewMappings
    PROVE  \E m \in [Facts -> SUBSET Mapping] :
              /\ \E n : Commit(m, n)
              /\ \A f \in Facts :
                    \/ m[f] = mapping[f]
                    \/ \A r \in m[f] : ~r.approved
                    \/ /\ ~DoubleCounted(mapping, f)
                       /\ m[f] = {Approve(r) : r \in mapping[f]}
              /\ \A f \in Facts : status[f] = "rejected" =>
                    \/ m[f] = mapping[f]
                    \/ \A r \in m[f] : ~Contributes(r)
                    \/ m[f] = {Approve(r) : r \in mapping[f]}
  <1> DEFINE Good(m) ==
              /\ m \in [Facts -> SUBSET Mapping]
              /\ \A f \in Facts :
                    \/ m[f] = mapping[f]
                    \/ \A r \in m[f] : ~r.approved
                    \/ /\ ~DoubleCounted(mapping, f)
                       /\ m[f] = {Approve(r) : r \in mapping[f]}
              /\ \A f \in Facts : status[f] = "rejected" =>
                    \/ m[f] = mapping[f]
                    \/ \A r \in m[f] : ~Contributes(r)
                    \/ m[f] = {Approve(r) : r \in mapping[f]}
  <1>0. mapping \in [Facts -> SUBSET Mapping]
    BY DEF TypeOK
  <1>u. ASSUME NEW code \in Codes, NEW type \in MappingType, NEW value, NEW amount \in Figure
        PROVE  /\ Manual(code, type, InferSign(code, value), amount) \in Mapping
               /\ Manual(code, type, "as_printed", amount) \in Mapping
               /\ ~Manual(code, type, InferSign(code, value), amount).approved
               /\ ~Manual(code, type, "as_printed", amount).approved
    BY ManualType DEF Manual
  <1>n. NoValue \in Figure /\ {"one_to_one", "aggregate", "split", "rejected"} \subseteq MappingType
    BY DEF Figure, MappingType
  <1>o. ASSUME NEW code \in Codes, NEW value
        PROVE  OneToOne(code, value) \in Mapping /\ ~OneToOne(code, value).approved
    BY <1>u, <1>n DEF OneToOne
  <1>1. ASSUME Propose PROVE \E m, n : Good(m) /\ Commit(m, n)
    <2> DEFINE new == {f \in Facts : /\ mapping[f] = {}
                                     /\ status[f] # "rejected"
                                     /\ Proposal[f] # NoProposal}
               m == [f \in Facts |-> IF f \in new
                                       THEN {OneToOne(Proposal[f], ValueOf(f))}
                                       ELSE mapping[f]]
    <2>1. \A f \in new : Proposal[f] \in Codes
      BY ReviewAssumption
    <2>2. Good(m)
      BY <1>0, <1>o, <2>1
    <2>3. Commit(m, IF new = {} THEN 0 ELSE 1)
      BY <1>1 DEF Propose
    <2>4. QED
      BY <2>2, <2>3
  <1>2. ASSUME NEW f \in Facts, NEW c \in Codes, MapFact(f, c)
        PROVE  \E m, n : Good(m) /\ Commit(m, n)
    <2> DEFINE m == [mapping EXCEPT ![f] = {OneToOne(c, ValueOf(f))}]
    <2>1. Good(m)
      BY <1>0, <1>2, <1>o DEF MapFact
    <2>2. Commit(m, 1)
      BY <1>2 DEF MapFact
    <2>3. QED
      BY <2>1, <2>2
  <1>3. ASSUME NEW f \in Facts, NEW a \in Allocations, SplitFact(f, a)
        PROVE  \E m, n : Good(m) /\ Commit(m, n)
    <2> DEFINE parts == {Manual(c, "split", InferSign(c, a[c]), a[c]) : c \in DOMAIN a}
               m == [mapping EXCEPT ![f] = parts]
    <2>0. PICK cs \in SUBSET Codes : a \in [cs -> SplitAmounts]
      BY DEF Allocations
    <2>1. \A c \in DOMAIN a : c \in Codes /\ a[c] \in Figure
      BY <2>0, ReviewAssumption DEF Figure
    <2>2. \A r \in parts : r \in Mapping /\ ~r.approved
      BY <1>u, <1>n, <2>1
    <2>3. Good(m)
      BY <1>0, <1>3, <2>2 DEF SplitFact
    <2>4. Commit(m, 1)
      BY <1>3 DEF SplitFact
    <2>5. QED
      BY <2>3, <2>4
  <1>4. ASSUME NEW fs \in SUBSET Facts, NEW c \in Codes, NEW k, CombineFacts(fs, k, c)
        PROVE  \E m, n : Good(m) /\ Commit(m, n)
    <2> DEFINE m == [f \in Facts |->
                       IF f \in fs
                         THEN {Manual(c, "aggregate", InferSign(c, ValueOf(f)), NoValue)}
                         ELSE mapping[f]]
    <2>1. Good(m)
      BY <1>0, <1>4, <1>u, <1>n DEF CombineFacts
    <2>2. Commit(m, k)
      BY <1>4 DEF CombineFacts
    <2>3. QED
      BY <2>1, <2>2
  <1>5. ASSUME NEW f \in Facts, RejectMapping(f)
        PROVE  \E m, n : Good(m) /\ Commit(m, n)
    <2> DEFINE code == IF Proposal[f] = NoProposal THEN FallbackCode ELSE Proposal[f]
               m == [mapping EXCEPT ![f] = {Manual(code, "rejected", "as_printed", NoValue)}]
    <2>1. code \in Codes
      BY ReviewAssumption
    <2>2. Commit(m, 1)
      BY <1>5 DEF RejectMapping
    <2> HIDE DEF code
    <2>3. ~Contributes(Manual(code, "rejected", "as_printed", NoValue))
      BY DEF Manual, Contributes
    <2>4. m[f] = {Manual(code, "rejected", "as_printed", NoValue)}
      BY DEF TypeOK
    <2>5. \A r \in m[f] : r \in Mapping /\ ~r.approved /\ ~Contributes(r)
      BY <1>u, <1>n, <2>1, <2>3, <2>4
    <2>6. \A g \in Facts : g # f => m[g] = mapping[g]
      BY DEF TypeOK
    <2>7. m \in [Facts -> SUBSET Mapping]
      BY <2>4, <2>5 DEF TypeOK
    <2> HIDE DEF m
    <2>8. Good(m)
      BY <1>0, <2>5, <2>6, <2>7
    <2>9. QED
      BY <2>2, <2>8
  <1>6. ASSUME NEW f \in Facts, ApproveMapping(f)
        PROVE  \E m, n : Good(m) /\ Commit(m, n)
    <2> DEFINE m == [mapping EXCEPT ![f] = {Approve(r) : r \in mapping[f]}]
    <2>1. Good(m)
      BY <1>0, <1>6, ApproveType DEF ApproveMapping
    <2>2. Commit(m, Cardinality(mapping[f]))
      BY <1>6 DEF ApproveMapping
    <2>3. QED
      BY <2>1, <2>2
  <1>7. ASSUME ApproveAll PROVE \E m, n : Good(m) /\ Commit(m, n)
    <2> DEFINE targets == {f \in Facts : mapping[f] # {} /\ ~IsApproved(mapping, f)}
               m == [f \in Facts |-> IF f \in targets
                                       THEN {Approve(r) : r \in mapping[f]}
                                       ELSE mapping[f]]
    <2>1. \A f \in targets : ~DoubleCounted(mapping, f)
      BY <1>7 DEF ApproveAll
    <2>2. Good(m)
      BY <1>0, <2>1, ApproveType
    <2>3. \E n : Commit(m, n)
      BY <1>7 DEF ApproveAll
    <2>4. QED
      BY <2>2, <2>3
  <1>8. \E m, n : Good(m) /\ Commit(m, n)
    BY <1>1, <1>2, <1>3, <1>4, <1>5, <1>6, <1>7 DEF ReviewMappings
  <1>9. QED
    BY <1>8

\* No other request moves a mapping.
LEMMA OnlyMappingsMap ==
    ASSUME TypeOK, [Next]_vars, ~ReviewMappings
    PROVE  UNCHANGED mapping
  <1>1. CASE ReviewMetadata
    BY <1>1, MetadataSteps DEF Revalidate, mappingVars
  <1>2. CASE ReviewFacts
    BY <1>2 DEF ReviewFacts, Accept, Correct, Reject, mappingVars
  <1>3. CASE UNCHANGED vars
    BY <1>3 DEF vars, mappingVars
  <1>4. QED
    BY <1>1, <1>2, <1>3 DEF Next

\* _commit and apply_findings keep the record well formed.
LEMMA CommitType ==
    ASSUME TypeOK, NEW m \in [Facts -> SUBSET Mapping], NEW n, Commit(m, n)
    PROVE  TypeOK'
  <1>1. mappingCodes' \in [Facts -> SUBSET MappingCodes]
    BY FindingsType DEF Commit
  <1>2. mapping' \in [Facts -> SUBSET Mapping]
    BY DEF Commit
  <1>3. version' \in Nat
    BY DEF Commit, TypeOK
  <1>4. UNCHANGED <<meta, parsed, reasons, status, corrected, resolved>>
    BY DEF Commit, docVars, decisionVars
  <1>5. QED
    BY <1>1, <1>2, <1>3, <1>4 DEF TypeOK

\* So does every reviewer decision.
LEMMA DecisionType ==
    ASSUME TypeOK, ReviewFacts
    PROVE  TypeOK'
  <1>1. ASSUME NEW f \in Facts
        PROVE  Outstanding(f) \subseteq ReasonCodes \cup MappingCodes
    BY DEF Outstanding, TypeOK
  <1>2. ASSUME NEW f \in Facts, Accept(f) PROVE TypeOK'
    BY <1>1, <1>2 DEF Accept, Resolve, TypeOK, docVars, mappingVars
  <1>3. ASSUME NEW f \in Facts, NEW x \in CorrectedValues, Correct(f, x) PROVE TypeOK'
    <2>1. x \in Figure
      BY ReviewAssumption DEF Figure
    <2>2. QED
      BY <1>1, <1>3, <2>1 DEF Correct, Resolve, TypeOK, docVars, mappingVars
  <1>4. ASSUME NEW f \in Facts, Reject(f) PROVE TypeOK'
    BY <1>4 DEF Reject, TypeOK, docVars, mappingVars
  <1>5. QED
    BY <1>2, <1>3, <1>4 DEF ReviewFacts

\* A freshly ingested document is well formed.
LEMMA InitType == Init => TypeOK
  <1> SUFFICES ASSUME Init PROVE TypeOK
    OBVIOUS
  <1>1. meta \in [Fields -> [state : {"unconfirmed", "confirmed", "corrected"},
                             value : FieldValue]]
    BY DEF Init, FieldValue
  <1>2. parsed \in [Facts -> ParsedValue]
    BY ReviewAssumption DEF Init, Locales
  <1>3. reasons \in [Facts -> SUBSET ReasonCodes]
    BY <1>2, LowConfidenceType, ReviewAssumption DEF Init, ReasonCodes, ParsedValue
  <1>4. QED
    BY <1>1, <1>2, <1>3 DEF Init, TypeOK, Figure

\* The record stays well formed for any chart and any filing.
THEOREM TypeCorrect == Spec => []TypeOK
  <1>1. TypeOK /\ [Next]_vars => TypeOK'
    <2> SUFFICES ASSUME TypeOK, [Next]_vars PROVE TypeOK'
      OBVIOUS
    <2>1. CASE ReviewMetadata
      BY <2>1, MetadataSteps, RevalidateType
    <2>2. CASE ReviewFacts
      BY <2>2, DecisionType
    <2>3. CASE ReviewMappings
      BY <2>3, MappingSteps, CommitType
    <2>4. CASE UNCHANGED vars
      BY <2>4 DEF vars, docVars, decisionVars, mappingVars, TypeOK
    <2>5. QED
      BY <2>1, <2>2, <2>3, <2>4 DEF Next
  <1>2. QED
    BY <1>1, InitType, PTL DEF Spec

-----------------------------------------------------------------------------
(* Units: the inductive invariant is that a fact carries a document-level   *)
(* code exactly while its field is unconfirmed, that no decision resolves   *)
(* one, and that a correction has a value.                                  *)

DocumentCodesTrackMetadata ==
    \A f \in Facts : reasons[f] \cap DocumentLevelCodes = DocumentCodes(meta)

CorrectionsHaveValues ==
    \A f \in Facts : status[f] = "corrected" => corrected[f] # NoValue

UnitsInv ==
    /\ TypeOK
    /\ DocumentCodesTrackMetadata
    /\ CorrectionsHaveValues
    /\ OnlyDecisionsResolve
    /\ AcceptedHasConfirmedUnits

\* The code families are disjoint, which is why resolving is per stage.
LEMMA CodesDisjoint ==
    /\ ParseCodes \cap DocumentLevelCodes = {}
    /\ TablePageCodes \cap DocumentLevelCodes = {}
    /\ MappingCodes \cap DocumentLevelCodes = {}
    /\ "LOW_CONFIDENCE" \notin DocumentLevelCodes
  BY DEF ParseCodes, TablePageCodes, MappingCodes, DocumentLevelCodes

\* Each document-level code is cleared by one metadata field.
LEMMA FieldOfCode == \A c \in DocumentLevelCodes : FieldOf[c] \in Fields
  BY ReviewAssumption DEF DocumentLevelCodes, FieldOf

\* A metadata step keeps confirmed units confirmed and withdraws what it moved.
LEMMA RevalidateUnits ==
    ASSUME UnitsInv,
           NEW md \in [Fields -> [state : {"unconfirmed", "confirmed", "corrected"},
                                  value : FieldValue]],
           Revalidate(md),
           \A n \in Fields : Confirmed(meta[n]) => Confirmed(md[n])
    PROVE  UnitsInv'
  <1>1. TypeOK'
    BY RevalidateType DEF UnitsInv
  <1>2. \A f \in Facts : Reread(md, f) \in ParsedValue
    BY ConfirmedLocaleType, ReviewAssumption DEF Reread
  <1>3. DocumentCodesTrackMetadata'
    <2>1. ASSUME NEW f \in Facts
          PROVE  reasons'[f] \cap DocumentLevelCodes = DocumentCodes(md)
      <3>1. /\ Reread(md, f).codes \subseteq ParseCodes
            /\ LowConfidence(f, Reread(md, f)) \subseteq {"LOW_CONFIDENCE"}
            /\ DocumentCodes(md) \subseteq DocumentLevelCodes
        BY <1>2, LowConfidenceType DEF ParsedValue, DocumentCodes
      <3>2. reasons'[f] =
              Reread(md, f).codes
                \cup ((reasons[f] \ parsed[f].codes)
                        \ (DocumentLevelCodes \cup {"LOW_CONFIDENCE"}))
                \cup DocumentCodes(md) \cup LowConfidence(f, Reread(md, f))
        BY DEF Revalidate
      <3>3. QED
        BY <3>1, <3>2, CodesDisjoint
    <2>2. meta' = md
      BY DEF Revalidate
    <2>3. QED
      BY <2>1, <2>2 DEF DocumentCodesTrackMetadata, DocumentCodes
  <1>4. CorrectionsHaveValues'
    BY DEF UnitsInv, CorrectionsHaveValues, Revalidate, TypeOK
  <1>5. OnlyDecisionsResolve'
    BY DEF UnitsInv, OnlyDecisionsResolve, Revalidate, TypeOK
  <1>6. AcceptedHasConfirmedUnits'
    <2>1. SUFFICES ASSUME NEW f \in Facts, status'[f] = "accepted"
                   PROVE  /\ ValueOf(f)' # NoValue
                          /\ \A c \in DocumentLevelCodes : Confirmed(meta'[FieldOf[c]])
      BY DEF AcceptedHasConfirmedUnits
    <2>2. status[f] = "accepted" /\ parsed'[f].value = parsed[f].value
      BY <2>1 DEF Revalidate, Withdrawn, Reread
    <2>3. ValueOf(f)' = ValueOf(f)
      BY <2>2 DEF Revalidate, ValueOf
    <2>4. \A c \in DocumentLevelCodes : Confirmed(meta[FieldOf[c]])
      BY <2>2 DEF UnitsInv, AcceptedHasConfirmedUnits
    <2>5. \A c \in DocumentLevelCodes : Confirmed(md[FieldOf[c]])
      BY <2>4, FieldOfCode
    <2>6. QED
      BY <2>2, <2>3, <2>5 DEF UnitsInv, AcceptedHasConfirmedUnits, Revalidate
  <1>7. QED
    BY <1>1, <1>3, <1>4, <1>5, <1>6 DEF UnitsInv

\* A decision accepts only where no document-level code is outstanding.
LEMMA DecisionUnits ==
    ASSUME UnitsInv, ReviewFacts
    PROVE  UnitsInv'
  <1>1. TypeOK'
    BY DecisionType DEF UnitsInv
  <1>2. UNCHANGED <<meta, parsed, reasons, mappingCodes>>
    BY DEF ReviewFacts, Accept, Correct, Reject, docVars, mappingVars
  <1>3. DocumentCodesTrackMetadata'
    BY <1>2 DEF UnitsInv, DocumentCodesTrackMetadata, DocumentCodes
  <1>4. ASSUME NEW f \in Facts, Accept(f)
        PROVE  CorrectionsHaveValues' /\ OnlyDecisionsResolve' /\ AcceptedHasConfirmedUnits'
    <2>1. CorrectionsHaveValues' /\ OnlyDecisionsResolve'
      BY <1>4 DEF UnitsInv, CorrectionsHaveValues, OnlyDecisionsResolve, Accept, Resolve, TypeOK
    <2>2. \A g \in Facts : ValueOf(g)' = ValueOf(g)
      BY <1>2, <1>4 DEF Accept, ValueOf
    <2>3. \A c \in DocumentLevelCodes : Confirmed(meta[FieldOf[c]])
      <3>1. reasons[f] \cap DocumentLevelCodes = {}
        BY <1>4 DEF Accept, Outstanding, UnitsInv, OnlyDecisionsResolve
      <3>2. DocumentCodes(meta) = {}
        BY <3>1 DEF UnitsInv, DocumentCodesTrackMetadata
      <3>3. QED
        BY <3>2 DEF DocumentCodes
    <2>4. QED
      BY <1>2, <1>4, <2>1, <2>2, <2>3
      DEF UnitsInv, AcceptedHasConfirmedUnits, Accept, TypeOK
  <1>5. ASSUME NEW f \in Facts, NEW x \in CorrectedValues, Correct(f, x)
        PROVE  CorrectionsHaveValues' /\ OnlyDecisionsResolve' /\ AcceptedHasConfirmedUnits'
    <2>1. x # NoValue
      BY ReviewAssumption, ChartAssumption
    <2>2. CorrectionsHaveValues' /\ OnlyDecisionsResolve'
      BY <1>5, <2>1
      DEF UnitsInv, CorrectionsHaveValues, OnlyDecisionsResolve, Correct, Resolve, TypeOK
    <2>3. \A g \in Facts : g # f =>
             status'[g] = status[g] /\ ValueOf(g)' = ValueOf(g)
      BY <1>2, <1>5 DEF Correct, ValueOf, UnitsInv, TypeOK
    <2>4. status'[f] # "accepted"
      BY <1>5 DEF Correct, UnitsInv, TypeOK
    <2>5. QED
      BY <1>2, <2>2, <2>3, <2>4 DEF UnitsInv, AcceptedHasConfirmedUnits
  <1>6. ASSUME NEW f \in Facts, Reject(f)
        PROVE  CorrectionsHaveValues' /\ OnlyDecisionsResolve' /\ AcceptedHasConfirmedUnits'
    <2>1. CorrectionsHaveValues' /\ OnlyDecisionsResolve'
      BY <1>6 DEF UnitsInv, CorrectionsHaveValues, OnlyDecisionsResolve, Reject, TypeOK
    <2>2. \A g \in Facts : ValueOf(g)' = ValueOf(g)
      BY <1>2, <1>6 DEF Reject, ValueOf
    <2>3. QED
      BY <1>2, <1>6, <2>1, <2>2 DEF UnitsInv, AcceptedHasConfirmedUnits, Reject, TypeOK
  <1>7. QED
    BY <1>1, <1>3, <1>4, <1>5, <1>6 DEF ReviewFacts, UnitsInv

\* A mapping step touches none of it.
LEMMA CommitUnits ==
    ASSUME UnitsInv, NEW m \in [Facts -> SUBSET Mapping], NEW n, Commit(m, n)
    PROVE  UnitsInv'
  <1>1. TypeOK'
    BY CommitType DEF UnitsInv
  <1>2. UNCHANGED <<meta, parsed, reasons, status, corrected, resolved>>
    BY DEF Commit, docVars, decisionVars
  <1>3. QED
    BY <1>1, <1>2
    DEF UnitsInv, DocumentCodesTrackMetadata, DocumentCodes, CorrectionsHaveValues,
        OnlyDecisionsResolve, AcceptedHasConfirmedUnits, ValueOf

\* Every step keeps UnitsInv.
LEMMA UnitsInductive == UnitsInv /\ [Next]_vars => UnitsInv'
  <1> SUFFICES ASSUME UnitsInv, [Next]_vars PROVE UnitsInv'
    OBVIOUS
  <1>t. TypeOK
    BY DEF UnitsInv
  <1>1. CASE ReviewMetadata
    BY <1>1, <1>t, MetadataSteps, RevalidateUnits
  <1>2. CASE ReviewFacts
    BY <1>2, DecisionUnits
  <1>3. CASE ReviewMappings
    BY <1>3, <1>t, MappingSteps, CommitUnits
  <1>4. CASE UNCHANGED vars
    BY <1>4
    DEF vars, docVars, decisionVars, mappingVars, UnitsInv, TypeOK,
        DocumentCodesTrackMetadata, DocumentCodes, CorrectionsHaveValues,
        OnlyDecisionsResolve, AcceptedHasConfirmedUnits, ValueOf
  <1>5. QED
    BY <1>1, <1>2, <1>3, <1>4 DEF Next

\* A freshly ingested document satisfies UnitsInv.
LEMMA UnitsInit == Init => UnitsInv
  <1> SUFFICES ASSUME Init PROVE UnitsInv
    OBVIOUS
  <1>1. TypeOK
    BY InitType
  <1>2. DocumentCodesTrackMetadata
    <2>1. DocumentCodes(meta) = DocumentLevelCodes
      BY FieldOfCode DEF Init, DocumentCodes, Confirmed
    <2>2. ASSUME NEW f \in Facts
          PROVE  DocumentLevelCodes \subseteq reasons[f]
      BY DEF Init
    <2>3. QED
      BY <2>1, <2>2 DEF DocumentCodesTrackMetadata
  <1>3. QED
    BY <1>1, <1>2
    DEF Init, UnitsInv, CorrectionsHaveValues, OnlyDecisionsResolve, AcceptedHasConfirmedUnits

\* However the metadata is confirmed, corrected and re-corrected around it, an
\* accepted figure has a value in a confirmed scale and currency.
THEOREM AcceptedUnits == Spec => []AcceptedHasConfirmedUnits
  <1>1. UnitsInv => AcceptedHasConfirmedUnits
    BY DEF UnitsInv
  <1>2. QED
    BY <1>1, UnitsInit, UnitsInductive, PTL DEF Spec

\* A withdrawn acceptance leaves no resolution behind, and document-level codes
\* are never resolved fact by fact.
THEOREM DecisionsResolve == Spec => []OnlyDecisionsResolve
  <1>1. UnitsInv => OnlyDecisionsResolve
    BY DEF UnitsInv
  <1>2. QED
    BY <1>1, UnitsInit, UnitsInductive, PTL DEF Spec

-----------------------------------------------------------------------------
(* Double counting: no strengthening is needed.  A mapping is approved only *)
(* as part of a set in which it was not found counted twice, and approving  *)
(* does not change what would be found.                                     *)

\* What ~DoubleCounted says of two mappings of one single-statement line.
LEMMA NotDoubleCounted ==
    ASSUME NEW f \in Facts, NEW g \in Facts,
           NEW r \in mapping[f], NEW s \in mapping[g],
           ~DoubleCounted(mapping, f),
           Contributes(r), Contributes(s), r.code = s.code,
           Len(StatementTypes[r.code]) = 1,
           PeriodOf[f] = PeriodOf[g],
           <<f, r>> # <<g, s>>
    PROVE  r.type = "aggregate" /\ s.type = "aggregate"
  <1> DEFINE group == Group(mapping, r.code, PeriodOf[f])
  <1>1. <<f, r>> \in group /\ <<g, s>> \in group
    <2>1. /\ <<f, r>> \in UNION {{h} \X mapping[h] : h \in Facts}
          /\ <<g, s>> \in UNION {{h} \X mapping[h] : h \in Facts}
      OBVIOUS
    <2>2. QED
      BY <2>1 DEF Group
  <1>2. ~CrossStatementDuplicate(r.code, group)
    BY DEF CrossStatementDuplicate
  <1>3. ~UndeclaredAggregate(mapping, f)
    BY DEF DoubleCounted
  <1>4. \A p \in group : p[2].type = "aggregate"
    BY <1>1, <1>2, <1>3 DEF UndeclaredAggregate
  <1>5. QED
    BY <1>1, <1>4

\* Preserved by a mapping step.
LEMMA CommitOverlap ==
    ASSUME TypeOK, ApprovedMappingsDoNotOverlap,
           NEW m \in [Facts -> SUBSET Mapping], NEW n, Commit(m, n),
           \A f \in Facts :
              \/ m[f] = mapping[f]
              \/ \A r \in m[f] : ~r.approved
              \/ /\ ~DoubleCounted(mapping, f)
                 /\ m[f] = {Approve(r) : r \in mapping[f]}
    PROVE  ApprovedMappingsDoNotOverlap'
  <1>0. mapping \in [Facts -> SUBSET Mapping] /\ mapping' = m
    BY DEF TypeOK, Commit
  <1>1. ASSUME NEW r \in Mapping
        PROVE  /\ Approve(r).code = r.code /\ Approve(r).type = r.type
               /\ Contributes(Approve(r)) <=> Contributes(r)
    BY DEF Approve, Mapping, Contributes
  <1>2. SUFFICES
          ASSUME NEW f \in Facts, NEW g \in Facts, NEW r \in m[f], NEW s \in m[g],
                 Len(StatementTypes[r.code]) = 1, PeriodOf[f] = PeriodOf[g],
                 r.approved, s.approved, Contributes(r), Contributes(s),
                 r.code = s.code, <<f, r>> # <<g, s>>
          PROVE  r.type = "aggregate" /\ s.type = "aggregate"
    BY <1>0 DEF ApprovedMappingsDoNotOverlap
  <1>3. CASE m[f] = mapping[f] /\ m[g] = mapping[g]
    <2>1. r \in mapping[f] /\ s \in mapping[g] /\ r.code \in Codes
      BY <1>0, <1>3 DEF Mapping
    <2>2. QED
      BY <1>2, <2>1 DEF ApprovedMappingsDoNotOverlap
  <1>4. CASE ~DoubleCounted(mapping, f) /\ m[f] = {Approve(q) : q \in mapping[f]}
    <2>1. PICK q \in mapping[f] : r = Approve(q)
      BY <1>4
    <2>2. PICK t \in mapping[g] :
             (s = t \/ s = Approve(t)) /\ (f = g => s = Approve(t))
      <3>1. CASE f = g
        BY <1>4, <3>1
      <3>2. CASE f # g
        BY <1>2, <3>2
      <3>3. QED
        BY <3>1, <3>2
    <2>3. <<f, q>> # <<g, t>>
      BY <1>2, <2>1, <2>2
    <2>4. q \in Mapping /\ t \in Mapping
      BY <1>0
    <2>5. /\ q.code = r.code /\ q.type = r.type /\ Contributes(q)
          /\ t.code = s.code /\ t.type = s.type /\ Contributes(t)
      BY <1>1, <1>2, <2>1, <2>2, <2>4
    <2>6. q.type = "aggregate" /\ t.type = "aggregate"
      BY <1>2, <1>4, <2>3, <2>5, NotDoubleCounted
    <2>7. QED
      BY <2>5, <2>6
  <1>5. CASE ~DoubleCounted(mapping, g) /\ m[g] = {Approve(q) : q \in mapping[g]}
    <2>1. PICK q \in mapping[g] : s = Approve(q)
      BY <1>5
    <2>2. PICK t \in mapping[f] :
             (r = t \/ r = Approve(t)) /\ (f = g => r = Approve(t))
      <3>1. CASE f = g
        BY <1>5, <3>1
      <3>2. CASE f # g
        BY <1>2, <3>2
      <3>3. QED
        BY <3>1, <3>2
    <2>3. <<g, q>> # <<f, t>>
      BY <1>2, <2>1, <2>2
    <2>4. q \in Mapping /\ t \in Mapping
      BY <1>0
    <2>5. /\ q.code = s.code /\ q.type = s.type /\ Contributes(q)
          /\ t.code = r.code /\ t.type = r.type /\ Contributes(t)
      BY <1>1, <1>2, <2>1, <2>2, <2>4
    <2>6. q.type = "aggregate" /\ t.type = "aggregate"
      BY <1>2, <1>5, <2>3, <2>5, NotDoubleCounted
    <2>7. QED
      BY <2>5, <2>6
  <1>6. QED
    BY <1>2, <1>3, <1>4, <1>5

\* In whatever order facts are mapped, remapped, split, combined and approved,
\* two approved figures of one single-statement line are a declared aggregate.
THEOREM NoOverlap == Spec => []ApprovedMappingsDoNotOverlap
  <1>1. Init => TypeOK /\ ApprovedMappingsDoNotOverlap
    BY InitType DEF Init, ApprovedMappingsDoNotOverlap
  <1>2. TypeOK /\ ApprovedMappingsDoNotOverlap /\ [Next]_vars
          => ApprovedMappingsDoNotOverlap'
    <2> SUFFICES ASSUME TypeOK, ApprovedMappingsDoNotOverlap, [Next]_vars
                 PROVE  ApprovedMappingsDoNotOverlap'
      OBVIOUS
    <2>1. CASE ReviewMappings
      BY <2>1, MappingSteps, CommitOverlap
    <2>2. CASE ~ReviewMappings
      BY <2>2, OnlyMappingsMap DEF ApprovedMappingsDoNotOverlap
    <2>3. QED
      BY <2>1, <2>2
  <1>3. QED
    BY <1>1, <1>2, TypeCorrect, PTL DEF Spec

-----------------------------------------------------------------------------
(* Approvals: what a mapping step may do to the mappings of one fact is one *)
(* of three things, and only one of them approves.                          *)

\* An approval is of a mapping that stood before the request that gave it.
THEOREM ApprovalsAreOfStandingMappings == Spec => ApprovalIsOfAStandingMapping
  <1> DEFINE Stood(f) ==
        \A r \in mapping'[f] : r.approved => \E s \in mapping[f] : r \in {s, Approve(s)}
  <1>1. TypeOK /\ [Next]_vars => \A f \in Facts : Stood(f)
    <2> SUFFICES ASSUME TypeOK, [Next]_vars, NEW f \in Facts PROVE Stood(f)
      OBVIOUS
    <2>1. CASE ReviewMappings
      BY <2>1, MappingSteps DEF Commit
    <2>2. CASE ~ReviewMappings
      BY <2>2, OnlyMappingsMap
    <2>3. QED
      BY <2>1, <2>2
  <1>2. QED
    BY <1>1, TypeCorrect, PTL DEF Spec, ApprovalIsOfAStandingMapping

\* An approved fact is not split over a line and a total that contains it.
THEOREM ApprovedIsNotNested == Spec => []ApprovedFactNotNested
  <1>1. Init => ApprovedFactNotNested
    BY DEF Init, ApprovedFactNotNested, IsApproved
  <1>2. TypeOK /\ ApprovedFactNotNested /\ [Next]_vars => ApprovedFactNotNested'
    <2> SUFFICES ASSUME TypeOK, ApprovedFactNotNested, [Next]_vars,
                        NEW f \in Facts, IsApproved(mapping, f)'
                 PROVE  ~NestedMapping(mapping, f)'
      BY DEF ApprovedFactNotNested
    <2>1. ASSUME mapping'[f] = mapping[f]
          PROVE  ~NestedMapping(mapping, f)'
      BY <2>1 DEF ApprovedFactNotNested, IsApproved, NestedMapping
    <2>2. CASE ReviewMappings
      <3>1. PICK m \in [Facts -> SUBSET Mapping] :
               /\ \E n : Commit(m, n)
               /\ \/ m[f] = mapping[f]
                  \/ \A r \in m[f] : ~r.approved
                  \/ ~DoubleCounted(mapping, f) /\ m[f] = {Approve(r) : r \in mapping[f]}
        BY <2>2, MappingSteps
      <3>2. mapping' = m
        BY <3>1 DEF Commit
      <3>3. CASE m[f] = mapping[f]
        BY <2>1, <3>2, <3>3
      <3>4. CASE \A r \in m[f] : ~r.approved
        BY <3>2, <3>4 DEF IsApproved
      <3>5. CASE ~DoubleCounted(mapping, f) /\ m[f] = {Approve(r) : r \in mapping[f]}
        <4>1. ~NestedMapping(mapping, f)
          BY <3>5 DEF DoubleCounted
        <4>2. \A r \in mapping[f] : /\ Approve(r).code = r.code
                                    /\ Contributes(Approve(r)) <=> Contributes(r)
          BY DEF TypeOK, Mapping, Approve, Contributes
        <4>3. SUFFICES ASSUME NEW r \in m[f], NEW s \in m[f], r # s, Contributes(r), Contributes(s),
                              r.code = s.code \/ InSumRelationship(r.code, s.code)
                       PROVE  FALSE
          BY <3>2 DEF NestedMapping
        <4>4. PICK q \in mapping[f], t \in mapping[f] : r = Approve(q) /\ s = Approve(t)
          BY <3>5, <4>3
        <4>5. q # t /\ q.code = r.code /\ t.code = s.code /\ Contributes(q) /\ Contributes(t)
          BY <4>2, <4>3, <4>4
        <4>6. q.code = t.code \/ InSumRelationship(q.code, t.code)
          BY <4>3, <4>5
        <4>7. QED
          BY <4>1, <4>5, <4>6 DEF NestedMapping
      <3>6. QED
        BY <3>1, <3>3, <3>4, <3>5
    <2>3. CASE ~ReviewMappings
      BY <2>1, <2>3, OnlyMappingsMap
    <2>4. QED
      BY <2>2, <2>3
  <1>3. QED
    BY <1>1, <1>2, TypeCorrect, PTL DEF Spec

\* A fact rejected in source review gains no figure in the ledger.
THEOREM RejectedStaysOut == Spec => RejectedGainsNoFigure
  <1> DEFINE Out(f) ==
        status[f] = "rejected" /\ mapping'[f] # mapping[f] =>
            \A r \in mapping'[f] : Contributes(r) => \E s \in mapping[f] : r = Approve(s)
  <1>1. TypeOK /\ [Next]_vars => \A f \in Facts : Out(f)
    <2> SUFFICES ASSUME TypeOK, [Next]_vars, NEW f \in Facts PROVE Out(f)
      OBVIOUS
    <2>1. CASE ReviewMappings
      BY <2>1, MappingSteps DEF Commit
    <2>2. CASE ~ReviewMappings
      BY <2>2, OnlyMappingsMap
    <2>3. QED
      BY <2>1, <2>2
  <1>2. QED
    BY <1>1, TypeCorrect, PTL DEF Spec, RejectedGainsNoFigure

-----------------------------------------------------------------------------
(* Verified figures: a verified fact has all its mappings approved, so no   *)
(* mapping step that keeps it verified rewrites them, and its value is      *)
(* pinned by the withdrawal or by the correction.                           *)

\* A fact whose mapping and value stand contributes what it did.
LEMMA SameFootprint ==
    ASSUME NEW f, mapping'[f] = mapping[f], ValueOf(f)' = ValueOf(f)
    PROVE  Footprint(f)' = Footprint(f)
  BY DEF Footprint

\* No figure moves in the ledger while the fact behind it stays verified,
\* except by that fact's own correction.
THEOREM VerifiedFiguresPinned == Spec => VerifiedFigureNeverMovesUnseen
  <1> DEFINE Pinned ==
        \A f \in Facts :
           IsVerified(f) /\ Footprint(f)' # Footprint(f) =>
              \/ ~IsVerified(f)'
              \/ corrected[f]' # corrected[f] /\ status[f]' = "corrected"
  <1>1. UnitsInv /\ [Next]_vars => Pinned
    <2> SUFFICES ASSUME UnitsInv, [Next]_vars, NEW f \in Facts,
                        IsVerified(f), Footprint(f)' # Footprint(f)
                 PROVE  \/ ~IsVerified(f)'
                        \/ corrected'[f] # corrected[f] /\ status'[f] = "corrected"
      OBVIOUS
    <2>t. TypeOK
      BY DEF UnitsInv
    <2>1. CASE ReviewMetadata
      <3>1. PICK md \in [Fields -> [state : {"unconfirmed", "confirmed", "corrected"},
                                    value : FieldValue]] : Revalidate(md)
        BY <2>1, <2>t, MetadataSteps
      <3>2. mapping' = mapping /\ corrected' = corrected
        BY <3>1 DEF Revalidate, mappingVars
      <3>3. CASE status[f] = "corrected"
        BY <3>2, <3>3, SameFootprint DEF ValueOf, UnitsInv, CorrectionsHaveValues
      <3>4. CASE status[f] = "accepted" /\ parsed'[f].value = parsed[f].value
        BY <3>2, <3>4, SameFootprint DEF ValueOf
      <3>5. CASE status[f] = "accepted" /\ parsed'[f].value # parsed[f].value
        <4>1. status'[f] = "unverified"
          BY <3>1, <3>5 DEF Revalidate, Withdrawn, Reread
        <4>2. QED
          BY <4>1 DEF IsVerified, Decided
      <3>6. QED
        BY <3>3, <3>4, <3>5 DEF IsVerified, Decided
    <2>2. CASE ReviewFacts
      <3>1. mapping' = mapping /\ parsed' = parsed
        BY <2>2 DEF ReviewFacts, Accept, Correct, Reject, docVars, mappingVars
      <3>2. corrected'[f] # corrected[f]
        BY <3>1, SameFootprint DEF ValueOf
      <3>3. PICK g \in Facts, x \in CorrectedValues : Correct(g, x)
        BY <2>2, <3>2 DEF ReviewFacts, Accept, Reject
      <3>4. QED
        BY <2>t, <3>2, <3>3 DEF Correct, TypeOK
    <2>3. CASE ReviewMappings
      <3>1. PICK m \in [Facts -> SUBSET Mapping] :
               /\ \E n : Commit(m, n)
               /\ \/ m[f] = mapping[f]
                  \/ \A r \in m[f] : ~r.approved
                  \/ m[f] = {Approve(r) : r \in mapping[f]}
        BY <2>3, <2>t, MappingSteps
      <3>2. mapping' = m /\ ValueOf(f)' = ValueOf(f)
        BY <3>1 DEF Commit, docVars, decisionVars, ValueOf
      <3>3. m[f] # mapping[f]
        BY <3>2, SameFootprint
      <3>4. CASE \A r \in m[f] : ~r.approved
        BY <3>2, <3>4 DEF IsVerified, IsApproved
      <3>5. CASE m[f] = {Approve(r) : r \in mapping[f]}
        <4>1. \A r \in mapping[f] : r \in Mapping /\ r.approved
          BY <2>t DEF TypeOK, IsVerified, IsApproved
        <4>2. \A r \in mapping[f] : Approve(r) = r
          BY <4>1 DEF Approve, Mapping
        <4>3. m[f] = mapping[f]
          BY <3>5, <4>2
        <4>4. QED
          BY <3>3, <4>3
      <3>6. QED
        BY <3>1, <3>3, <3>4, <3>5
    <2>4. CASE UNCHANGED vars
      BY <2>4, SameFootprint DEF vars, docVars, decisionVars, mappingVars, ValueOf
    <2>5. QED
      BY <2>1, <2>2, <2>3, <2>4 DEF Next
  <1>2. QED
    BY <1>1, UnitsInit, UnitsInductive, PTL DEF Spec, VerifiedFigureNeverMovesUnseen

-----------------------------------------------------------------------------
(* Re-parsing *)

\* A re-parse keeps every correction, and changes a decision only by withdrawing
\* an acceptance whose figure it read differently (records._refresh_fact).
THEOREM DecisionsStand == Spec => DecisionsSurviveReparse
  <1> DEFINE Stand ==
        meta' # meta =>
           \A f \in Facts :
              /\ corrected[f]' = corrected[f]
              /\ status[f]' # status[f] =>
                    status[f] = "accepted" /\ parsed[f]'.value # parsed[f].value
  <1>1. TypeOK /\ [Next]_vars => Stand
    <2> SUFFICES ASSUME TypeOK, [Next]_vars, meta' # meta PROVE Stand
      OBVIOUS
    <2>1. ReviewMetadata
      BY MappingSteps
      DEF Next, ReviewFacts, Accept, Correct, Reject, Commit, vars, docVars
    <2>2. PICK md \in [Fields -> [state : {"unconfirmed", "confirmed", "corrected"},
                                  value : FieldValue]] : Revalidate(md)
      BY <2>1, MetadataSteps
    <2>3. QED
      BY <2>2 DEF Revalidate, Withdrawn, Reread, TypeOK
  <1>2. QED
    BY <1>1, TypeCorrect, PTL DEF Spec, DecisionsSurviveReparse

-----------------------------------------------------------------------------
(* Findings: whatever moves, the codes on the facts are those the last      *)
(* mapping step computed, from the values it saw; and a code of the mapping *)
(* stage is resolved only by a decision that had it in front of it.         *)

\* With nothing mapped there is nothing to find.
LEMMA NothingMapped ==
    ASSUME NEW m, NEW v, \A f \in Facts : m[f] = {}
    PROVE  Findings(m, v) = [f \in Facts |-> {}]
  <1>1. Rows(m) = {}
    BY DEF Rows
  <1>2. \A c, y, st : Contributors({}, c, y, st) = {}
    BY DEF Contributors, Line
  <1>3. \A s, y : \A f \in Facts : f \notin SubtotalNames({}, s, y)
    BY <1>2 DEF SubtotalNames
  <1>4. \A y : \A f \in Facts : f \notin LinkageNames({}, y) /\ f \notin RollForwardNames({}, y)
    BY <1>2 DEF LinkageNames, RollForwardNames
  <1>5. \A f \in Facts : ~DoubleCounted(m, f)
    BY DEF DoubleCounted, NestedMapping, UndeclaredAggregate
  <1>6. QED
    BY <1>1, <1>3, <1>4, <1>5, Zenon DEF Findings

FindingsOfTheLastMapping == mappingCodes = Findings(mapping, weighed)

\* The resolved codes of the mapping stage, each judged in some decision.
ResolvedWereJudged ==
    /\ DOMAIN judged = Facts
    /\ \A f \in Facts : \A c \in resolved[f] \cap MappingCodes :
          \E j \in judged[f] : j[1] = c

HistoryInv == TypeOK /\ FindingsOfTheLastMapping /\ ResolvedWereJudged

\* A decision on a fact judges every finding it resolves.
LEMMA JudgedDecision ==
    ASSUME TypeOK, ResolvedWereJudged, NEW f \in Facts, Judge(f), Resolve(f)
    PROVE  ResolvedWereJudged'
  <1> DEFINE seen == {<<c, Footprint(f)'>> : c \in mappingCodes[f]}
  <1>1. judged' = [judged EXCEPT ![f] = judged[f] \cup seen]
    BY DEF Judge
  <1>2. resolved' = [resolved EXCEPT ![f] =
                        resolved[f] \cup (Outstanding(f) \ DocumentLevelCodes)]
    BY DEF Resolve
  <1>3. ASSUME NEW c \in mappingCodes[f]
        PROVE  \E j \in seen : j[1] = c
    <2>1. <<c, Footprint(f)'>> \in seen
      OBVIOUS
    <2>2. QED
      BY <2>1
  <1> HIDE DEF seen
  <1>4. Outstanding(f) \cap MappingCodes \subseteq mappingCodes[f]
    <2>1. reasons[f] \cap MappingCodes = {}
      BY DEF TypeOK, ReasonCodes, ParseCodes, TablePageCodes, DocumentLevelCodes, MappingCodes
    <2>2. QED
      BY <2>1 DEF Outstanding
  <1>5. ASSUME NEW g \in Facts, NEW c \in resolved'[g] \cap MappingCodes
        PROVE  \E j \in judged'[g] : j[1] = c
    <2>1. CASE g = f
      <3>1. c \in resolved[f] \/ c \in mappingCodes[f]
        BY <1>2, <1>4, <2>1 DEF TypeOK
      <3>2. judged'[f] = judged[f] \cup seen
        BY <1>1 DEF ResolvedWereJudged
      <3>3. QED
        BY <1>3, <1>5, <2>1, <3>1, <3>2 DEF ResolvedWereJudged
    <2>2. CASE g # f
      BY <1>1, <1>2, <1>5, <2>2 DEF TypeOK, ResolvedWereJudged
    <2>3. QED
      BY <2>1, <2>2
  <1>6. DOMAIN judged' = Facts
    BY <1>1 DEF ResolvedWereJudged
  <1>7. QED
    BY <1>5, <1>6 DEF ResolvedWereJudged

LEMMA HistoryInvariant == HistorySpec => []HistoryInv
  <1>1. HistoryInit => HistoryInv
    <2> SUFFICES ASSUME HistoryInit PROVE HistoryInv
      OBVIOUS
    <2>1. /\ mapping = [f \in Facts |-> {}] /\ mappingCodes = [f \in Facts |-> {}]
          /\ resolved = [f \in Facts |-> {}] /\ judged = [f \in Facts |-> {}]
      BY DEF HistoryInit, Init
    <2>2. FindingsOfTheLastMapping
      BY <2>1, NothingMapped DEF FindingsOfTheLastMapping
    <2>3. ResolvedWereJudged
      BY <2>1 DEF ResolvedWereJudged
    <2>4. QED
      BY <2>2, <2>3, InitType DEF HistoryInit, HistoryInv
  <1>2. HistoryInv /\ [HistoryNext]_allVars => HistoryInv'
    <2> SUFFICES ASSUME HistoryInv, [HistoryNext]_allVars PROVE HistoryInv'
      OBVIOUS
    <2>0. TypeOK /\ FindingsOfTheLastMapping /\ ResolvedWereJudged
      BY DEF HistoryInv
    <2>1. CASE ReviewMetadata /\ UNCHANGED historyVars
      <3>1. PICK md \in [Fields -> [state : {"unconfirmed", "confirmed", "corrected"},
                                    value : FieldValue]] : Revalidate(md)
        BY <2>0, <2>1, MetadataSteps
      <3>2. TypeOK'
        BY <2>0, <3>1, RevalidateType
      <3>3. UNCHANGED <<mapping, mappingCodes, weighed, judged>>
        BY <2>1, <3>1 DEF Revalidate, mappingVars, historyVars
      <3>4. \A f \in Facts : resolved'[f] \subseteq resolved[f]
        BY <3>1 DEF Revalidate
      <3>5. QED
        BY <2>0, <3>2, <3>3, <3>4 DEF HistoryInv, FindingsOfTheLastMapping, ResolvedWereJudged
    <2>2. ASSUME NEW f \in Facts, Resolve(f), Judge(f), ReviewFacts,
                 UNCHANGED <<mapping, mappingCodes>>
          PROVE  HistoryInv'
      <3>1. TypeOK' /\ ResolvedWereJudged'
        BY <2>0, <2>2, DecisionType, JudgedDecision
      <3>2. FindingsOfTheLastMapping'
        BY <2>0, <2>2 DEF FindingsOfTheLastMapping, Judge
      <3>3. QED
        BY <3>1, <3>2 DEF HistoryInv
    <2>3. CASE \E f \in Facts : Accept(f) /\ Judge(f)
      BY <2>2, <2>3 DEF Accept, ReviewFacts, mappingVars
    <2>4. CASE \E f \in Facts, x \in CorrectedValues : Correct(f, x) /\ Judge(f)
      BY <2>2, <2>4 DEF Correct, ReviewFacts, mappingVars
    <2>5. CASE \E f \in Facts : Reject(f) /\ UNCHANGED historyVars
      <3>1. UNCHANGED <<mapping, mappingCodes, resolved, weighed, judged>>
        BY <2>5 DEF Reject, mappingVars, historyVars
      <3>2. TypeOK'
        BY <2>0, <2>5, DecisionType DEF ReviewFacts
      <3>3. QED
        BY <2>0, <3>1, <3>2 DEF HistoryInv, FindingsOfTheLastMapping, ResolvedWereJudged
    <2>6. CASE ReviewMappings /\ weighed' = Values /\ UNCHANGED judged
      <3>0. PICK m \in [Facts -> SUBSET Mapping] : \E n : Commit(m, n)
        BY <2>0, <2>6, MappingSteps
      <3>1. PICK n : Commit(m, n)
        BY <3>0
      <3>2. TypeOK'
        BY <2>0, <3>1, CommitType
      <3>3. /\ mapping' = m /\ mappingCodes' = Findings(m, Values)
            /\ UNCHANGED resolved
        BY <3>1 DEF Commit, decisionVars
      <3>4. FindingsOfTheLastMapping'
        BY <2>6, <3>3 DEF FindingsOfTheLastMapping
      <3>5. QED
        BY <2>0, <2>6, <3>2, <3>3, <3>4 DEF HistoryInv, ResolvedWereJudged
    <2>7. CASE UNCHANGED allVars
      <3>1. UNCHANGED <<vars, mapping, mappingCodes, resolved, weighed, judged>>
        BY <2>7 DEF allVars, vars, decisionVars, mappingVars, historyVars
      <3>2. TypeOK'
        BY <2>0, <3>1 DEF vars, docVars, decisionVars, mappingVars, TypeOK
      <3>3. QED
        BY <2>0, <3>1, <3>2 DEF HistoryInv, FindingsOfTheLastMapping, ResolvedWereJudged
    <2>8. QED
      BY <2>1, <2>3, <2>4, <2>5, <2>6, <2>7 DEF HistoryNext
  <1>3. QED
    BY <1>1, <1>2, PTL DEF HistorySpec

\* Confirming, accepting and rejecting leave the findings on the facts those of
\* the mapping set in force, until some figure moves (apply_findings).
THEOREM FindingsAreCurrent == HistorySpec => []FindingsCurrentUntilAFigureMoves
  <1>1. HistoryInv => FindingsCurrentUntilAFigureMoves
    BY DEF HistoryInv, FindingsOfTheLastMapping, FindingsCurrentUntilAFigureMoves
  <1>2. QED
    BY <1>1, HistoryInvariant, PTL

\* No fact is verified past a finding that no decision on it had in front of it
\* (review/actions.py, progress.py).
THEOREM FindingsWereJudged == HistorySpec => []VerifiedFindingsWereJudged
  <1>1. HistoryInv => VerifiedFindingsWereJudged
    <2> SUFFICES ASSUME HistoryInv, NEW f \in Facts, IsVerified(f), NEW c \in mappingCodes[f]
                 PROVE  \E j \in judged[f] : j[1] = c
      BY DEF VerifiedFindingsWereJudged
    <2>1. c \in resolved[f] /\ c \in MappingCodes
      BY DEF HistoryInv, TypeOK, IsVerified, Outstanding
    <2>2. QED
      BY <2>1 DEF HistoryInv, ResolvedWereJudged
  <1>2. QED
    BY <1>1, HistoryInvariant, PTL

-----------------------------------------------------------------------------
(* The panel *)

LEMMA WithIs ==
    ASSUME NEW f, NEW g
    PROVE  /\ DOMAIN With(f, g) = DOMAIN f \cup DOMAIN g
           /\ \A c \in DOMAIN f : With(f, g)[c] = f[c]
           /\ \A c \in DOMAIN g \ DOMAIN f : With(f, g)[c] = g[c]
  BY DEF With

\* The clauses each group answers, when the statements build.
LEMMA SourceDomain ==
    ASSUME NEW b
    PROVE  DOMAIN SourceChecks(b) = {"17.1", "17.2", "17.3", "17.4", "17.5", "17.6", "17.7"}
  BY DEF SourceChecks

LEMMA SourceClauses ==
    ASSUME NEW b
    PROVE  /\ SourceChecks(b)["17.2"] = Says(DocumentConfirmed)
           /\ SourceChecks(b)["17.3"] = SkipUnless(~b.refused, "PASS")
           /\ SourceChecks(b)["17.5"] = Says(Verified = Facts /\ Facts # {})
           /\ SourceChecks(b)["17.7"] = Says(\A f \in Facts : ~DoubleCounted(mapping, f))
  BY DEF SourceChecks

LEMMA StatementClauses ==
    ASSUME NEW b, ~b.refused
    PROVE  /\ DOMAIN StatementChecks(b) = {"17.8", "17.9", "17.10", "17.11", "17.12",
                                           "17.13", "17.14", "17.15"}
           /\ StatementChecks(b)["17.9"] = CashReconciles(b)
           /\ StatementChecks(b)["17.10"] = SubtotalsReconcile(b)
  BY DEF StatementChecks

LEMMA ForecastClauses ==
    ASSUME NEW b
    PROVE  DOMAIN ForecastPanel(b) = {"17.16", "17.17", "17.18", "17.19", "17.20", "17.21"}
  BY DEF ForecastPanel

LEMMA ValuationClauses ==
    ASSUME NEW b
    PROVE  /\ DOMAIN ValuationPanel(b) = {"17.22", "17.23", "17.24", "17.25", "17.26"}
           /\ ValuationPanel(b)["17.22"] =
                SkipUnless(~b.refused /\ ValuationBuilds(b), EngineSays["17.22"])
  BY DEF ValuationPanel

\* Nothing blocks a released model, so each clause of it passed.
LEMMA ReleasedPasses ==
    ASSUME NEW b, MayRelease(b), NEW c \in DOMAIN Panel(b) \ NotActionable
    PROVE  Panel(b)[c] = "PASS"
  BY DEF MayRelease, Blocking

\* The gate, clause by clause: what the stages must have answered.
LEMMA GateNeeds ==
    ASSUME NEW b, MayRelease(b)
    PROVE  /\ DocumentConfirmed /\ ~b.refused
           /\ Verified = Facts /\ Facts # {}
           /\ \A f \in Facts : ~DoubleCounted(mapping, f)
           /\ CashReconciles(b) = "PASS" /\ SubtotalsReconcile(b) = "PASS"
           /\ ValuationBuilds(b)
  <1> DEFINE rest3 == With(ValuationPanel(b), NumberChecks(b))
             rest2 == With(ForecastPanel(b), rest3)
             rest1 == With(StatementChecks(b), rest2)
  <1>1. /\ DOMAIN Panel(b) = DOMAIN SourceChecks(b) \cup DOMAIN rest1
        /\ \A c \in DOMAIN SourceChecks(b) : Panel(b)[c] = SourceChecks(b)[c]
        /\ \A c \in DOMAIN rest1 \ DOMAIN SourceChecks(b) : Panel(b)[c] = rest1[c]
    BY WithIs DEF Panel
  <1>2. /\ DOMAIN rest1 = DOMAIN StatementChecks(b) \cup DOMAIN rest2
        /\ \A c \in DOMAIN StatementChecks(b) : rest1[c] = StatementChecks(b)[c]
        /\ \A c \in DOMAIN rest2 \ DOMAIN StatementChecks(b) : rest1[c] = rest2[c]
    BY WithIs
  <1>3. /\ DOMAIN rest2 = DOMAIN ForecastPanel(b) \cup DOMAIN rest3
        /\ \A c \in DOMAIN rest3 \ DOMAIN ForecastPanel(b) : rest2[c] = rest3[c]
    BY WithIs
  <1>4. /\ DOMAIN rest3 = DOMAIN ValuationPanel(b) \cup DOMAIN NumberChecks(b)
        /\ \A c \in DOMAIN ValuationPanel(b) : rest3[c] = ValuationPanel(b)[c]
    BY WithIs
  <1> HIDE DEF rest1, rest2, rest3
  <1>5. /\ Says(DocumentConfirmed) = "PASS" /\ SkipUnless(~b.refused, "PASS") = "PASS"
        /\ Says(Verified = Facts /\ Facts # {}) = "PASS"
        /\ Says(\A f \in Facts : ~DoubleCounted(mapping, f)) = "PASS"
    <2>1. \A c \in {"17.2", "17.3", "17.5", "17.7"} : SourceChecks(b)[c] = "PASS"
      BY <1>1, SourceDomain, ReleasedPasses DEF NotActionable
    <2>2. QED
      BY <2>1, SourceClauses
  <1>6. /\ DocumentConfirmed /\ ~b.refused
        /\ Verified = Facts /\ Facts # {}
        /\ \A f \in Facts : ~DoubleCounted(mapping, f)
    BY <1>5 DEF Says, SkipUnless
  <1>7. /\ Panel(b)["17.9"] = CashReconciles(b) /\ Panel(b)["17.10"] = SubtotalsReconcile(b)
        /\ {"17.9", "17.10"} \subseteq DOMAIN Panel(b) \ NotActionable
    BY <1>1, <1>2, <1>6, SourceDomain, StatementClauses DEF NotActionable
  <1>8. /\ Panel(b)["17.22"] = SkipUnless(~b.refused /\ ValuationBuilds(b), EngineSays["17.22"])
        /\ "17.22" \in DOMAIN Panel(b) \ NotActionable
    <2>1. "17.22" \in DOMAIN rest3 /\ rest3["17.22"] = ValuationPanel(b)["17.22"]
      BY <1>4, ValuationClauses
    <2>2. "17.22" \in DOMAIN rest2 /\ rest2["17.22"] = rest3["17.22"]
      BY <1>3, <2>1, ForecastClauses
    <2>3. "17.22" \in DOMAIN rest1 /\ rest1["17.22"] = rest2["17.22"]
      BY <1>2, <1>6, <2>2, StatementClauses
    <2>4. "17.22" \in DOMAIN Panel(b) /\ Panel(b)["17.22"] = rest1["17.22"]
      <3>1. "17.22" \notin DOMAIN SourceChecks(b)
        BY SourceDomain
      <3>2. QED
        BY <1>1, <2>3, <3>1
    <2>5. QED
      BY <2>1, <2>2, <2>3, <2>4, ValuationClauses DEF NotActionable
  <1>9. QED
    BY <1>6, <1>7, <1>8, ReleasedPasses DEF SkipUnless

-----------------------------------------------------------------------------
(* The gate and the portfolio's ladder *)

\* A model the gate releases is Valuation Ready on the dashboard, with nothing
\* listed as unresolved, in every state.
LEMMA GateClimbsTheLadder == ReleasedMeansValuationReady
  <1> DEFINE b == BuildNow
  <1>1. SUFFICES ASSUME MayRelease(b)
                 PROVE  Standing(b) = "Valuation Ready" /\ UnresolvedNotes(b) = {}
    BY DEF ReleasedMeansValuationReady
  <1> HIDE DEF b
  <1>2. /\ DocumentConfirmed /\ ~b.refused /\ Facts # {}
        /\ Verified = Facts /\ ValuationBuilds(b)
    BY <1>1, GateNeeds
  <1>3. AllDecided /\ \A f \in Facts : Outstanding(f) = {}
    BY <1>2 DEF AllDecided, Verified, IsVerified, Decided
  <1>4. ForecastBuilds(b) /\ MissingInputs = {} /\ Started /\ GateOpen
    BY <1>2 DEF ValuationBuilds, ForecastBuilds
  <1>5. Validated(b) /\ ForecastReady(b) /\ ValuationReady(b)
    BY <1>2, <1>3, <1>4 DEF Reviewed, Validated, ForecastReady, ValuationReady
  <1>6. Standing(b) = "Valuation Ready"
    BY <1>5 DEF Standing
  <1>7. UnresolvedNotes(b) = {}
    BY <1>2, <1>3, <1>4 DEF UnresolvedNotes
  <1>8. QED
    BY <1>6, <1>7

\* diagnostics/release.py against dashboard/standing.py: what the gate releases
\* is on the last rung of the ladder, whatever was decided before or since.
THEOREM ReleasedIsValuationReady == ReleaseSpec => []ReleasedMeansValuationReady
  BY GateClimbsTheLadder, PTL

-----------------------------------------------------------------------------
(* The ledger and the statements built from it *)

\* What is read of a line: the total of what was mapped to it.
LEMMA CellIsLine ==
    ASSUME NEW m, NEW v, NEW verified, NEW st, NEW code, NEW year
    PROVE  Cell(Build(m, v, verified), st, code, year) = LineValue(Rows(m), v, code, year, st)
  <1> DEFINE rows == Rows(m)
             b == Build(m, v, verified)
             at == <<st, code, year>>
             found == {x \in b.cells : x.at = at}
             here == {row \in rows : row.at = at}
  <1>1. ASSUME NEW row \in rows, NEW other \in rows, row.at = other.at
        PROVE  row = other
    <2> DEFINE pairs == UNION {{<<f, r>> : r \in {s \in m[f] : Contributes(s)}} : f \in Facts}
               Mapped(k) == {p \in pairs : Place(p) = k}
    <2>1. rows = {[at |-> k, from |-> Mapped(k)] : k \in {Place(p) : p \in pairs}}
      BY DEF Rows
    <2> HIDE DEF rows, Mapped, pairs
    <2>2. PICK k, l : row = [at |-> k, from |-> Mapped(k)] /\ other = [at |-> l, from |-> Mapped(l)]
      BY <2>1
    <2>3. k = l
      BY <1>1, <2>2
    <2>4. QED
      BY <2>2, <2>3
  <1>2. b.cells = {[at |-> row.at, is |-> Total(row.from, v)] : row \in Figured(rows, v)}
    BY DEF Build
  <1>3. LineValue(rows, v, code, year, st) = Total(UNION {row.from : row \in here}, v)
    BY DEF LineValue, Line
  <1>4. CASE here = {}
    <2>1. UNION {row.from : row \in here} = {}
      BY <1>4
    <2>2. LineValue(rows, v, code, year, st) = NoValue
      BY <1>3, <2>1 DEF Total
    <2>3. found = {}
      BY <1>2, <1>4 DEF Figured
    <2>4. QED
      BY <2>2, <2>3 DEF Cell
  <1>5. ASSUME NEW row \in here
        PROVE  Cell(b, st, code, year) = LineValue(rows, v, code, year, st)
    <2>1. here = {row}
      BY <1>1
    <2>2. UNION {r.from : r \in here} = row.from
      BY <2>1
    <2>3. LineValue(rows, v, code, year, st) = Total(row.from, v)
      BY <1>3, <2>2
    <2>4. CASE Total(row.from, v) = NoValue
      <3>1. found = {}
        BY <1>2, <2>1, <2>4 DEF Figured
      <3>2. QED
        BY <2>3, <2>4, <3>1 DEF Cell
    <2>5. CASE Total(row.from, v) # NoValue
      <3>1. found = {[at |-> at, is |-> Total(row.from, v)]}
        <4>1. [at |-> at, is |-> Total(row.from, v)] \in found
          BY <1>2, <2>1, <2>5 DEF Figured
        <4>2. ASSUME NEW x \in found
              PROVE  x = [at |-> at, is |-> Total(row.from, v)]
          <5>1. PICK other \in Figured(rows, v) : x = [at |-> other.at, is |-> Total(other.from, v)]
            BY <1>2
          <5>2. other = row
            BY <2>1, <5>1 DEF Figured
          <5>3. QED
            BY <2>1, <5>1, <5>2
        <4>3. QED
          BY <4>1, <4>2
      <3>2. Cell(b, st, code, year) = (CHOOSE x \in found : TRUE).is
        BY <3>1 DEF Cell
      <3>3. (CHOOSE x \in found : TRUE) \in found
        BY <3>1
      <3>4. QED
        BY <2>3, <3>1, <3>2, <3>3
    <2>6. QED
      BY <2>4, <2>5
  <1>6. QED
    BY <1>4, <1>5

\* The years of a build are years printed in the filing.
LEMMA YearsArePeriods ==
    ASSUME NEW m, NEW v, NEW verified
    PROVE  Build(m, v, verified).years \subseteq Nat
  <1> DEFINE pairs == UNION {{<<f, r>> : r \in {s \in m[f] : Contributes(s)}} : f \in Facts}
             Mapped(k) == {p \in pairs : Place(p) = k}
  <1>1. Rows(m) = {[at |-> k, from |-> Mapped(k)] : k \in {Place(p) : p \in pairs}}
    BY DEF Rows
  <1>2. \A p \in pairs : p[1] \in Facts
    OBVIOUS
  <1>3. \A p \in pairs : Place(p)[3] \in Nat
    BY <1>2, LedgerAssumption DEF Place
  <1> HIDE DEF pairs, Mapped
  <1>4. \A row \in Rows(m) : row.at[3] \in Nat
    BY <1>1, <1>3
  <1>5. QED
    BY <1>4 DEF Build

\* A line with a figure is a cell, in a year of the build.
LEMMA FigureIsCell ==
    ASSUME NEW m, NEW v, NEW verified, NEW st, NEW code, NEW year,
           LineValue(Rows(m), v, code, year, st) # NoValue
    PROVE  /\ <<st, code, year>> \in {x.at : x \in Build(m, v, verified).cells}
           /\ year \in Build(m, v, verified).years
  <1> DEFINE b == Build(m, v, verified)
  <1>1. Cell(b, st, code, year) # NoValue
    BY CellIsLine
  <1>2. PICK x \in b.cells : x.at = <<st, code, year>>
    BY <1>1 DEF Cell
  <1>3. PICK row \in Rows(m) : x.at = row.at
    BY <1>2 DEF Build, Figured
  <1>4. row.at[3] = year
    BY <1>2, <1>3
  <1>5. year \in b.years
    BY <1>4 DEF Build
  <1>6. QED
    BY <1>2, <1>5

\* The year before, when the filing printed it, is the one rolled from.
LEMMA PriorIsYearBefore ==
    ASSUME NEW b, b.years \subseteq Nat, NEW year \in Nat, year - 1 \in b.years
    PROVE  Prior(b, year) = year - 1
  <1> DEFINE before == {x \in b.years : x < year}
  <1>1. year - 1 \in before /\ \A x \in before : x \in Nat /\ x <= year - 1
    OBVIOUS
  <1>2. \A x \in before : (\A y \in before : x >= y) => x = year - 1
    BY <1>1
  <1>3. Max(before) = year - 1
    BY <1>1, <1>2 DEF Max
  <1>4. QED
    BY <1>3 DEF Prior

\* A check that passes found nothing that fails.
LEMMA PassedFoundNothing ==
    ASSUME NEW checked, NEW failing, Verdict(checked, failing) = "PASS"
    PROVE  failing = {}
  BY DEF Verdict

\* When the statements' cash reconciles, so do the ledger's roll-forwards.
LEMMA CashRollsForward ==
    ASSUME NEW m, NEW v, NEW verified, NEW year \in Periods,
           CashReconciles(Build(m, v, verified)) = "PASS"
    PROVE  ~RollForwardMismatch(Rows(m), v, year)
  <1> DEFINE rows == Rows(m)
             b == Build(m, v, verified)
             opening == LineValue(rows, v, Cash, year - 1, "balance")
             closing == LineValue(rows, v, Cash, year, "balance")
             Flow(c) == LineValue(rows, v, c, year, "cashflow")
             figures == {opening, closing} \cup {Flow(c) : c \in {CFO, CFI, CFF}}
  <1>1. SUFFICES ASSUME NoValue \notin figures
                 PROVE  Close(opening + Flow(CFO) + Flow(CFI) + Flow(CFF), closing)
    BY DEF RollForwardMismatch
  <1>2. year \in Nat
    BY LedgerAssumption DEF Periods
  <1>3. b.years \subseteq Nat
    BY YearsArePeriods
  <1>4. opening # NoValue /\ closing # NoValue
    BY <1>1
  <1>5. year - 1 \in b.years /\ year \in b.years
    BY <1>4, FigureIsCell, Zenon
  <1>6. Prior(b, year) = year - 1
    BY <1>2, <1>3, <1>5, PriorIsYearBefore
  <1>7. /\ Cell(b, "balance", Cash, Prior(b, year)) = opening
        /\ Cell(b, "balance", Cash, year) = closing
        /\ \A c : Cell(b, "cashflow", c, year) = Flow(c)
    BY <1>6, CellIsLine
  <1>8. year \in Later(b)
    BY <1>2, <1>5 DEF Later
  <1> DEFINE Opening(y) == Cell(b, "balance", Cash, Prior(b, y))
             Closing(y) == Cell(b, "balance", Cash, y)
             Moved(c, y) == Cell(b, "cashflow", c, y)
             checked == {y \in Later(b) :
                           NoValue \notin {Opening(y), Closing(y)}
                                            \cup {Moved(c, y) : c \in {CFO, CFI, CFF}}}
             failing == {y \in checked :
                           ~Close(Opening(y) + Moved(CFO, y) + Moved(CFI, y) + Moved(CFF, y),
                                  Closing(y))}
  <1>9. Verdict(checked, failing) = "PASS"
    BY DEF CashReconciles
  <1>10. failing = {}
    BY <1>9, PassedFoundNothing
  <1>11. year \in checked
    BY <1>1, <1>7, <1>8
  <1>12. QED
    BY <1>7, <1>10, <1>11

\* When the statements' subtotals reconcile, so do the ledger's.
LEMMA SubtotalsAddUp ==
    ASSUME NEW m, NEW v, NEW verified, NEW s \in Subtotals, NEW year \in Periods,
           SubtotalsReconcile(Build(m, v, verified)) = "PASS"
    PROVE  ~SubtotalMismatch(Rows(m), v, s, year)
  <1> DEFINE rows == Rows(m)
             b == Build(m, v, verified)
             st == DerivationStatement(s)
             Value(c) == LineValue(rows, v, c, year, st)
             there == {c \in Components(s) : Value(c) # NoValue}
             table == [c \in there |-> Value(c)]
             total == SumOver(table, Plus[s] \cap there) - SumOver(table, Minus[s] \cap there)
             at == <<st, s, year>>
  <1>1. SUFFICES ASSUME Value(s) # NoValue, Components(s) \ there \subseteq Optional, there # {}
                 PROVE  Close(Value(s), total)
    BY DEF SubtotalMismatch
  <1> DEFINE Of(k, c) == Cell(b, k[1], c, k[3])
             present(k) == {c \in Components(k[2]) : Of(k, c) # NoValue}
             figures(k) == [c \in present(k) |-> Of(k, c)]
             derived(k) == SumOver(figures(k), Plus[k[2]] \cap present(k))
                             - SumOver(figures(k), Minus[k[2]] \cap present(k))
             comparable == {k \in {x.at : x \in b.cells} :
                              /\ k[2] \in Subtotals
                              /\ Components(k[2]) \ present(k) \subseteq Optional}
             failing == {k \in comparable : present(k) # {} /\ ~Close(Of(k, k[2]), derived(k))}
  <1>2. Verdict(comparable, failing) = "PASS"
    BY DEF SubtotalsReconcile
  <1>3. failing = {}
    BY <1>2, PassedFoundNothing
  <1>4. \A c : Of(at, c) = Value(c)
    BY CellIsLine
  <1>5. at[2] = s
    OBVIOUS
  <1> HIDE DEF Value, Of, at
  <1>6. present(at) = there
    BY <1>4, <1>5
  <1>7. figures(at) = table
    BY <1>4, <1>6
  <1>8. derived(at) = total
    BY <1>5, <1>6, <1>7
  <1>9. at \in {x.at : x \in b.cells}
    BY <1>1, FigureIsCell DEF Value, at
  <1>10. at \in comparable
    BY <1>1, <1>5, <1>6, <1>9
  <1>11. Close(Of(at, at[2]), derived(at))
    BY <1>1, <1>3, <1>6, <1>10
  <1>12. QED
    BY <1>4, <1>5, <1>8, <1>11

\* What is released reconciles: computed afresh by the rules of the mapping
\* stage, no figure is counted twice, the printed subtotals are the sums of
\* their lines and cash rolls from year to year.
LEMMA GateReconciles == ReleasedFiguresReconcile
  <1>1. SUFFICES ASSUME MayRelease(BuildNow)
                 PROVE  /\ \A f \in Facts : ~DoubleCounted(mapping, f)
                        /\ \A y \in Periods :
                             /\ ~RollForwardMismatch(Rows(mapping), Values, y)
                             /\ \A s \in Subtotals : ~SubtotalMismatch(Rows(mapping), Values, s, y)
    BY DEF ReleasedFiguresReconcile
  <1>2. /\ \A f \in Facts : ~DoubleCounted(mapping, f)
        /\ CashReconciles(BuildNow) = "PASS" /\ SubtotalsReconcile(BuildNow) = "PASS"
    BY <1>1, GateNeeds
  <1>3. QED
    BY <1>2, CashRollsForward, SubtotalsAddUp DEF BuildNow

\* diagnostics/run.py against mapping/checks.py: released figures reconcile by
\* the rules of the mapping stage, computed afresh.
THEOREM ReleasedFiguresDoReconcile == ReleaseSpec => []ReleasedFiguresReconcile
  BY GateReconciles, PTL

-----------------------------------------------------------------------------
(* Exports *)

\* An export that was taken keeps the figures its mapping rows make of the
\* values it read.
ExportsKept ==
    \A e \in taken : \E verified : e.figures = Build(e.version.rows, e.read, verified).cells

\* The cells of a build are those of its rows, whoever verified them.
LEMMA CellsOfRows ==
    ASSUME NEW m, NEW v, NEW verified, NEW others
    PROVE  Build(m, v, verified).cells = Build(m, v, others).cells
  BY DEF Build

LEMMA ExportMade ==
    Export(BuildNow).figures
      = Build(Export(BuildNow).version.rows, Export(BuildNow).read, Verified).cells
  BY DEF Export, BuildNow, ModelVersion, MappingRows

LEMMA ExportsInit == ReleaseInit => ExportsKept
  BY DEF ReleaseInit, ExportsKept

LEMMA ExportsNext == ExportsKept /\ [ReleaseNext]_gateVars => ExportsKept'
  <1> SUFFICES ASSUME ExportsKept, [ReleaseNext]_gateVars
               PROVE  ExportsKept'
    OBVIOUS
  <1>1. CASE TakeExport
    <2>1. taken' = {Export(BuildNow)}
      BY <1>1 DEF TakeExport
    <2>2. QED
      BY <2>1, ExportMade DEF ExportsKept
  <1>2. CASE ReviewOpen
    BY <1>2 DEF ReviewOpen, releaseVars, ExportsKept
  <1>3. CASE AnswerOpen
    BY <1>3 DEF AnswerOpen, PutAnswer, ChangeAnswer, Save, ExportsKept
  <1>4. CASE UNCHANGED gateVars
    BY <1>4 DEF gateVars, releaseVars, ExportsKept
  <1>5. QED
    BY <1>1, <1>2, <1>3, <1>4 DEF ReleaseNext

\* Two exports of the same printed figures with the same version show the same
\* statements, whatever was remapped or approved in between.
THEOREM VersionsTellMappingsApart == ReleaseSpec => []VersionTellsMappingsApart
  <1>1. ExportsKept => VersionTellsMappingsApart
    <2> SUFFICES ASSUME ExportsKept, NEW now \in ExportsNow, NEW e \in taken,
                        e.read = now.read, e.version = now.version
                 PROVE  e.figures = now.figures
      BY DEF VersionTellsMappingsApart
    <2>1. now = Export(BuildNow)
      BY DEF ExportsNow
    <2>2. now.figures = Build(now.version.rows, now.read, Verified).cells
      BY <2>1, ExportMade
    <2>3. PICK verified : e.figures = Build(e.version.rows, e.read, verified).cells
      BY DEF ExportsKept
    <2>4. QED
      BY <2>2, <2>3, CellsOfRows
  <1>2. QED
    BY <1>1, ExportsInit, ExportsNext, PTL DEF ReleaseSpec

==============================================================================
