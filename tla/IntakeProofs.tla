---------------------------- MODULE IntakeProofs ----------------------------
(***************************************************************************)
(* What ingestion guarantees for every set of filings and processes,       *)
(* whatever is dropped over what and wherever a pipeline raises, beside a  *)
(* server that renders pages of what is stored.                            *)
(***************************************************************************)
EXTENDS MCIntake, SequenceTheorems, TLAPS

-----------------------------------------------------------------------------
(* The checks *)

\* What the store is for: a complete, unlocked, inert PDF within the limits.
Sound(filing) ==
    LET p == Profile[filing]
    IN  /\ p.size = "fits" /\ p.header /\ p.eof
        /\ p.opens /\ ~p.locked /\ ~p.active /\ ~p.long

\* The checks before the store leave nothing else through, and the check of
\* the pages leaves no page unread.
LEMMA UnrefusedIsSound ==
    ASSUME NEW filing \in Filings, RefusalBeforeStore(filing) = "none"
    PROVE  Sound(filing)
  <1> DEFINE p == Profile[filing]
  <1>1. /\ p.size \in {"zero", "fits", "over"}
        /\ p.header \in BOOLEAN /\ p.eof \in BOOLEAN /\ p.opens \in BOOLEAN
        /\ p.locked \in BOOLEAN /\ p.active \in BOOLEAN /\ p.long \in BOOLEAN
    BY IngestAssumption
  <1>2. SignatureRefusal(p) = "none" /\ Structure(p) = "none"
    BY DEF RefusalBeforeStore
  <1> HIDE DEF p
  <1>3. p.size = "fits" /\ p.header /\ p.eof
    BY <1>1, <1>2 DEF SignatureRefusal
  <1>4. p.opens /\ ~p.locked /\ ~p.active /\ ~p.long
    BY <1>1, <1>2 DEF Structure
  <1>5. QED
    BY <1>3, <1>4 DEF Sound, p

LEMMA UnrefusedPagesAreRead ==
    ASSUME NEW filing, PageRefusal(filing) = "none"
    PROVE  "image_only" \notin Profile[filing].pages
  BY DEF PageRefusal

-----------------------------------------------------------------------------
(* The job *)

JobStates == {"received", "validating", "stored", "classifying", "extracting", "extracted",
              "refused", "failed"}

\* A job that stands at a state.
Jobs == Seq(JobStates)
At(job, state) == job # << >> /\ job[Len(job)] = state

\* advance goes where the graph leads.
LEMMA AdvancedAlongGraph ==
    ASSUME NEW job \in Jobs, NEW from \in JobStates, At(job, from),
           NEW to \in LegalTransitions[from]
    PROVE  Advanced(job, to) \in Jobs /\ At(Advanced(job, to), to)
  <1>1. to \in JobStates
    BY DEF LegalTransitions, JobStates
  <1>2. Last(job) = from
    BY DEF At, Last
  <1>3. Advanced(job, to) = Append(job, to)
    BY <1>2 DEF Advanced
  <1>4. /\ Append(job, to) \in Jobs /\ Append(job, to) # << >>
        /\ Len(Append(job, to)) = Len(job) + 1 /\ Append(job, to)[Len(job) + 1] = to
    BY <1>1, AppendProperties DEF Jobs
  <1>5. QED
    BY <1>3, <1>4 DEF At

-----------------------------------------------------------------------------
(* The invariant *)

Steps == {"start", "quarantine", "move", "read", "validate", "store", "classify", "extract",
          "save", "done"}

\* Where the job stands at each step of the pipeline.
StateAt == [validate |-> "validating", store |-> "validating", classify |-> "classifying",
            extract |-> "extracting", save |-> "extracted"]
InPipeline == {"validate", "store", "classify", "extract", "save"}

RunRecords == [step : Steps, file : Files \cup {NoFiling},
               outcome : {"", "clean", "infected", "errored", "not scanned"},
               data : Filings \cup {NoFiling}, target : Nat, job : Jobs]

\* What a process relies on at its step: past validation its filing is sound,
\* past the store it is stored, past classification every page of it is read.
RunOK(x, stored) ==
    /\ x \in RunRecords
    /\ x.step # "start" => x.file \in Files
    /\ x.step \in InPipeline => x.data \in Filings /\ At(x.job, StateAt[x.step])
    /\ x.step = "store" => Sound(x.data)
    /\ x.step \in {"classify", "extract", "save"} => x.data \in stored
    /\ x.step \in {"extract", "save"} => PageRefusal(x.data) = "none"
    /\ x.step \notin InPipeline => x.job = << >> \/ \E state \in Terminal : At(x.job, state)

IngestInv ==
    /\ inbox \in [Files -> Filings \cup {NoFiling}]
    /\ quarantined \in Seq(Filings) /\ refusedFiles \in Seq(Filings)
    /\ overlapped \in BOOLEAN
    /\ bytes \subseteq Filings /\ records \subseteq bytes
    /\ \A filing \in bytes : Sound(filing)
    /\ \A filing \in records : PageRefusal(filing) = "none"
    /\ run \in [Runs -> RunRecords]
    /\ \A r \in Runs : RunOK(run[r], bytes)

LEMMA InitIngest == IngestInit => IngestInv
  <1> SUFFICES ASSUME IngestInit PROVE IngestInv
    OBVIOUS
  <1>1. << >> \in Jobs
    BY EmptySeq DEF Jobs
  <1>2. RunOK(Idle, {})
    BY <1>1 DEF RunOK, RunRecords, Idle, Steps, InPipeline
  <1>3. << >> \in Seq(Filings)
    BY EmptySeq
  <1>4. QED
    BY <1>2, <1>3 DEF IngestInit, IngestInv, RunOK

\* One process moves on and the store only grows.
LEMMA OneRunMoves ==
    ASSUME IngestInv, NEW r \in Runs, NEW x, run' = [run EXCEPT ![r] = x],
           bytes \subseteq bytes', RunOK(x, bytes')
    PROVE  run' \in [Runs -> RunRecords] /\ \A s \in Runs : RunOK(run'[s], bytes')
  <1>1. run' \in [Runs -> RunRecords]
    BY DEF IngestInv, RunOK
  <1>2. ASSUME NEW s \in Runs PROVE RunOK(run'[s], bytes')
    <2>1. CASE s = r
      BY <2>1 DEF IngestInv
    <2>2. CASE s # r
      <3>1. run'[s] = run[s] /\ RunOK(run[s], bytes)
        BY <2>2 DEF IngestInv
      <3>2. QED
        BY <3>1 DEF RunOK
    <2>3. QED
      BY <2>1, <2>2
  <1>3. QED
    BY <1>1, <1>2

\* A run that ends ends its job, if it has one, in a terminal state.
LEMMA EndingRun ==
    ASSUME IngestInv, NEW r \in Runs, NEW state \in Terminal, run[r].step \in InPipeline,
           state \in LegalTransitions[StateAt[run[r].step]], NEW stored
    PROVE  RunOK([run[r] EXCEPT !.step = "done", !.job = Advanced(run[r].job, state)], stored)
  <1> DEFINE x == run[r]
  <1>1. x \in RunRecords /\ x.file \in Files /\ At(x.job, StateAt[x.step])
    BY DEF IngestInv, RunOK, InPipeline
  <1>2. StateAt[x.step] \in JobStates
    BY DEF StateAt, JobStates, InPipeline
  <1>3. Advanced(x.job, state) \in Jobs /\ At(Advanced(x.job, state), state)
    BY <1>1, <1>2, AdvancedAlongGraph DEF RunRecords
  <1> HIDE DEF x
  <1>4. RunOK([x EXCEPT !.step = "done", !.job = Advanced(x.job, state)], stored)
    BY <1>1, <1>3 DEF RunOK, RunRecords, Steps, InPipeline
  <1>5. QED
    BY <1>4 DEF x

\* Each step of a process, with what it becomes.
LEMMA RunStepKeeps ==
    ASSUME IngestInv, NEW r \in Runs, RunStep(r)
    PROVE  IngestInv'
  <1> DEFINE x == run[r]
             Moved(y) == run' = [run EXCEPT ![r] = y] /\ RunOK(y, bytes')
  <1>1. /\ x \in RunRecords /\ RunOK(x, bytes) /\ x.job \in Jobs /\ x.step \in Steps
        /\ x.step = "validate" => x.data \in Filings /\ At(x.job, "validating")
        /\ x.step = "store" => x.data \in Filings /\ At(x.job, "validating") /\ Sound(x.data)
        /\ x.step = "classify" => x.data \in Filings /\ At(x.job, "classifying") /\ x.data \in bytes
        /\ x.step = "extract" => x.data \in Filings /\ At(x.job, "extracting") /\ x.data \in bytes
        /\ x.step = "save" => x.data \in Filings /\ At(x.job, "extracted") /\ x.data \in bytes
        /\ x.step \in {"extract", "save"} => PageRefusal(x.data) = "none"
    <2>1. x \in RunRecords /\ RunOK(x, bytes)
      BY DEF IngestInv
    <2>2. x.job \in Jobs /\ x.step \in Steps
      BY <2>1 DEF RunRecords
    <2>3. x.step \in InPipeline => x.data \in Filings /\ At(x.job, StateAt[x.step])
      BY <2>1 DEF RunOK
    <2>4. /\ x.step = "store" => Sound(x.data)
          /\ x.step \in {"classify", "extract", "save"} => x.data \in bytes
          /\ x.step \in {"extract", "save"} => PageRefusal(x.data) = "none"
      BY <2>1 DEF RunOK
    <2> HIDE DEF x
    <2>5. QED
      BY <2>1, <2>2, <2>3, <2>4 DEF InPipeline, StateAt
  <1>2. /\ inbox \in [Files -> Filings \cup {NoFiling}]
        /\ bytes \subseteq Filings /\ records \subseteq bytes
        /\ \A filing \in bytes : Sound(filing)
        /\ \A filing \in records : PageRefusal(filing) = "none"
    BY DEF IngestInv
  <1>3. ASSUME NEW y, Moved(y),
               UNCHANGED <<inbox, quarantined, refusedFiles, bytes, records, overlapped>>
        PROVE  IngestInv'
    BY <1>3, OneRunMoves DEF IngestInv
  <1>4. CASE ChooseTarget(r)
    <2> DEFINE y == [x EXCEPT !.step = "move", !.target = Len(quarantined) + 1]
    <2>1. Len(quarantined) + 1 \in Nat
      BY LenProperties DEF IngestInv
    <2>2. RunOK(y, bytes')
      BY <1>1, <1>4, <2>1 DEF ChooseTarget, RunOK, RunRecords, Steps, InPipeline
    <2>3. run' = [run EXCEPT ![r] = y]
      BY <1>4 DEF ChooseTarget
    <2> HIDE DEF y
    <2>4. QED
      BY <1>3, <1>4, <2>2, <2>3 DEF ChooseTarget
  <1>5. CASE Move(r)
    <2> DEFINE f == x.file
               y == [x EXCEPT !.step = "done"]
    <2>1. x.step = "move" /\ f \in Files /\ UNCHANGED <<bytes, records, overlapped>>
      BY <1>1, <1>5 DEF Move, RunOK
    <2>2. run' = [run EXCEPT ![r] = y] /\ RunOK(y, bytes')
      BY <1>1, <1>5, <2>1 DEF Move, Goto, RunOK, RunRecords, Steps, InPipeline
    <2> HIDE DEF y
    <2>3. CASE inbox[f] = NoFiling
      BY <1>3, <1>5, <2>1, <2>2, <2>3 DEF Move
    <2>4. CASE inbox[f] # NoFiling
      <3>1. inbox[f] \in Filings
        BY <1>2, <2>1, <2>4
      <3>2. /\ refusedFiles' = Append(refusedFiles, inbox[f])
            /\ inbox' = [inbox EXCEPT ![f] = NoFiling]
            /\ quarantined' = IF x.target > Len(quarantined)
                              THEN Append(quarantined, inbox[f])
                              ELSE [quarantined EXCEPT ![x.target] = inbox[f]]
        BY <1>5, <2>4 DEF Move
      <3>3. quarantined \in Seq(Filings) /\ refusedFiles \in Seq(Filings)
        BY DEF IngestInv
      <3>4. Append(quarantined, inbox[f]) \in Seq(Filings) /\ refusedFiles' \in Seq(Filings)
        BY <3>1, <3>2, <3>3, AppendProperties
      <3>5. [quarantined EXCEPT ![x.target] = inbox[f]] \in Seq(Filings)
        <4>1. quarantined \in [1 .. Len(quarantined) -> Filings] /\ Len(quarantined) \in Nat
          BY <3>3, LenProperties
        <4>2. [quarantined EXCEPT ![x.target] = inbox[f]] \in [1 .. Len(quarantined) -> Filings]
          BY <3>1, <4>1
        <4>3. QED
          BY <4>1, <4>2, SeqDef
      <3>6. inbox' \in [Files -> Filings \cup {NoFiling}]
        BY <1>2, <2>1, <3>2
      <3>7. run' \in [Runs -> RunRecords] /\ \A s \in Runs : RunOK(run'[s], bytes')
        BY <2>1, <2>2, OneRunMoves
      <3>8. QED
        BY <1>2, <2>1, <3>2, <3>4, <3>5, <3>6, <3>7 DEF IngestInv
    <2>5. QED
      BY <2>3, <2>4
  <1>6. CASE Read(r)
    <2>1. x.step = "read" /\ x.file \in Files /\ UNCHANGED <<inbox, quarantined, refusedFiles, bytes, records, overlapped>>
      BY <1>1, <1>6 DEF Read, RunOK
    <2>2. CASE inbox[x.file] = NoFiling
      <3>1. run' = [run EXCEPT ![r] = [x EXCEPT !.step = "done"]]
        BY <1>6, <2>2 DEF Read, Goto
      <3>2. RunOK([x EXCEPT !.step = "done"], bytes')
        BY <1>1, <2>1 DEF RunOK, RunRecords, Steps, InPipeline
      <3>3. QED
        BY <1>3, <2>1, <3>1, <3>2
    <2>3. CASE inbox[x.file] # NoFiling
      <3> DEFINE job == <<"received", "validating">>
      <3>1. run' = [run EXCEPT ![r] = [x EXCEPT !.data = inbox[x.file], !.step = "validate", !.job = job]]
        BY <1>6, <2>3 DEF Read
      <3>2. inbox[x.file] \in Filings
        BY <1>2, <2>1, <2>3
      <3>3. job \in Jobs /\ At(job, "validating")
        BY DEF Jobs, JobStates, At
      <3> HIDE DEF job
      <3>4. RunOK([x EXCEPT !.data = inbox[x.file], !.step = "validate", !.job = job], bytes')
        BY <1>1, <2>1, <3>2, <3>3 DEF RunOK, RunRecords, Steps, InPipeline, StateAt
      <3>5. QED
        BY <1>3, <2>1, <3>1, <3>4
    <2>4. QED
      BY <2>2, <2>3
  <1>7. CASE Validate(r)
    <2>1. x.step = "validate" /\ x.data \in Filings /\ UNCHANGED <<inbox, quarantined, refusedFiles, bytes, records, overlapped>>
      BY <1>1, <1>7 DEF Validate, RunOK, InPipeline
    <2>2. CASE RefusalBeforeStore(x.data) = "none"
      <3>1. run' = [run EXCEPT ![r] = [x EXCEPT !.step = "store"]]
        BY <1>7, <2>2 DEF Validate, Goto
      <3>2. RunOK([x EXCEPT !.step = "store"], bytes')
        BY <1>1, <2>1, <2>2, UnrefusedIsSound DEF RunOK, RunRecords, Steps, InPipeline, StateAt
      <3>3. QED
        BY <1>3, <2>1, <3>1, <3>2
    <2>3. CASE RefusalBeforeStore(x.data) # "none"
      <3>1. run' = [run EXCEPT ![r] = [x EXCEPT !.step = "done", !.job = Advanced(x.job, "refused")]]
        BY <1>7, <2>3 DEF Validate, EndWith
      <3>2. "refused" \in Terminal /\ "refused" \in LegalTransitions[StateAt[x.step]] /\ x.step \in InPipeline
        BY <2>1 DEF Terminal, LegalTransitions, StateAt, InPipeline
      <3>3. QED
        BY <1>3, <2>1, <3>1, <3>2, EndingRun
    <2>4. QED
      BY <2>2, <2>3
  <1>8. CASE StoreBytes(r)
    <2> DEFINE job == Advanced(Advanced(x.job, "stored"), "classifying")
               y == [x EXCEPT !.step = "classify", !.job = job]
    <2>1. /\ x.step = "store" /\ x.data \in Filings /\ At(x.job, "validating") /\ Sound(x.data)
          /\ x.job \in Jobs
      BY <1>1, <1>8 DEF StoreBytes, RunOK, InPipeline, StateAt, RunRecords
    <2>2. bytes' = bytes \cup {x.data} /\ UNCHANGED <<inbox, quarantined, refusedFiles, records, overlapped>>
      BY <1>8 DEF StoreBytes
    <2>3. run' = [run EXCEPT ![r] = y]
      BY <1>8 DEF StoreBytes
    <2>4. job \in Jobs /\ At(job, "classifying")
      <3>1. "stored" \in LegalTransitions["validating"] /\ "classifying" \in LegalTransitions["stored"]
        BY DEF LegalTransitions
      <3>2. "validating" \in JobStates /\ "stored" \in JobStates
        BY DEF JobStates
      <3>3. Advanced(x.job, "stored") \in Jobs /\ At(Advanced(x.job, "stored"), "stored")
        BY <2>1, <3>1, <3>2, AdvancedAlongGraph
      <3>4. QED
        BY <3>1, <3>2, <3>3, AdvancedAlongGraph
    <2> HIDE DEF job
    <2>5. RunOK(y, bytes')
      BY <1>1, <2>1, <2>2, <2>4 DEF RunOK, RunRecords, Steps, InPipeline, StateAt
    <2> HIDE DEF y
    <2>6. run' \in [Runs -> RunRecords] /\ \A s \in Runs : RunOK(run'[s], bytes')
      BY <2>2, <2>3, <2>5, OneRunMoves
    <2>7. QED
      BY <1>2, <2>1, <2>2, <2>6 DEF IngestInv
  <1>9. CASE Classify(r)
    <2>1. /\ x.step = "classify" /\ x.data \in bytes /\ x.data \in Filings
          /\ At(x.job, "classifying") /\ x.job \in Jobs
          /\ UNCHANGED <<inbox, quarantined, refusedFiles, bytes, records, overlapped>>
      BY <1>1, <1>9 DEF Classify, RunOK, InPipeline, StateAt, RunRecords
    <2>2. CASE PageRefusal(x.data) = "none"
      <3> DEFINE job == Advanced(x.job, "extracting")
      <3>1. run' = [run EXCEPT ![r] = [x EXCEPT !.step = "extract", !.job = job]]
        BY <1>9, <2>2 DEF Classify
      <3>2. job \in Jobs /\ At(job, "extracting")
        BY <2>1, AdvancedAlongGraph DEF LegalTransitions, JobStates
      <3> HIDE DEF job
      <3>3. RunOK([x EXCEPT !.step = "extract", !.job = job], bytes')
        BY <1>1, <2>1, <2>2, <3>2 DEF RunOK, RunRecords, Steps, InPipeline, StateAt
      <3>4. QED
        BY <1>3, <2>1, <3>1, <3>3
    <2>3. CASE PageRefusal(x.data) # "none"
      <3>1. run' = [run EXCEPT ![r] = [x EXCEPT !.step = "done", !.job = Advanced(x.job, "refused")]]
        BY <1>9, <2>3 DEF Classify, EndWith
      <3>2. "refused" \in Terminal /\ "refused" \in LegalTransitions[StateAt[x.step]] /\ x.step \in InPipeline
        BY <2>1 DEF Terminal, LegalTransitions, StateAt, InPipeline
      <3>3. QED
        BY <1>3, <2>1, <3>1, <3>2, EndingRun
    <2>4. QED
      BY <2>2, <2>3
  <1>10. CASE Extract(r)
    <2> DEFINE job == Advanced(x.job, "extracted")
    <2>1. /\ x.step = "extract" /\ x.data \in bytes /\ x.data \in Filings /\ PageRefusal(x.data) = "none"
          /\ At(x.job, "extracting") /\ x.job \in Jobs
          /\ UNCHANGED <<inbox, quarantined, refusedFiles, bytes, records, overlapped>>
      BY <1>1, <1>10 DEF Extract, RunOK, InPipeline, StateAt, RunRecords
    <2>2. run' = [run EXCEPT ![r] = [x EXCEPT !.step = "save", !.job = job]]
      BY <1>10 DEF Extract
    <2>3. job \in Jobs /\ At(job, "extracted")
      BY <2>1, AdvancedAlongGraph DEF LegalTransitions, JobStates
    <2> HIDE DEF job
    <2>4. RunOK([x EXCEPT !.step = "save", !.job = job], bytes')
      BY <1>1, <2>1, <2>3 DEF RunOK, RunRecords, Steps, InPipeline, StateAt
    <2>5. QED
      BY <1>3, <2>1, <2>2, <2>4
  <1>11. CASE Save(r)
    <2>1. /\ x.step = "save" /\ x.data \in bytes /\ PageRefusal(x.data) = "none" /\ At(x.job, "extracted")
          /\ records' = records \cup {x.data} /\ UNCHANGED <<inbox, quarantined, refusedFiles, bytes, overlapped>>
      BY <1>1, <1>11 DEF Save, RunOK, InPipeline, StateAt
    <2>2. run' = [run EXCEPT ![r] = [x EXCEPT !.step = "done"]]
      BY <1>11 DEF Save, Goto
    <2>3. RunOK([x EXCEPT !.step = "done"], bytes')
      BY <1>1, <2>1 DEF RunOK, RunRecords, Steps, InPipeline, Terminal
    <2>4. run' \in [Runs -> RunRecords] /\ \A s \in Runs : RunOK(run'[s], bytes')
      BY <2>1, <2>2, <2>3, OneRunMoves
    <2>5. QED
      BY <1>2, <2>1, <2>4 DEF IngestInv
  <1>12. CASE Fault(r)
    <2>1. /\ x.step \in {"validate", "store", "classify", "extract"}
          /\ UNCHANGED <<inbox, quarantined, refusedFiles, bytes, records, overlapped>>
          /\ run' = [run EXCEPT ![r] = [x EXCEPT !.step = "done", !.job = Advanced(x.job, "failed")]]
      BY <1>12 DEF Fault, EndWith
    <2>2. "failed" \in Terminal /\ "failed" \in LegalTransitions[StateAt[x.step]] /\ x.step \in InPipeline
      BY <2>1 DEF Terminal, LegalTransitions, StateAt, InPipeline
    <2>3. QED
      BY <1>3, <2>1, <2>2, EndingRun
  <1>13. QED
    BY <1>4, <1>5, <1>6, <1>7, <1>8, <1>9, <1>10, <1>11, <1>12 DEF RunStep

\* A filing dropped, a process begun and the server's own steps.
LEMMA IngestStep ==
    ASSUME IngestInv, [Next]_<<ingestVars, isoVars>>
    PROVE  IngestInv'
  <1>1. ASSUME NEW f \in Files, NEW filing \in Filings, Drop(f, filing)
        PROVE  IngestInv'
    BY <1>1 DEF Drop, IngestInv
  <1>2. ASSUME NEW r \in Runs, NEW f \in Files, Scan(r, f)
        PROVE  IngestInv'
    <2> DEFINE outcome == ScanOutcome(inbox[f])
               y == [Idle EXCEPT !.file = f, !.outcome = outcome,
                                 !.step = IF MayProcess(outcome) THEN "read" ELSE "quarantine"]
    <2>1. /\ run' = [run EXCEPT ![r] = y] /\ overlapped' \in BOOLEAN
          /\ UNCHANGED <<inbox, quarantined, refusedFiles, bytes, records>>
      BY <1>2 DEF Scan, IngestInv
    <2>2. inbox[f] \in Filings
      BY <1>2 DEF Scan, IngestInv
    <2>3. outcome \in {"", "clean", "infected", "errored", "not scanned"}
      BY <2>2, IngestAssumption DEF ScanOutcome
    <2>4. << >> \in Jobs
      BY EmptySeq DEF Jobs
    <2> HIDE DEF outcome
    <2>5. RunOK(y, bytes')
      BY <2>3, <2>4 DEF RunOK, RunRecords, Idle, Steps, InPipeline
    <2> HIDE DEF y
    <2>6. run' \in [Runs -> RunRecords] /\ \A s \in Runs : RunOK(run'[s], bytes')
      BY <2>1, <2>5, OneRunMoves
    <2>7. QED
      BY <2>1, <2>6 DEF IngestInv
  <1>3. UNCHANGED ingestVars => IngestInv'
    BY DEF ingestVars, IngestInv
  <1>4. QED
    BY <1>1, <1>2, <1>3, RunStepKeeps DEF Next, IngestNext

\* One process at a time, what was set aside is there under the next free name.
QuarantineInv ==
    ~overlapped =>
        /\ quarantined = refusedFiles
        /\ \A r, s \in UnderWay : r = s
        /\ \A r \in Runs : run[r].step = "move" => run[r].target = Len(quarantined) + 1

LEMMA QuarantineStep ==
    ASSUME IngestInv, QuarantineInv, [Next]_<<ingestVars, isoVars>>
    PROVE  QuarantineInv'
  <1> SUFFICES ASSUME ~overlapped'
               PROVE  /\ quarantined' = refusedFiles'
                      /\ \A r, s \in UnderWay' : r = s
                      /\ \A r \in Runs : run'[r].step = "move" => run'[r].target = Len(quarantined') + 1
    BY DEF QuarantineInv
  <1>1. ~overlapped
    BY DEF Next, IngestNext, RunStep, Drop, Scan, ChooseTarget, Move, Read, Validate, StoreBytes,
           Classify, Extract, Save, Fault, ingestVars
  <1>2. /\ quarantined = refusedFiles
        /\ \A r, s \in UnderWay : r = s
        /\ \A r \in Runs : run[r].step = "move" => run[r].target = Len(quarantined) + 1
    BY <1>1 DEF QuarantineInv
  <1>3. run \in [Runs -> RunRecords] /\ Len(quarantined) \in Nat
    BY LenProperties DEF IngestInv
  <1>4. CASE UNCHANGED <<run, quarantined, refusedFiles>>
    BY <1>2, <1>4 DEF UnderWay
  <1>5. ASSUME NEW r \in Runs, NEW f \in Files, Scan(r, f)
        PROVE  /\ quarantined' = refusedFiles'
               /\ \A q, s \in UnderWay' : q = s
               /\ \A q \in Runs : run'[q].step = "move" => run'[q].target = Len(quarantined') + 1
    <2>1. UnderWay = {} /\ UNCHANGED <<quarantined, refusedFiles>>
      BY <1>5 DEF Scan
    <2>2. \A q \in Runs : q # r => run'[q] = run[q]
      BY <1>3, <1>5 DEF Scan
    <2>3. run'[r].step # "move"
      BY <1>3, <1>5 DEF Scan, Idle
    <2>4. QED
      BY <1>2, <2>1, <2>2, <2>3 DEF UnderWay
  <1>6. ASSUME NEW r \in Runs, RunStep(r)
        PROVE  /\ quarantined' = refusedFiles'
               /\ \A q, s \in UnderWay' : q = s
               /\ \A q \in Runs : run'[q].step = "move" => run'[q].target = Len(quarantined') + 1
    <2>1. r \in UnderWay
      BY <1>6 DEF UnderWay, Ended, RunStep, ChooseTarget, Move, Read, Validate, StoreBytes,
                  Classify, Extract, Save, Fault
    <2>2. \A q \in Runs : q # r => run'[q] = run[q]
      BY <1>3, <1>6 DEF RunStep, ChooseTarget, Move, Read, Validate, StoreBytes, Classify, Extract,
                        Save, Fault, Goto, EndWith
    <2>3. \A q \in Runs : q # r => run[q].step # "move"
      BY <1>2, <2>1 DEF UnderWay, Ended
    <2>4. \A q, s \in UnderWay' : q = s
      BY <1>2, <2>1, <2>2 DEF UnderWay
    <2>5. run'[r].step = "move" => ChooseTarget(r)
      <3>1. run[r] \in RunRecords
        BY <1>3
      <3>2. \A step \in Steps \ {"move"} : Goto(r, step) => run'[r].step # "move"
        BY <1>3, <3>1 DEF Goto, RunRecords, Steps
      <3>3. \A state : EndWith(r, state) => run'[r].step # "move"
        BY <1>3, <3>1 DEF EndWith, RunRecords
      <3>4. Move(r) \/ Validate(r) \/ Save(r) \/ Fault(r) => run'[r].step # "move"
        BY <3>2, <3>3 DEF Move, Validate, Save, Fault, Steps
      <3>5. Read(r) => run'[r].step # "move"
        BY <1>3, <3>1, <3>2 DEF Read, RunRecords, Steps
      <3>6. StoreBytes(r) \/ Extract(r) => run'[r].step # "move"
        BY <1>3, <3>1 DEF StoreBytes, Extract, RunRecords
      <3>7. Classify(r) => run'[r].step # "move"
        BY <1>3, <3>1, <3>3 DEF Classify, RunRecords
      <3>8. QED
        BY <1>6, <3>4, <3>5, <3>6, <3>7 DEF RunStep
    <2>6. CASE ChooseTarget(r)
      <3>1. run[r] \in RunRecords /\ UNCHANGED <<quarantined, refusedFiles>>
        BY <1>3, <2>6 DEF ChooseTarget
      <3>2. run'[r].target = Len(quarantined) + 1
        BY <1>3, <2>6, <3>1 DEF ChooseTarget, RunRecords
      <3>3. QED
        BY <1>2, <2>2, <2>3, <2>4, <3>1, <3>2
    <2>7. CASE ~ ChooseTarget(r)
      <3>1. quarantined' = refusedFiles'
        <4>1. CASE Move(r) /\ inbox[run[r].file] # NoFiling
          <5>1. run[r].target > Len(quarantined)
            BY <1>2, <1>3, <4>1 DEF Move
          <5>2. QED
            BY <1>2, <4>1, <5>1 DEF Move
        <4>2. CASE ~ (Move(r) /\ inbox[run[r].file] # NoFiling)
          BY <1>2, <1>6, <2>7, <4>2 DEF RunStep, Move, Read, Validate, StoreBytes, Classify, Extract,
                                        Save, Fault
        <4>3. QED
          BY <4>1, <4>2
      <3>2. QED
        BY <2>2, <2>3, <2>4, <2>5, <2>7, <3>1
    <2>8. QED
      BY <2>6, <2>7
  <1>7. QED
    BY <1>4, <1>5, <1>6 DEF Next, IngestNext, Drop, ingestVars

\* What is in the pipe was sent by a child that has computed.
RenderInv ==
    /\ pipe \in {"empty", "part", "whole"} /\ message \in {"none", "ok", "error"}
    /\ answer = "value" => pipe = "whole" /\ message = "ok"
    /\ child = "running" => pipe = "empty"
    /\ message = "none" => pipe = "empty" /\ child # "sending"

LEMMA RenderStep ==
    ASSUME RenderInv, [Next]_<<ingestVars, isoVars>>
    PROVE  RenderInv'
  <1>1. CASE RenderPage
    BY <1>1 DEF RenderPage, Start, RenderInv
  <1>2. CASE ParentStep
    <2>1. CASE Receive
      BY <2>1 DEF Receive, RenderInv
    <2>2. CASE Readable \/ TimeOut \/ Stop \/ Join
      BY <2>2 DEF Readable, TimeOut, Stop, Join, RenderInv
    <2>3. QED
      BY <1>2, <2>1, <2>2 DEF ParentStep
  <1>3. CASE ChildStep
    <2>1. CASE Finish
      BY <2>1 DEF Finish, RenderInv
    <2>2. CASE Send
      BY <2>2 DEF Send, RenderInv
    <2>3. CASE Exit \/ Killed \/ Terminated
      BY <2>3 DEF Exit, Killed, Terminated, RenderInv
    <2>4. QED
      BY <1>3, <2>1, <2>2, <2>3 DEF ChildStep
  <1>4. CASE UNCHANGED isoVars
    BY <1>4 DEF isoVars, RenderInv
  <1>5. QED
    BY <1>1, <1>2, <1>3, <1>4 DEF Next

-----------------------------------------------------------------------------
(* The theorems *)

IntakeInv == IngestInv /\ QuarantineInv /\ RenderInv

LEMMA IntakeInvariant == Spec => []IntakeInv
  <1>1. Init => IntakeInv
    <2> SUFFICES ASSUME Init PROVE IntakeInv
      OBVIOUS
    <2>1. IngestInv
      BY InitIngest DEF Init
    <2>2. QuarantineInv
      BY DEF Init, IngestInit, QuarantineInv, UnderWay, Ended, Idle
    <2>3. RenderInv
      BY DEF Init, IsoInit, RenderInv
    <2>4. QED
      BY <2>1, <2>2, <2>3 DEF IntakeInv
  <1>2. IntakeInv /\ [Next]_<<ingestVars, isoVars>> => IntakeInv'
    BY IngestStep, QuarantineStep, RenderStep DEF IntakeInv
  <1>3. QED
    BY <1>1, <1>2, PTL DEF Spec

\* extraction/pipeline.py: whatever runs refused, failed or raced, what is in
\* the store is a complete, unlocked, inert PDF within the limits, and what has
\* a record is in the store with no page of it unread.
THEOREM StoreIsChecked == Spec => []StoreHoldsCheckedFilings
  <1>1. IntakeInv => StoreHoldsCheckedFilings
    BY UnrefusedPagesAreRead DEF IntakeInv, IngestInv, StoreHoldsCheckedFilings, Sound
  <1>2. QED
    BY <1>1, IntakeInvariant, PTL

\* security/scanning.py: one process at a time, what the scanner refused is set
\* aside and never replaced.
THEOREM NothingRefusedIsLost == Spec => []QuarantineKeepsEveryFile
  <1>1. IntakeInv => QuarantineKeepsEveryFile
    BY DEF IntakeInv, QuarantineInv, QuarantineKeepsEveryFile
  <1>2. QED
    BY <1>1, IntakeInvariant, PTL

\* extraction/jobs.py: a run that is over leaves its job, if it has one, in a
\* state the graph does not lead out of, however it was refused or failed.
JobsEndForGood ==
    \A r \in Runs : run[r].step = "done" =>
        run[r].job = << >> \/ LegalTransitions[Last(run[r].job)] = {}

\* Refused, failed or finished: no job is left in a state it could still leave.
THEOREM NoJobIsLeftOpen == Spec => []JobsEndForGood
  <1>1. IntakeInv => JobsEndForGood
    <2> SUFFICES ASSUME IntakeInv, NEW r \in Runs, run[r].step = "done", run[r].job # << >>
                 PROVE  LegalTransitions[Last(run[r].job)] = {}
      BY DEF JobsEndForGood
    <2>1. \E state \in Terminal : At(run[r].job, state)
      BY DEF IntakeInv, IngestInv, RunOK, InPipeline
    <2>2. Last(run[r].job) \in Terminal
      BY <2>1 DEF At, Last
    <2>3. QED
      BY <2>2 DEF Terminal, LegalTransitions
  <1>2. QED
    BY <1>1, IntakeInvariant, PTL

\* security/sandbox.py: what a page render returns is what its child sent
\* whole, whatever the kernel did to the child meanwhile.
THEOREM RendersAreWhole == Spec => []ValuesWereSent
  <1>1. IntakeInv => ValuesWereSent
    BY DEF IntakeInv, RenderInv, ValuesWereSent
  <1>2. QED
    BY <1>1, IntakeInvariant, PTL

=============================================================================
