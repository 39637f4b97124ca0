------------------------------- MODULE Ingest -------------------------------
(***************************************************************************)
(* Ingestion from the command line: src/ingest_pdf.py with the scanner and *)
(* quarantine of security/scanning.py, and extraction/pipeline.py with the *)
(* checks it makes in their order and the job it keeps. What a document is *)
(* made of is a record of what each check sees.                            *)
(***************************************************************************)
EXTENDS Naturals, FiniteSets, Sequences, SequencesExt, FiniteSetsExt

CONSTANTS
    Files,          \* paths a filing is dropped at, all of one name
    Filings,        \* contents; equal bytes are one filing
    Profile,        \* Filings -> what the checks see
    Runs,           \* processes of ingest_pdf.py
    ScannerOn,      \* INGEST_SCAN_COMMAND is set
    MaxUnderWay,    \* processes at once
    MaxFaults,      \* bound on the exceptions explored
    MaxDrops        \* bound on the filings dropped

NoFiling == "none"

PageKinds == {"text_native", "image_only", "mixed", "empty"}

ASSUME IngestAssumption ==
    /\ NoFiling \notin Filings
    /\ ScannerOn \in BOOLEAN
    /\ Profile \in [Filings ->
          [scanner : {"clean", "infected", "errored"}, size : {"zero", "fits", "over"},
           header : BOOLEAN, eof : BOOLEAN, opens : BOOLEAN, locked : BOOLEAN,
           active : BOOLEAN, long : BOOLEAN, pages : SUBSET PageKinds]]

VARIABLES
    inbox,          \* Files -> the filing there, or NoFiling
    quarantined,    \* counter in the name -> the filing moved there
    bytes,          \* filings in the immutable store
    records,        \* filings with a saved record
    run,            \* Runs -> the process
    faults, drops,
    refusedFiles,   \* history: the filings the scanner had refused when moved
    overlapped      \* history: two processes were under way at once

ingestVars == <<inbox, quarantined, bytes, records, run, faults, drops, refusedFiles, overlapped>>

Idle == [step |-> "start", file |-> NoFiling, outcome |-> "", data |-> NoFiling, target |-> 0,
         job |-> <<>>]

IngestInit ==
    /\ inbox = [f \in Files |-> NoFiling]
    /\ quarantined = <<>>
    /\ bytes = {} /\ records = {}
    /\ run = [r \in Runs |-> Idle]
    /\ faults = 0 /\ drops = 0
    /\ refusedFiles = <<>>
    /\ overlapped = FALSE

-----------------------------------------------------------------------------
(***************************************************************************)
(* The job.                                                                *)
(***************************************************************************)
Terminal == {"extracted", "refused", "failed"}

\* Faulty: a refusal over the pages is not a way out of classification.
LegalTransitionsShort ==
    [received |-> {"validating", "refused", "failed"},
     validating |-> {"stored", "refused", "failed"},
     stored |-> {"classifying", "refused", "failed"},
     classifying |-> {"extracting", "failed"},
     extracting |-> {"extracted", "failed"},
     extracted |-> {}, refused |-> {}, failed |-> {}]

LegalTransitions ==
    [received |-> {"validating", "refused", "failed"},
     validating |-> {"stored", "refused", "failed"},
     stored |-> {"classifying", "refused", "failed"},
     classifying |-> {"extracting", "refused", "failed"},
     extracting |-> {"extracted", "refused", "failed"},
     extracted |-> {}, refused |-> {}, failed |-> {}]

\* advance: a state the graph does not lead to raises instead.
Advanced(job, to) == IF to \in LegalTransitions[Last(job)] THEN Append(job, to) ELSE job

-----------------------------------------------------------------------------
(***************************************************************************)
(* What is known of a filing, and the checks in their order.               *)
(***************************************************************************)
ScanOutcome(filing) == IF ScannerOn THEN Profile[filing].scanner ELSE "not scanned"
MayProcess(outcome) == outcome \in {"clean", "not scanned"}

SignatureRefusal(p) ==
    CASE p.size = "zero" -> "NOT_A_PDF"
      [] p.size = "over" -> "FILE_TOO_LARGE"
      [] p.size = "fits" /\ ~p.header -> "NOT_A_PDF"
      [] p.size = "fits" /\ p.header /\ ~p.eof -> "TRUNCATED_PDF"
      [] OTHER -> "none"

\* scan_document: the first finding of it that refuses.
Structure(p) ==
    CASE ~p.opens -> "UNREADABLE_PDF"
      [] p.opens /\ p.locked -> "ENCRYPTED_PDF"
      [] p.opens /\ ~p.locked /\ p.active -> "ACTIVE_CONTENT"
      [] p.opens /\ ~p.locked /\ ~p.active /\ p.long -> "TOO_MANY_PAGES"
      [] OTHER -> "none"

\* Faulty: a file is taken for complete without its last marker.
RefusalBeforeStoreLenient(filing) ==
    LET p == Profile[filing]
    IN  IF p.size # "fits" \/ ~p.header THEN "NOT_A_PDF"
        ELSE IF filing \in records THEN "DUPLICATE_DOCUMENT"
        ELSE Structure(p)

\* Signature, duplicate, structure, in that order: the first that refuses.
RefusalBeforeStore(filing) ==
    LET p == Profile[filing]
    IN  IF SignatureRefusal(p) # "none" THEN SignatureRefusal(p)
        ELSE IF filing \in records THEN "DUPLICATE_DOCUMENT"
        ELSE Structure(p)

\* classify_pages: any page that is an image and nothing else stops it.
PageRefusal(filing) ==
    LET pages == Profile[filing].pages
    IN  IF pages \cap {"text_native", "mixed"} = {} THEN "NO_TEXT_LAYER"
        ELSE IF "image_only" \in pages THEN "IMAGE_ONLY_PAGE"
        ELSE "none"

-----------------------------------------------------------------------------
Ended == {"start", "done"}
UnderWay == {r \in Runs : run[r].step \notin Ended}

Goto(r, step) == run' = [run EXCEPT ![r] = [@ EXCEPT !.step = step]]

EndWith(r, state) == run' = [run EXCEPT ![r] = [@ EXCEPT !.step = "done", !.job = Advanced(run[r].job, state)]]

\* A person drops a filing, or a newer one over it.
Drop(f, filing) ==
    /\ drops < MaxDrops
    /\ inbox' = [inbox EXCEPT ![f] = filing]
    /\ drops' = drops + 1
    /\ UNCHANGED <<quarantined, bytes, records, run, faults, refusedFiles, overlapped>>

\* The scanner runs over the path before anything parses.
Scan(r, f) ==
    /\ run[r].step = "start"
    /\ Cardinality(UnderWay) < MaxUnderWay
    /\ inbox[f] # NoFiling
    /\ LET outcome == ScanOutcome(inbox[f])
       IN  run' = [run EXCEPT ![r] =
                     [Idle EXCEPT !.file = f, !.outcome = outcome,
                                  !.step = IF MayProcess(outcome) THEN "read" ELSE "quarantine"]]
    /\ overlapped' = (overlapped \/ UnderWay # {})
    /\ UNCHANGED <<inbox, quarantined, bytes, records, faults, drops, refusedFiles>>

\* Faulty: the first name is taken, whatever is there.
ChooseFirst(r) ==
    /\ run[r].step = "quarantine"
    /\ run' = [run EXCEPT ![r] = [@ EXCEPT !.step = "move", !.target = 1]]
    /\ UNCHANGED <<inbox, quarantined, bytes, records, faults, drops, refusedFiles, overlapped>>

\* A name nothing has yet.
ChooseTarget(r) ==
    /\ run[r].step = "quarantine"
    /\ run' = [run EXCEPT ![r] = [@ EXCEPT !.step = "move", !.target = Len(quarantined) + 1]]
    /\ UNCHANGED <<inbox, quarantined, bytes, records, faults, drops, refusedFiles, overlapped>>

\* The move takes what is at the path by then and replaces what is at the name.
Move(r) ==
    LET f == run[r].file
    IN  /\ run[r].step = "move"
        /\ Goto(r, "done")
        /\ IF inbox[f] = NoFiling
           THEN UNCHANGED <<inbox, quarantined, refusedFiles>>
           ELSE /\ quarantined' = IF run[r].target > Len(quarantined)
                                  THEN Append(quarantined, inbox[f])
                                  ELSE [quarantined EXCEPT ![run[r].target] = inbox[f]]
                /\ inbox' = [inbox EXCEPT ![f] = NoFiling]
                /\ refusedFiles' = Append(refusedFiles, inbox[f])
        /\ UNCHANGED <<bytes, records, faults, drops, overlapped>>

\* The bytes are read after the scan, from the same path.
Read(r) ==
    /\ run[r].step = "read"
    /\ IF inbox[run[r].file] = NoFiling
       THEN Goto(r, "done")
       ELSE run' = [run EXCEPT ![r] = [@ EXCEPT !.data = inbox[run[r].file],
                                                !.step = "validate",
                                                !.job = <<"received", "validating">>]]
    /\ UNCHANGED <<inbox, quarantined, bytes, records, faults, drops, refusedFiles, overlapped>>

Validate(r) ==
    /\ run[r].step = "validate"
    /\ IF RefusalBeforeStore(run[r].data) = "none" THEN Goto(r, "store") ELSE EndWith(r, "refused")
    /\ UNCHANGED <<inbox, quarantined, bytes, records, faults, drops, refusedFiles, overlapped>>

StoreBytes(r) ==
    /\ run[r].step = "store"
    /\ bytes' = bytes \cup {run[r].data}
    /\ run' = [run EXCEPT ![r] = [@ EXCEPT !.step = "classify",
                                           !.job = Advanced(Advanced(run[r].job, "stored"), "classifying")]]
    /\ UNCHANGED <<inbox, quarantined, records, faults, drops, refusedFiles, overlapped>>

Classify(r) ==
    /\ run[r].step = "classify"
    /\ IF PageRefusal(run[r].data) = "none"
       THEN run' = [run EXCEPT ![r] = [@ EXCEPT !.step = "extract", !.job = Advanced(run[r].job, "extracting")]]
       ELSE EndWith(r, "refused")
    /\ UNCHANGED <<inbox, quarantined, bytes, records, faults, drops, refusedFiles, overlapped>>

Extract(r) ==
    /\ run[r].step = "extract"
    /\ run' = [run EXCEPT ![r] = [@ EXCEPT !.step = "save", !.job = Advanced(run[r].job, "extracted")]]
    /\ UNCHANGED <<inbox, quarantined, bytes, records, faults, drops, refusedFiles, overlapped>>

Save(r) ==
    /\ run[r].step = "save"
    /\ records' = records \cup {run[r].data}
    /\ Goto(r, "done")
    /\ UNCHANGED <<inbox, quarantined, bytes, faults, drops, refusedFiles, overlapped>>

\* Anything that raises inside the pipeline: the job is advanced to FAILED.
Fault(r) ==
    /\ faults < MaxFaults
    /\ run[r].step \in {"validate", "store", "classify", "extract"}
    /\ EndWith(r, "failed")
    /\ faults' = faults + 1
    /\ UNCHANGED <<inbox, quarantined, bytes, records, drops, refusedFiles, overlapped>>

RunStep(r) ==
    \/ ChooseTarget(r) \/ Move(r)
    \/ Read(r) \/ Validate(r) \/ StoreBytes(r) \/ Classify(r) \/ Extract(r) \/ Save(r) \/ Fault(r)

IngestNext ==
    \/ \E f \in Files, filing \in Filings : Drop(f, filing)
    \/ \E r \in Runs : RunStep(r) \/ \E f \in Files : Scan(r, f)

\* A process that has begun goes on.
IngestFairness == \A r \in Runs : WF_ingestVars(RunStep(r))

-----------------------------------------------------------------------------
(***************************************************************************)
(* Properties.                                                             *)
(***************************************************************************)
\* What is in the immutable store is a complete, unlocked, inert PDF within
\* the limits, whichever runs refused, failed or raced; what has a record has
\* its bytes, and no page of it went unread (extraction/pipeline.py; the store
\* is written between the structural scan and the classification of pages).
StoreHoldsCheckedFilings ==
    /\ \A filing \in bytes :
          LET p == Profile[filing]
          IN  /\ p.size = "fits" /\ p.header /\ p.eof
              /\ p.opens /\ ~p.locked /\ ~p.active /\ ~p.long
    /\ \A filing \in records :
          /\ filing \in bytes
          /\ "image_only" \notin Profile[filing].pages

\* A file the scanner refused is set aside and never replaced by the next one
\* of its name, one process at a time (security/scanning.py: "quarantined, not
\* deleted").
QuarantineKeepsEveryFile ==
    ~overlapped => \A filing \in Filings :
        Cardinality({i \in DOMAIN refusedFiles : refusedFiles[i] = filing})
            = Cardinality({i \in DOMAIN quarantined : quarantined[i] = filing})

\* A run ends, and its job in one of the terminal states, by a path of the
\* graph with no way back (extraction/jobs.py).
RunsEndTheirJob ==
    \A r \in Runs : run[r].step = "validate" ~>
        run[r].step = "done" /\ run[r].job # <<>> /\ Last(run[r].job) \in Terminal

-----------------------------------------------------------------------------
(***************************************************************************)
(* What the documentation says and the code does not do.                   *)
(***************************************************************************)
\* "a file that fails is quarantined, not deleted, so the rejection is
\* auditable" (security/scanning.py:8), of two processes at once.
QuarantineKeepsEveryFileOfTwo == Len(refusedFiles) = Len(quarantined)

\* "Scan uploads before processing" (security/scanning.py:3): what is stored is
\* what was scanned.
StoredWasScanned ==
    \A filing \in bytes : MayProcess(ScanOutcome(filing))

=============================================================================
