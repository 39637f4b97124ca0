----------------------------- MODULE RecordStore -----------------------------
(***************************************************************************)
(* The files under the storage root and the requests that read and write   *)
(* them: persistence/json_store.py, extraction/storage.py,                 *)
(* security/retention.py, api/rendering.py, the check of                   *)
(* extraction/hashing.py and the routes and the command line that call     *)
(* them.  A synchronous route runs in a thread of its own and an ingestion *)
(* in a process of its own, and nothing locks: each step below is one file *)
(* operation.                                                              *)
(*                                                                         *)
(* write_text is an open, which truncates, and a write through that open   *)
(* file: a reader in between sees an empty file, a writer whose file was   *)
(* unlinked in between writes to nobody, and one that lands on a file      *)
(* another wrote meanwhile leaves its own text or, where that text is the  *)
(* shorter, an unreadable mixture.  A record's content is the set of       *)
(* requests whose result it holds: a review request saves everything it    *)
(* loaded, changed by its own decision.                                    *)
(***************************************************************************)
EXTENDS Integers, FiniteSets

CONSTANTS
    Docs,           \* document ids
    Held,           \* those ingested before
    HashOf,         \* Docs -> the SHA-256 of the document's bytes
    CompanyOf,      \* Docs -> the company it was uploaded for
    Reviews,        \* requests of the routes that load, decide and save
    Deletions,      \* requests of delete_document
    Renders,        \* requests of page_image
    Ingestions,     \* runs of ingest_pdf.py
    Linked,         \* those asked to record a linked duplicate, with a reason
    NewDoc,         \* Ingestions -> the document id the run draws
    MaxActive,      \* how many requests the client has under way at once
    MaxFailures,    \* bound: crashes and failed writes explored
    NoDoc,
    Absent, Empty, Torn   \* no file, a truncated one, one that does not parse

Requests == Reviews \cup Deletions \cup Renders \cup Ingestions
Hashes == {HashOf[d] : d \in Docs}
Key(d) == <<CompanyOf[d], HashOf[d]>>
Keys == {Key(d) : d \in Docs}

ASSUME StoreAssumption ==
    /\ Held \subseteq Docs
    /\ DOMAIN HashOf = Docs /\ DOMAIN CompanyOf = Docs
    /\ Reviews \cap (Deletions \cup Renders \cup Ingestions) = {}
    /\ Deletions \cap (Renders \cup Ingestions) = {}
    /\ Renders \cap Ingestions = {}
    /\ Linked \subseteq Ingestions
    /\ NewDoc \in [Ingestions -> Docs \ Held]
    /\ \A p, q \in Ingestions : NewDoc[p] = NewDoc[q] => p = q
    /\ \A d, e \in Held : Key(d) = Key(e) => d = e
    /\ MaxActive \in Nat /\ MaxFailures \in Nat
    /\ NoDoc \notin Docs
    /\ \A S \in SUBSET Requests : S \notin {Absent, Empty, Torn}
    /\ \A i \in [Keys -> Docs \cup {NoDoc}] : i \notin {Empty, Torn}
    /\ Absent # Empty /\ Absent # Torn /\ Empty # Torn

VARIABLES
    record,     \* Docs -> records/<id>.json: its content, Absent, Empty or Torn
    index,      \* records/index.json: <<company, hash>> -> document
    bytes,      \* Hashes -> the stored PDF: "absent", "partial", "whole"
    renders,    \* Hashes -> its cached page: "absent", "partial", "whole"
    tombstone,  \* Docs -> tombstones/<id>.json: "absent", "partial", "whole"
    pc,         \* Requests -> the next file operation, or how it ended
    doc,        \* Requests -> the document it is about
    seen,       \* Requests -> the content it loaded
    lookup,     \* Requests -> the index it loaded
    twin,       \* Ingestions -> the document its duplicate check found
    orphaned,   \* the requests whose open file has been unlinked
    failures    \* crashes and failed writes so far

files == <<record, index, bytes, renders, tombstone>>
request == <<doc, seen, lookup, twin, failures>>
vars == <<files, pc, request, orphaned>>

Content == SUBSET Requests
IndexContent == [Keys -> Docs \cup {NoDoc}]

Ended == {"done", "notfound", "failed", "refused", "overwrite", "broken"}
Active(p) == pc[p] \notin {"idle"} \cup Ended
Quiet == \A p \in Requests : ~Active(p)

\* The file is there and its text is JSON.
Readable(file) == file \notin {Absent, Empty, Torn}

\* A document the store has: its record was saved and it was not deleted.
Saved(d) == record[d] # Absent

Init ==
    /\ record = [d \in Docs |-> IF d \in Held THEN {} ELSE Absent]
    /\ index = [k \in Keys |-> IF \E d \in Held : Key(d) = k
                                 THEN CHOOSE d \in Held : Key(d) = k ELSE NoDoc]
    /\ bytes = [h \in Hashes |-> IF \E d \in Held : HashOf[d] = h
                                   THEN "whole" ELSE "absent"]
    /\ renders = [h \in Hashes |-> "absent"]
    /\ tombstone = [d \in Docs |-> "absent"]
    /\ pc = [p \in Requests |-> "idle"]
    /\ doc = [p \in Requests |-> NoDoc]
    /\ seen = [p \in Requests |-> {}]
    /\ lookup = [p \in Requests |-> index]
    /\ twin = [p \in Ingestions |-> NoDoc]
    /\ orphaned = {}
    /\ failures = 0

\* A client issues its next request when fewer than MaxActive are under way.
Admitted(p) == pc[p] = "idle" /\ Cardinality({q \in Requests : Active(q)}) < MaxActive

Goto(p, step) == pc' = [pc EXCEPT ![p] = step]

\* The requests that still have a file open, at `step`, of one of D.
Orphan(step, D) == orphaned' = orphaned \cup {q \in Requests : pc'[q] = step /\ doc[q] \in D}

SameBytes(d) == {e \in Docs : HashOf[e] = HashOf[d]}

-----------------------------------------------------------------------------
(* _load: the only way a route reads a document *)

\* Faulty variants stand before the definitions they would replace.  Here: a
\* deletion that writes no tombstone.
FirstStepWithoutTombstone(p) ==
    IF p \in Reviews THEN "openrecord" ELSE IF p \in Deletions THEN "unlinkbytes" ELSE "cache"

FirstStep(p) ==
    IF p \in Reviews THEN "openrecord" ELSE IF p \in Deletions THEN "openstone" ELSE "cache"

Load(p, d) ==
    /\ p \notin Ingestions
    /\ Admitted(p)
    /\ doc' = [doc EXCEPT ![p] = d]
    /\ \/ /\ Readable(record[d])
          /\ seen' = [seen EXCEPT ![p] = record[d]]
          /\ Goto(p, FirstStep(p))
       \/ /\ record[d] = Absent
          /\ Goto(p, "notfound") /\ UNCHANGED seen
       \/ /\ record[d] \in {Empty, Torn}
          /\ Goto(p, "failed") /\ UNCHANGED seen
    /\ UNCHANGED <<files, lookup, twin, failures, orphaned>>

-----------------------------------------------------------------------------
(* JsonDocumentRepository.save: the record, then the index *)

OpenRecord(p) ==
    /\ pc[p] = "openrecord"
    /\ record' = [record EXCEPT ![doc[p]] = Empty]
    /\ orphaned' = orphaned \ {p}
    /\ Goto(p, "writerecord")
    /\ UNCHANGED <<index, bytes, renders, tombstone, request>>

\* Faulty: the decision alone is written, not the record it was made on.
WriteDecisionAlone(p) ==
    /\ pc[p] = "writerecord"
    /\ record' = IF p \in orphaned THEN record ELSE [record EXCEPT ![doc[p]] = {p}]
    /\ Goto(p, "readindex")
    /\ UNCHANGED <<index, bytes, renders, tombstone, request, orphaned>>

WriteRecord(p) ==
    /\ pc[p] = "writerecord"
    /\ \/ /\ p \in orphaned
          /\ UNCHANGED record
       \/ /\ p \notin orphaned
          /\ record' = [record EXCEPT ![doc[p]] = seen[p] \cup {p}]
       \/ /\ p \notin orphaned
          /\ record[doc[p]] # Empty
          /\ record' = [record EXCEPT ![doc[p]] = Torn]
    /\ Goto(p, "readindex")
    /\ UNCHANGED <<index, bytes, renders, tombstone, request, orphaned>>

ReadIndex(p) ==
    /\ pc[p] = "readindex"
    /\ \/ /\ Readable(index)
          /\ lookup' = [lookup EXCEPT ![p] = index]
          /\ Goto(p, "openindex")
       \/ /\ index \in {Empty, Torn}
          /\ Goto(p, "failed") /\ UNCHANGED lookup
    /\ UNCHANGED <<files, doc, seen, twin, failures, orphaned>>

OpenIndex(p) ==
    /\ pc[p] = "openindex"
    /\ index' = Empty
    /\ Goto(p, "writeindex")
    /\ UNCHANGED <<record, bytes, renders, tombstone, request, orphaned>>

WriteIndex(p) ==
    /\ pc[p] = "writeindex"
    /\ \/ index' = [lookup[p] EXCEPT ![Key(doc[p])] = doc[p]]
       \/ index # Empty /\ index' = Torn
    /\ Goto(p, "done")
    /\ UNCHANGED <<record, bytes, renders, tombstone, request, orphaned>>

Save(p) == OpenRecord(p) \/ WriteRecord(p) \/ ReadIndex(p) \/ OpenIndex(p) \/ WriteIndex(p)

-----------------------------------------------------------------------------
(* delete_permanently: the tombstone, then what it is the tombstone of *)

OpenTombstone(p) ==
    /\ pc[p] = "openstone"
    /\ tombstone' = [tombstone EXCEPT ![doc[p]] = "partial"]
    /\ Goto(p, "writestone")
    /\ UNCHANGED <<record, index, bytes, renders, request, orphaned>>

WriteTombstone(p) ==
    /\ pc[p] = "writestone"
    /\ \/ tombstone' = [tombstone EXCEPT ![doc[p]] = "whole"]
       \/ tombstone[doc[p]] = "whole" /\ tombstone' = [tombstone EXCEPT ![doc[p]] = "partial"]
    /\ Goto(p, "unlinkbytes")
    /\ UNCHANGED <<record, index, bytes, renders, request, orphaned>>

UnlinkBytes(p) ==
    /\ pc[p] = "unlinkbytes"
    /\ bytes' = [bytes EXCEPT ![HashOf[doc[p]]] = "absent"]
    /\ Goto(p, "unlinkrecord")
    /\ Orphan("fillbytes", SameBytes(doc[p]))
    /\ UNCHANGED <<record, index, renders, tombstone, request>>

\* Faulty: the record is emptied in place; the record is forgotten.
TruncateRecord(p) ==
    /\ pc[p] = "unlinkrecord"
    /\ record' = [record EXCEPT ![doc[p]] = Empty]
    /\ Goto(p, "unlinkrenders")
    /\ UNCHANGED <<index, bytes, renders, tombstone, request, orphaned>>

UnlinkRecord(p) ==
    /\ pc[p] = "unlinkrecord"
    /\ record' = [record EXCEPT ![doc[p]] = Absent]
    /\ Goto(p, "unlinkrenders")
    /\ Orphan("writerecord", {doc[p]})
    /\ UNCHANGED <<index, bytes, renders, tombstone, request>>

\* Faulty: the cached pages are forgotten.
KeepRenders(p) ==
    /\ pc[p] = "unlinkrenders"
    /\ Goto(p, "done")
    /\ UNCHANGED <<files, request, orphaned>>

UnlinkRenders(p) ==
    /\ pc[p] = "unlinkrenders"
    /\ renders' = [renders EXCEPT ![HashOf[doc[p]]] = "absent"]
    /\ Goto(p, "done")
    /\ Orphan("writerender", SameBytes(doc[p]))
    /\ UNCHANGED <<record, index, bytes, tombstone, request>>

Delete(p) ==
    OpenTombstone(p) \/ WriteTombstone(p) \/ UnlinkBytes(p) \/ UnlinkRecord(p) \/ UnlinkRenders(p)

-----------------------------------------------------------------------------
(* render_page: the cache, or the stored bytes, re-hashed *)

\* A file that is there is served, whatever it holds.
LookInCache(p) ==
    /\ pc[p] = "cache"
    /\ \/ renders[HashOf[doc[p]]] = "absent" /\ Goto(p, "readbytes")
       \/ renders[HashOf[doc[p]]] = "whole" /\ Goto(p, "done")
       \/ renders[HashOf[doc[p]]] = "partial" /\ Goto(p, "broken")
    /\ UNCHANGED <<files, request, orphaned>>

ReadBytes(p) ==
    /\ pc[p] = "readbytes"
    /\ Goto(p, IF bytes[HashOf[doc[p]]] = "whole" THEN "openrender" ELSE "failed")
    /\ UNCHANGED <<files, request, orphaned>>

OpenRender(p) ==
    /\ pc[p] = "openrender"
    /\ renders' = [renders EXCEPT ![HashOf[doc[p]]] = "partial"]
    /\ orphaned' = orphaned \ {p}
    /\ Goto(p, "writerender")
    /\ UNCHANGED <<record, index, bytes, tombstone, request>>

\* Two renders of one page write the same image.
WriteRender(p) ==
    /\ pc[p] = "writerender"
    /\ renders' = IF p \in orphaned THEN renders
                  ELSE [renders EXCEPT ![HashOf[doc[p]]] = "whole"]
    /\ Goto(p, "done")
    /\ UNCHANGED <<record, index, bytes, tombstone, request, orphaned>>

Render(p) == LookInCache(p) \/ ReadBytes(p) \/ OpenRender(p) \/ WriteRender(p)

-----------------------------------------------------------------------------
(* ingest_pdf.py: check_duplicate, SourceStore.store, then save *)

\* 10.3 against the index, long before this run saves anything itself.
CheckDuplicate(p) ==
    LET d == NewDoc[p]
        held == index[Key(d)]
    IN  /\ p \in Ingestions
        /\ Admitted(p)
        /\ doc' = [doc EXCEPT ![p] = d]
        /\ \/ /\ index \in {Empty, Torn}
              /\ Goto(p, "failed") /\ UNCHANGED twin
           \/ /\ Readable(index)
              /\ twin' = [twin EXCEPT ![p] = held]
              /\ Goto(p, IF held # NoDoc /\ p \notin Linked THEN "refused" ELSE "store")
        /\ UNCHANGED <<files, seen, lookup, failures, orphaned>>

\* Faulty: the file is opened without O_EXCL; a file that is there is trusted; a
\* file that is there is refused.
StoreTruncating(p) ==
    /\ pc[p] = "store"
    /\ bytes' = [bytes EXCEPT ![HashOf[doc[p]]] = "partial"]
    /\ Goto(p, "fillbytes")
    /\ UNCHANGED <<record, index, renders, tombstone, request, orphaned>>

StoreTrusting(p) ==
    LET h == HashOf[doc[p]]
    IN  /\ pc[p] = "store"
        /\ bytes' = IF bytes[h] = "absent" THEN [bytes EXCEPT ![h] = "partial"] ELSE bytes
        /\ Goto(p, IF bytes[h] = "absent" THEN "fillbytes" ELSE "openrecord")
        /\ UNCHANGED <<record, index, renders, tombstone, request, orphaned>>

\* O_CREAT | O_EXCL; a file already there is re-hashed and kept as it is.
StoreBytes(p) ==
    LET h == HashOf[doc[p]]
    IN  /\ pc[p] = "store"
        /\ \/ /\ bytes[h] = "absent"
              /\ bytes' = [bytes EXCEPT ![h] = "partial"]
              /\ Goto(p, "fillbytes")
           \/ bytes[h] = "whole" /\ Goto(p, "verify") /\ UNCHANGED bytes
           \/ bytes[h] = "partial" /\ Goto(p, "overwrite") /\ UNCHANGED bytes
        /\ orphaned' = orphaned \ {p}
        /\ UNCHANGED <<record, index, renders, tombstone, request>>

FillBytes(p) ==
    /\ pc[p] = "fillbytes"
    /\ bytes' = IF p \in orphaned THEN bytes
                ELSE [bytes EXCEPT ![HashOf[doc[p]]] = "whole"]
    /\ Goto(p, "verify")
    /\ UNCHANGED <<record, index, renders, tombstone, request, orphaned>>

\* The write raises, and its handler unlinks the path, whoever's file it is.
FillFails(p) ==
    /\ pc[p] = "fillbytes"
    /\ failures < MaxFailures
    /\ failures' = failures + 1
    /\ bytes' = [bytes EXCEPT ![HashOf[doc[p]]] = "absent"]
    /\ Goto(p, "failed")
    /\ Orphan("fillbytes", SameBytes(doc[p]))
    /\ UNCHANGED <<record, index, renders, tombstone, doc, seen, lookup, twin>>

\* Item 38, the stored file re-hashed.
Verify(p) ==
    LET h == HashOf[doc[p]]
    IN  /\ pc[p] = "verify"
        /\ \/ bytes[h] = "whole" /\ Goto(p, "openrecord")
           \/ bytes[h] = "absent" /\ Goto(p, "failed")
           \/ bytes[h] = "partial" /\ Goto(p, "overwrite")
        /\ UNCHANGED <<files, request, orphaned>>

Ingest(p) == StoreBytes(p) \/ FillBytes(p) \/ FillFails(p) \/ Verify(p)

-----------------------------------------------------------------------------
(* The processes stop *)

\* Every request of the server dies with it; a run of the command line alone.
Stop(P) ==
    /\ failures < MaxFailures
    /\ failures' = failures + 1
    /\ \E p \in P : Active(p)
    /\ pc' = [p \in Requests |-> IF p \in P /\ Active(p) THEN "failed" ELSE pc[p]]
    /\ UNCHANGED <<files, doc, seen, lookup, twin, orphaned>>

Crash == Stop(Requests \ Ingestions) \/ \E p \in Ingestions : Stop({p})

Next ==
    \/ \E p \in Requests :
         \/ \E d \in Docs : Load(p, d)
         \/ CheckDuplicate(p)
         \/ Save(p) \/ Delete(p) \/ Render(p) \/ Ingest(p)
    \/ Crash

Spec == Init /\ [][Next]_vars

-----------------------------------------------------------------------------
(* What holds of any requests, under way together, through every crash *)

TypeOK ==
    /\ record \in [Docs -> {Absent, Empty, Torn} \cup Content]
    /\ index \in {Empty, Torn} \cup IndexContent
    /\ bytes \in [Hashes -> {"absent", "partial", "whole"}]
    /\ renders \in [Hashes -> {"absent", "partial", "whole"}]
    /\ tombstone \in [Docs -> {"absent", "partial", "whole"}]
    /\ pc \in [Requests ->
                 {"idle", "openrecord", "writerecord", "readindex", "openindex", "writeindex",
                  "openstone", "writestone", "unlinkbytes", "unlinkrecord", "unlinkrenders",
                  "cache", "readbytes", "openrender", "writerender",
                  "store", "fillbytes", "verify"} \cup Ended]
    /\ doc \in [Requests -> Docs \cup {NoDoc}]
    /\ seen \in [Requests -> Content]
    /\ lookup \in [Requests -> IndexContent]
    /\ twin \in [Ingestions -> Docs \cup {NoDoc}]
    /\ orphaned \subseteq Requests
    /\ failures \in 0..MaxFailures

\* A record never holds a decision without the decisions it was made upon:
\* whatever saves are lost to each other, what survives is one reviewer's view.
RecordHoldsItsBasis ==
    \A d \in Docs : Readable(record[d]) =>
        \A p \in record[d] : doc[p] = d /\ seen[p] \subseteq record[d]

\* The tombstone is written first (security/retention.py): bytes or a record
\* the store once held are gone only where a tombstone says so, wherever a
\* deletion was interrupted.
DeletionIsRecorded ==
    \A d \in Held :
        /\ record[d] = Absent => tombstone[d] # "absent"
        /\ bytes[HashOf[d]] = "absent" => \E e \in SameBytes(d) : tombstone[e] # "absent"

\* A record is saved only after its bytes were stored and re-hashed, and loses
\* them only to a deletion (extraction/pipeline.py, items 32 and 38).
RecordHasItsBytes ==
    \A d \in Docs : Saved(d) =>
        \/ bytes[HashOf[d]] = "whole"
        \/ \E e \in SameBytes(d) : tombstone[e] # "absent"

\* The index never names a document that was never saved.
IndexNamesSavedDocuments ==
    Readable(index) =>
        \A k \in Keys : index[k] # NoDoc =>
            /\ Key(index[k]) = k
            /\ Saved(index[k]) \/ tombstone[index[k]] # "absent"

\* 1.12: stored bytes are never written again.  They change by a deletion, or
\* are the unfinished file of the run that is still filling or gave up on it.
BytesNeverOverwritten ==
    [][\A h \in Hashes : bytes[h] = "whole" /\ bytes'[h] # "whole" =>
         \E d \in Docs : HashOf[d] = h /\ tombstone[d] # "absent"]_vars

==============================================================================
