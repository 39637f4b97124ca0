-------------------------- MODULE RecordStoreProofs --------------------------
(***************************************************************************)
(* What the store guarantees for every set of documents and requests,      *)
(* however they overlap and wherever a process stops or a write fails.     *)
(***************************************************************************)
EXTENDS RecordStoreLog, FiniteSetTheorems, TLAPS

-----------------------------------------------------------------------------
(* Types *)

\* The store starts well formed: the index holds the documents ingested before.
LEMMA InitType == Init => TypeOK
  <1> SUFFICES ASSUME Init PROVE TypeOK
    OBVIOUS
  <1>1. {} \in Content
    BY DEF Content
  <1>2. ASSUME NEW k \in Keys
        PROVE  index[k] \in Docs \cup {NoDoc}
    <2>1. CASE \E d \in Held : Key(d) = k
      <3>1. (CHOOSE d \in Held : Key(d) = k) \in Held
        BY <2>1
      <3>2. QED
        BY <2>1, <3>1, StoreAssumption DEF Init
    <2>2. CASE ~ \E d \in Held : Key(d) = k
      BY <2>2 DEF Init
    <2>3. QED
      BY <2>1, <2>2
  <1>3. index \in IndexContent
    <2>1. index = [k \in Keys |-> index[k]]
      BY DEF Init
    <2>2. QED
      BY <1>2, <2>1 DEF IndexContent
  <1>4. /\ record \in [Docs -> {Absent, Empty, Torn} \cup Content]
        /\ lookup \in [Requests -> IndexContent]
        /\ seen \in [Requests -> Content]
    BY <1>1, <1>3 DEF Init
  <1>5. QED
    BY <1>3, <1>4, StoreAssumption DEF Init, TypeOK

\* Every file operation keeps the store well formed.
LEMMA NextType == TypeOK /\ [Next]_vars => TypeOK'
  <1> SUFFICES ASSUME TypeOK, [Next]_vars PROVE TypeOK'
    OBVIOUS
  <1>1. ASSUME NEW p \in Requests, NEW d \in Docs, Load(p, d)
        PROVE  TypeOK'
    BY <1>1 DEF TypeOK, Load, Readable, Goto, FirstStep, Ended, files
  <1>2. ASSUME NEW p \in Requests, CheckDuplicate(p)
        PROVE  TypeOK'
    <2>1. NewDoc[p] \in Docs
      BY <1>2, StoreAssumption DEF CheckDuplicate
    <2>2. Key(NewDoc[p]) \in Keys
      BY <2>1 DEF Keys
    <2>3. Readable(index) => index[Key(NewDoc[p])] \in Docs \cup {NoDoc}
      BY <2>2 DEF TypeOK, Readable, IndexContent
    <2>4. QED
      BY <1>2, <2>1, <2>3 DEF TypeOK, CheckDuplicate, Goto, Ended, files
  <1>3. ASSUME NEW p \in Requests, Save(p)
        PROVE  TypeOK'
    <2>1. CASE OpenRecord(p)
      BY <2>1 DEF TypeOK, OpenRecord, Goto, request
    <2>2. CASE WriteRecord(p)
      <3>1. seen[p] \cup {p} \in Content
        BY DEF TypeOK, Content
      <3>2. QED
        BY <2>2, <3>1 DEF TypeOK, WriteRecord, Goto, request
    <2>3. CASE ReadIndex(p)
      BY <2>3 DEF TypeOK, ReadIndex, Readable, Goto, Ended, files
    <2>4. CASE OpenIndex(p)
      BY <2>4 DEF TypeOK, OpenIndex, Goto, request
    <2>5. CASE WriteIndex(p)
      <3>1. [lookup[p] EXCEPT ![Key(doc[p])] = doc[p]] \in IndexContent
        BY DEF TypeOK, IndexContent
      <3>2. QED
        BY <2>5, <3>1 DEF TypeOK, WriteIndex, Goto, Ended, request
    <2>6. QED
      BY <1>3, <2>1, <2>2, <2>3, <2>4, <2>5 DEF Save
  <1>4. ASSUME NEW p \in Requests, Delete(p)
        PROVE  TypeOK'
    BY <1>4 DEF TypeOK, Delete, OpenTombstone, WriteTombstone, UnlinkBytes, UnlinkRecord,
                UnlinkRenders, Orphan, Goto, Ended, request
  <1>5. ASSUME NEW p \in Requests, Render(p)
        PROVE  TypeOK'
    BY <1>5 DEF TypeOK, Render, LookInCache, ReadBytes, OpenRender, WriteRender, Goto, Ended,
                files, request
  <1>6. ASSUME NEW p \in Requests, Ingest(p)
        PROVE  TypeOK'
    BY <1>6, StoreAssumption
    DEF TypeOK, Ingest, StoreBytes, FillBytes, FillFails, Verify, Orphan, Goto, Ended,
        files, request
  <1>7. ASSUME NEW P, Stop(P)
        PROVE  TypeOK'
    BY <1>7, StoreAssumption DEF TypeOK, Stop, Ended, files
  <1>8. CASE UNCHANGED vars
    BY <1>8 DEF TypeOK, vars, files, request
  <1>9. QED
    BY <1>1, <1>2, <1>3, <1>4, <1>5, <1>6, <1>7, <1>8 DEF Next, Crash


-----------------------------------------------------------------------------
(* What a request under way relies on *)

\* A request that began is about a document.
DocKnown == \A p \in Requests : pc[p] # "idle" => doc[p] \in Docs

\* What it is about, and what it loaded, stay its own until it ends.
Started ==
    \A p \in Requests : pc[p] # "idle" =>
        doc'[p] = doc[p] /\ seen'[p] = seen[p] /\ pc'[p] # "idle"

Deleting == {"writestone", "unlinkbytes", "unlinkrecord", "unlinkrenders"}

\* A deletion past its first step has a tombstone on disk.
DeletingHasTombstone ==
    \A p \in Requests : pc[p] \in Deleting => tombstone[doc[p]] # "absent"

\* A tombstone stands for the bytes of this hash.
BytesDeleted(h) == \E e \in Docs : HashOf[e] = h /\ tombstone[e] # "absent"

\* O_EXCL: an unfinished file is filled by the one run that created it, until a
\* deletion takes it away.
FillingIsAlone ==
    \A p \in Requests : pc[p] = "fillbytes" =>
        \/ BytesDeleted(HashOf[doc[p]])
        \/ /\ bytes[HashOf[doc[p]]] = "partial"
           /\ \A q \in Requests : pc[q] = "fillbytes" /\ HashOf[doc[q]] = HashOf[doc[p]] => q = p

Saving == {"openrecord", "writerecord"}

\* A save under way is of a document whose bytes were stored, or deleted since.
SavingHasBytes ==
    \A p \in Requests : pc[p] \in Saving =>
        BytesDeleted(HashOf[doc[p]]) \/ bytes[HashOf[doc[p]]] = "whole"

\* A route's document and what it loaded are locals: they change only when a
\* request begins.
LEMMA RequestsKeepTheirDocument ==
    ASSUME TypeOK, DocKnown, [Next]_vars
    PROVE  DocKnown' /\ Started
  <1>1. ASSUME NEW p \in Requests, NEW d \in Docs, Load(p, d)
        PROVE  DocKnown' /\ Started
    BY <1>1 DEF TypeOK, DocKnown, Started, Load, Admitted, Goto, FirstStep
  <1>2. ASSUME NEW p \in Requests, CheckDuplicate(p)
        PROVE  DocKnown' /\ Started
    BY <1>2, StoreAssumption DEF TypeOK, DocKnown, Started, CheckDuplicate, Admitted, Goto
  <1>3. ASSUME NEW p \in Requests, Save(p)
        PROVE  DocKnown' /\ Started
    BY <1>3 DEF TypeOK, DocKnown, Started, Save, OpenRecord, WriteRecord, ReadIndex, OpenIndex,
                WriteIndex, Goto, request
  <1>4. ASSUME NEW p \in Requests, Delete(p) \/ Render(p)
        PROVE  DocKnown' /\ Started
    BY <1>4 DEF TypeOK, DocKnown, Started, Delete, OpenTombstone, WriteTombstone, UnlinkBytes,
                UnlinkRecord, UnlinkRenders, Render, LookInCache, ReadBytes, OpenRender,
                WriteRender, Goto, request
  <1>5. ASSUME NEW p \in Requests, Ingest(p)
        PROVE  DocKnown' /\ Started
    BY <1>5 DEF TypeOK, DocKnown, Started, Ingest, StoreBytes, FillBytes, FillFails, Verify,
                Goto, request
  <1>6. ASSUME NEW P, Stop(P)
        PROVE  DocKnown' /\ Started
    BY <1>6 DEF TypeOK, DocKnown, Started, Stop, Active
  <1>7. CASE UNCHANGED vars
    BY <1>7 DEF DocKnown, Started, vars, request
  <1>8. QED
    BY <1>1, <1>2, <1>3, <1>4, <1>5, <1>6, <1>7 DEF Next, Crash

\* Nothing removes a tombstone.
TombstonesStay == \A d \in Docs : tombstone[d] # "absent" => tombstone'[d] # "absent"

\* delete_permanently goes on only after its tombstone, and no code unlinks one.
LEMMA Tombstones ==
    ASSUME TypeOK, DocKnown, DeletingHasTombstone, [Next]_vars
    PROVE  DeletingHasTombstone' /\ TombstonesStay
  <1> USE DEF TypeOK, DocKnown, DeletingHasTombstone, TombstonesStay, Deleting
  <1>1. ASSUME NEW p \in Requests, NEW d \in Docs, Load(p, d)
        PROVE  DeletingHasTombstone' /\ TombstonesStay
    BY <1>1 DEF Load, Admitted, Goto, FirstStep, files
  <1>2. ASSUME NEW p \in Requests, CheckDuplicate(p)
        PROVE  DeletingHasTombstone' /\ TombstonesStay
    BY <1>2 DEF CheckDuplicate, Admitted, Goto, files
  <1>3. ASSUME NEW p \in Requests, Save(p)
        PROVE  DeletingHasTombstone' /\ TombstonesStay
    BY <1>3 DEF Save, OpenRecord, WriteRecord, ReadIndex, OpenIndex, WriteIndex, Goto, files,
                request
  <1>4. ASSUME NEW p \in Requests, Delete(p)
        PROVE  DeletingHasTombstone' /\ TombstonesStay
    BY <1>4 DEF Delete, OpenTombstone, WriteTombstone, UnlinkBytes, UnlinkRecord, UnlinkRenders,
                Goto, request
  <1>5. ASSUME NEW p \in Requests, Render(p)
        PROVE  DeletingHasTombstone' /\ TombstonesStay
    BY <1>5 DEF Render, LookInCache, ReadBytes, OpenRender, WriteRender, Goto, files, request
  <1>6. ASSUME NEW p \in Requests, Ingest(p)
        PROVE  DeletingHasTombstone' /\ TombstonesStay
    BY <1>6 DEF Ingest, StoreBytes, FillBytes, FillFails, Verify, Goto, files, request
  <1>7. ASSUME NEW P, Stop(P)
        PROVE  DeletingHasTombstone' /\ TombstonesStay
    BY <1>7 DEF Stop, files
  <1>8. CASE UNCHANGED vars
    BY <1>8 DEF vars, files, request
  <1>9. QED
    BY <1>1, <1>2, <1>3, <1>4, <1>5, <1>6, <1>7, <1>8 DEF Next, Crash

\* Stored bytes stay as they are but for a deletion.
WholeBytesStay ==
    \A h \in Hashes : bytes[h] = "whole" => bytes'[h] = "whole" \/ BytesDeleted(h)

\* SourceStore never writes a file it did not create, and its handler unlinks
\* only such a file.
LEMMA StoredBytes ==
    ASSUME TypeOK, DocKnown, DeletingHasTombstone, FillingIsAlone, [Next]_vars
    PROVE  FillingIsAlone' /\ WholeBytesStay
  <1>1. TombstonesStay /\ Started
    BY RequestsKeepTheirDocument, Tombstones
  <1>2. \A h : BytesDeleted(h) => BytesDeleted(h)'
    BY <1>1 DEF TombstonesStay, BytesDeleted
  <1>3. ASSUME UNCHANGED bytes, \A q \in Requests : pc'[q] = "fillbytes" => pc[q] = "fillbytes"
        PROVE  FillingIsAlone' /\ WholeBytesStay
    BY <1>1, <1>2, <1>3 DEF FillingIsAlone, WholeBytesStay, Started
  <1>4. ASSUME NEW p \in Requests, NEW d \in Docs, Load(p, d)
        PROVE  FillingIsAlone' /\ WholeBytesStay
    BY <1>3, <1>4 DEF TypeOK, Load, Goto, FirstStep, files
  <1>5. ASSUME NEW p \in Requests, CheckDuplicate(p)
        PROVE  FillingIsAlone' /\ WholeBytesStay
    BY <1>3, <1>5 DEF TypeOK, CheckDuplicate, Goto, files
  <1>6. ASSUME NEW p \in Requests, Save(p)
        PROVE  FillingIsAlone' /\ WholeBytesStay
    BY <1>3, <1>6 DEF TypeOK, Save, OpenRecord, WriteRecord, ReadIndex, OpenIndex, WriteIndex,
                      Goto, files
  <1>7. ASSUME NEW p \in Requests, Delete(p)
        PROVE  FillingIsAlone' /\ WholeBytesStay
    <2>1. CASE UnlinkBytes(p)
      <3>1. BytesDeleted(HashOf[doc[p]])
        BY <2>1 DEF UnlinkBytes, DocKnown, DeletingHasTombstone, Deleting, BytesDeleted
      <3>2. \A q \in Requests : pc'[q] = "fillbytes" => pc[q] = "fillbytes"
        BY <2>1 DEF UnlinkBytes, Goto, TypeOK
      <3>3. \A h \in Hashes : h # HashOf[doc[p]] => bytes'[h] = bytes[h]
        BY <2>1 DEF UnlinkBytes, TypeOK
      <3>4. \A q \in Requests : pc[q] = "fillbytes" => HashOf[doc[q]] \in Hashes
        BY DEF DocKnown, Hashes
      <3>5. QED
        BY <1>1, <1>2, <3>1, <3>2, <3>3, <3>4 DEF FillingIsAlone, WholeBytesStay, Started
    <2>2. CASE OpenTombstone(p) \/ WriteTombstone(p) \/ UnlinkRecord(p) \/ UnlinkRenders(p)
      BY <1>3, <2>2 DEF TypeOK, OpenTombstone, WriteTombstone, UnlinkRecord, UnlinkRenders, Goto
    <2>3. QED
      BY <1>7, <2>1, <2>2 DEF Delete
  <1>8. ASSUME NEW p \in Requests, Render(p)
        PROVE  FillingIsAlone' /\ WholeBytesStay
    BY <1>3, <1>8 DEF TypeOK, Render, LookInCache, ReadBytes, OpenRender, WriteRender, Goto, files
  <1>9. ASSUME NEW p \in Requests, Ingest(p)
        PROVE  FillingIsAlone' /\ WholeBytesStay
    <2> DEFINE h == HashOf[doc[p]]
    <2>1. \A q \in Requests : pc[q] = "fillbytes" => HashOf[doc[q]] \in Hashes
      BY DEF DocKnown, Hashes
    <2>2. CASE StoreBytes(p)
      <3>1. CASE bytes[h] = "absent"
        <4>1. h \in Hashes /\ bytes' = [bytes EXCEPT ![h] = "partial"]
          BY <2>2, <3>1 DEF StoreBytes, DocKnown, Hashes
        <4>2. \A q \in Requests : pc[q] = "fillbytes" /\ HashOf[doc[q]] = h => BytesDeleted(h)
          BY <3>1 DEF FillingIsAlone
        <4>3. \A q \in Requests : pc'[q] = "fillbytes" => q = p \/ pc[q] = "fillbytes"
          BY <2>2 DEF StoreBytes, Goto, TypeOK
        <4>4. \A k \in Hashes : k # h => bytes'[k] = bytes[k]
          BY <4>1 DEF TypeOK
        <4>5. bytes'[h] = "partial" /\ doc'[p] = doc[p]
          BY <2>2, <4>1 DEF TypeOK, StoreBytes, request
        <4>6. WholeBytesStay
          BY <3>1, <4>4 DEF WholeBytesStay
        <4>7. FillingIsAlone'
          BY <1>1, <1>2, <2>1, <4>2, <4>3, <4>4, <4>5 DEF FillingIsAlone, Started
        <4>8. QED
          BY <4>6, <4>7
      <3>2. CASE bytes[h] # "absent"
        BY <1>3, <2>2, <3>2 DEF TypeOK, StoreBytes, Goto
      <3>3. QED
        BY <3>1, <3>2
    <2>3. CASE FillBytes(p) \/ FillFails(p)
      <3>1. pc[p] = "fillbytes" /\ doc' = doc /\ pc'[p] # "fillbytes"
        BY <2>3 DEF FillBytes, FillFails, Goto, TypeOK, request
      <3>2. \A k \in Hashes : k # h => bytes'[k] = bytes[k]
        BY <2>3 DEF FillBytes, FillFails, TypeOK
      <3>3. \A q \in Requests : pc'[q] = "fillbytes" => pc[q] = "fillbytes" /\ q # p
        BY <2>3 DEF FillBytes, FillFails, Goto, TypeOK
      <3>4. BytesDeleted(h) \/ bytes[h] = "partial"
        BY <3>1 DEF FillingIsAlone
      <3>5. WholeBytesStay
        BY <3>2, <3>4 DEF WholeBytesStay
      <3>6. FillingIsAlone'
        BY <1>2, <2>1, <3>1, <3>2, <3>3 DEF FillingIsAlone
      <3>7. QED
        BY <3>5, <3>6
    <2>4. CASE Verify(p)
      BY <1>3, <2>4 DEF TypeOK, Verify, Goto, files
    <2>5. QED
      BY <1>9, <2>2, <2>3, <2>4 DEF Ingest
  <1>10. ASSUME NEW P, Stop(P)
         PROVE  FillingIsAlone' /\ WholeBytesStay
    BY <1>3, <1>10 DEF Stop, files
  <1>11. CASE UNCHANGED vars
    BY <1>3, <1>11 DEF vars, files
  <1>12. QED
    BY <1>4, <1>5, <1>6, <1>7, <1>8, <1>9, <1>10, <1>11 DEF Next, Crash


-----------------------------------------------------------------------------
(* Records *)

\* A record goes only where a tombstone is, and comes only from a save.
RecordsComeAndGo ==
    \A d \in Docs :
        /\ Saved(d) => Saved(d)' \/ tombstone[d] # "absent"
        /\ Saved(d)' => Saved(d) \/ \E p \in Requests : pc[p] \in Saving /\ doc[p] = d

\* The record file is touched by save and by delete_permanently alone.
LEMMA Records ==
    ASSUME TypeOK, DocKnown, DeletingHasTombstone, [Next]_vars
    PROVE  RecordsComeAndGo
  <1>1. CASE UNCHANGED record
    BY <1>1 DEF RecordsComeAndGo, Saved
  <1>2. ASSUME NEW p \in Requests, OpenRecord(p) \/ WriteRecord(p)
        PROVE  RecordsComeAndGo
    <2>1. seen[p] \cup {p} \in SUBSET Requests
      BY DEF TypeOK, Content
    <2>2. /\ pc[p] \in Saving
          /\ record' = record \/ \E c : c # Absent /\ record' = [record EXCEPT ![doc[p]] = c]
      BY <1>2, <2>1, StoreAssumption DEF OpenRecord, WriteRecord, Saving
    <2>3. QED
      BY <2>2 DEF RecordsComeAndGo, Saved, TypeOK
  <1>3. ASSUME NEW p \in Requests, UnlinkRecord(p)
        PROVE  RecordsComeAndGo
    BY <1>3 DEF RecordsComeAndGo, Saved, UnlinkRecord, TypeOK, DeletingHasTombstone, Deleting
  <1>4. QED
    BY <1>1, <1>2, <1>3
    DEF Next, Crash, Stop, Load, CheckDuplicate, Save, ReadIndex, OpenIndex, WriteIndex, Delete,
        OpenTombstone, WriteTombstone, UnlinkBytes, UnlinkRenders, Render, LookInCache, ReadBytes,
        OpenRender, WriteRender, Ingest, StoreBytes, FillBytes, FillFails, Verify, vars, files

\* Only a request that found the bytes begins to save.
SavingBegins ==
    \A p \in Requests : pc'[p] \in Saving =>
        \/ pc[p] \in Saving
        \/ pc[p] = "idle" /\ doc'[p] \in Docs /\ Saved(doc'[p])
        \/ pc[p] # "idle" /\ bytes[HashOf[doc[p]]] = "whole"

\* A save begins with a loaded record or with a stored file just re-hashed.
LEMMA SavingNeedsBytes ==
    ASSUME TypeOK, DocKnown, [Next]_vars
    PROVE  SavingBegins
  <1> USE DEF TypeOK, SavingBegins, Saving, Goto
  <1>1. ASSUME NEW p \in Requests, NEW d \in Docs, Load(p, d)
        PROVE  SavingBegins
    BY <1>1 DEF Load, Readable, Admitted, FirstStep, Saved
  <1>2. ASSUME NEW p \in Requests, CheckDuplicate(p)
        PROVE  SavingBegins
    BY <1>2 DEF CheckDuplicate
  <1>3. ASSUME NEW p \in Requests, Save(p)
        PROVE  SavingBegins
    BY <1>3 DEF Save, OpenRecord, WriteRecord, ReadIndex, OpenIndex, WriteIndex
  <1>4. ASSUME NEW p \in Requests, Delete(p) \/ Render(p)
        PROVE  SavingBegins
    BY <1>4 DEF Delete, OpenTombstone, WriteTombstone, UnlinkBytes, UnlinkRecord, UnlinkRenders,
                Render, LookInCache, ReadBytes, OpenRender, WriteRender
  <1>5. ASSUME NEW p \in Requests, Ingest(p)
        PROVE  SavingBegins
    BY <1>5 DEF Ingest, StoreBytes, FillBytes, FillFails, Verify
  <1>6. ASSUME NEW P, Stop(P)
        PROVE  SavingBegins
    BY <1>6 DEF Stop
  <1>7. CASE UNCHANGED vars
    BY <1>7 DEF vars
  <1>8. QED
    BY <1>1, <1>2, <1>3, <1>4, <1>5, <1>6, <1>7 DEF Next, Crash

-----------------------------------------------------------------------------
(* Bytes and records: the inductive invariant *)
KeepInv ==
    /\ TypeOK
    /\ DocKnown
    /\ DeletingHasTombstone
    /\ FillingIsAlone
    /\ SavingHasBytes
    /\ RecordHasItsBytes
    /\ DeletionIsRecorded

\* The documents ingested before have their record and their bytes.
LEMMA KeepInit == Init => KeepInv
  <1> SUFFICES ASSUME Init PROVE KeepInv
    OBVIOUS
  <1>1. TypeOK
    BY InitType
  <1>2. DocKnown /\ DeletingHasTombstone /\ FillingIsAlone /\ SavingHasBytes
    BY DEF Init, DocKnown, DeletingHasTombstone, Deleting, FillingIsAlone, SavingHasBytes, Saving
  <1>3. {} # Absent
    BY StoreAssumption
  <1>4. \A d \in Docs : d \in Held <=> Saved(d)
    BY <1>3 DEF Init, Saved
  <1>5. \A d \in Held : HashOf[d] \in Hashes /\ bytes[HashOf[d]] = "whole"
    BY StoreAssumption DEF Init, Hashes
  <1>6. RecordHasItsBytes
    BY <1>4, <1>5 DEF RecordHasItsBytes
  <1>7. DeletionIsRecorded
    BY <1>3, <1>4, <1>5, StoreAssumption DEF DeletionIsRecorded, Saved
  <1>8. QED
    BY <1>1, <1>2, <1>6, <1>7 DEF KeepInv

\* Every step keeps the evidence of each record, or a tombstone for it.
LEMMA KeepNext == KeepInv /\ [Next]_vars => KeepInv' /\ WholeBytesStay
  <1> SUFFICES ASSUME KeepInv, [Next]_vars PROVE KeepInv' /\ WholeBytesStay
    OBVIOUS
  <1> USE DEF KeepInv
  <1>1. TypeOK' /\ DocKnown' /\ Started
    BY NextType, RequestsKeepTheirDocument
  <1>2. DeletingHasTombstone' /\ TombstonesStay
    BY Tombstones
  <1>3. FillingIsAlone' /\ WholeBytesStay
    BY StoredBytes
  <1>4. RecordsComeAndGo /\ SavingBegins
    BY Records, SavingNeedsBytes
  <1>5. \A h : BytesDeleted(h) => BytesDeleted(h)'
    BY <1>2 DEF TombstonesStay, BytesDeleted
  <1> DEFINE Kept(h) == BytesDeleted(h) \/ bytes[h] = "whole"
  <1>6. \A h \in Hashes : Kept(h) => Kept(h)'
    BY <1>3, <1>5 DEF WholeBytesStay
  <1>7. \A d \in Docs : HashOf[d] \in Hashes
    BY DEF Hashes
  <1>8. \A d \in Docs : Saved(d) => Kept(HashOf[d])
    BY DEF RecordHasItsBytes, BytesDeleted, SameBytes
  <1>9. \A d \in Held : d \in Docs /\ Kept(HashOf[d])
    BY <1>8, StoreAssumption DEF DeletionIsRecorded, Saved, BytesDeleted
  <1>10. SavingHasBytes'
    <2>1. ASSUME NEW p \in Requests, pc'[p] \in Saving
          PROVE  Kept(HashOf[doc[p]])'
      <3>1. CASE pc[p] # "idle"
        <4>1. doc'[p] = doc[p] /\ doc[p] \in Docs
          BY <1>1, <3>1 DEF Started, DocKnown
        <4>2. Kept(HashOf[doc[p]])
          BY <1>4, <2>1, <3>1 DEF SavingBegins, SavingHasBytes
        <4>3. QED
          BY <1>6, <1>7, <4>1, <4>2
      <3>2. CASE pc[p] = "idle"
        <4>1. doc'[p] \in Docs /\ Saved(doc'[p])
          BY <1>4, <2>1, <3>2 DEF SavingBegins, Saving
        <4>2. QED
          BY <1>6, <1>7, <1>8, <4>1
      <3>3. QED
        BY <3>1, <3>2
    <2>2. QED
      BY <2>1 DEF SavingHasBytes
  <1>11. RecordHasItsBytes'
    <2>1. ASSUME NEW d \in Docs, Saved(d)'
          PROVE  Kept(HashOf[d])'
      <3>1. Kept(HashOf[d])
        BY <1>4, <1>8, <2>1 DEF RecordsComeAndGo, SavingHasBytes
      <3>2. QED
        BY <1>6, <1>7, <3>1
    <2>2. QED
      BY <2>1 DEF RecordHasItsBytes, BytesDeleted, SameBytes
  <1>12. DeletionIsRecorded'
    <2>1. ASSUME NEW d \in Held
          PROVE  /\ record'[d] = Absent => tombstone'[d] # "absent"
                 /\ Kept(HashOf[d])'
      <3>1. d \in Docs /\ Kept(HashOf[d])
        BY <1>9
      <3>2. record'[d] = Absent => tombstone[d] # "absent"
        BY <1>4, <3>1 DEF RecordsComeAndGo, DeletionIsRecorded, Saved
      <3>3. QED
        BY <1>2, <1>6, <1>7, <3>1, <3>2 DEF TombstonesStay
    <2>2. QED
      BY <2>1 DEF DeletionIsRecorded, BytesDeleted, SameBytes
  <1>13. QED
    BY <1>1, <1>2, <1>3, <1>10, <1>11, <1>12


-----------------------------------------------------------------------------
(* The index *)

\* Every entry of an index is of its own key and of a document once saved.
Names(i) ==
    \A k \in Keys : i[k] # NoDoc =>
        /\ Key(i[k]) = k
        /\ Saved(i[k]) \/ tombstone[i[k]] # "absent"

Indexing == {"writerecord", "readindex", "openindex", "writeindex"}

\* The index on disk and every copy of it a request holds name such documents,
\* and a request about to write it has saved its own.
IndexInv ==
    /\ IndexNamesSavedDocuments
    /\ \A p \in Requests : Names(lookup[p])
    /\ \A p \in Requests : pc[p] \in Indexing => Saved(doc[p]) \/ tombstone[doc[p]] # "absent"

\* The first index lists the documents ingested before.
LEMMA IndexInit == Init => IndexInv
  <1> SUFFICES ASSUME Init PROVE IndexInv
    OBVIOUS
  <1>1. Names(index)
    <2>1. ASSUME NEW k \in Keys, index[k] # NoDoc
          PROVE  Key(index[k]) = k /\ Saved(index[k])
      <3>1. \E d \in Held : Key(d) = k
        BY <2>1 DEF Init
      <3>2. (CHOOSE d \in Held : Key(d) = k) \in Held /\ Key(CHOOSE d \in Held : Key(d) = k) = k
        BY <3>1
      <3>3. index[k] \in Held /\ Key(index[k]) = k
        BY <3>1, <3>2 DEF Init
      <3>4. {} # Absent
        BY StoreAssumption
      <3>5. QED
        BY <3>3, <3>4, StoreAssumption DEF Init, Saved
    <2>2. QED
      BY <2>1 DEF Names
  <1>2. QED
    BY <1>1 DEF Init, IndexInv, IndexNamesSavedDocuments, Names, Indexing

\* save writes the record before the index, so an entry follows its record.
LEMMA IndexNext ==
    ASSUME KeepInv, IndexInv, [Next]_vars
    PROVE  IndexInv'
  <1>1. Started /\ TombstonesStay /\ RecordsComeAndGo /\ TypeOK /\ DocKnown
    BY RequestsKeepTheirDocument, Tombstones, Records DEF KeepInv
  <1> DEFINE Known(d) == Saved(d) \/ tombstone[d] # "absent"
  <1>2. \A d \in Docs : Known(d) => Known(d)'
    BY <1>1 DEF RecordsComeAndGo, TombstonesStay
  <1>3. ASSUME NEW i \in IndexContent, Names(i)
        PROVE  Names(i)'
    BY <1>2, <1>3 DEF Names, IndexContent
  <1>4. /\ \A p \in Requests : lookup[p] \in IndexContent /\ Names(lookup[p])
        /\ Readable(index) => index \in IndexContent /\ Names(index)
    BY <1>1 DEF TypeOK, IndexInv, IndexNamesSavedDocuments, Names, Readable
  <1>5. \A p \in Requests : Names(lookup[p])'
    <2>1. lookup' = lookup \/ \E p \in Requests : ReadIndex(p)
      BY DEF Next, Crash, Stop, Load, CheckDuplicate, Save, OpenRecord, WriteRecord, OpenIndex,
             WriteIndex, Delete, OpenTombstone, WriteTombstone, UnlinkBytes, UnlinkRecord,
             UnlinkRenders, Render, LookInCache, ReadBytes, OpenRender, WriteRender, Ingest,
             StoreBytes, FillBytes, FillFails, Verify, vars, request
    <2>2. QED
      BY <1>1, <1>3, <1>4, <2>1 DEF ReadIndex, TypeOK
  <1>6. \A p \in Requests : pc'[p] \in Indexing => Known(doc[p])'
    <2>1. ASSUME NEW p \in Requests, pc'[p] \in Indexing
          PROVE  Known(doc[p])'
      <3>1. pc[p] \in Indexing \/ OpenRecord(p)
        <4> USE <1>1, <2>1 DEF Indexing, TypeOK, Goto
        <4>1. ASSUME NEW q \in Requests, NEW d \in Docs, Load(q, d)
              PROVE  pc[p] \in Indexing
          BY <4>1 DEF Load, FirstStep
        <4>2. ASSUME NEW q \in Requests, CheckDuplicate(q)
              PROVE  pc[p] \in Indexing
          BY <4>2 DEF CheckDuplicate
        <4>3. ASSUME NEW q \in Requests, Save(q)
              PROVE  pc[p] \in Indexing \/ OpenRecord(p)
          BY <4>3 DEF Save, OpenRecord, WriteRecord, ReadIndex, OpenIndex, WriteIndex
        <4>4. ASSUME NEW q \in Requests, Delete(q) \/ Render(q) \/ Ingest(q)
              PROVE  pc[p] \in Indexing
          BY <4>4 DEF Delete, OpenTombstone, WriteTombstone, UnlinkBytes, UnlinkRecord,
                      UnlinkRenders, Render, LookInCache, ReadBytes, OpenRender, WriteRender,
                      Ingest, StoreBytes, FillBytes, FillFails, Verify
        <4>5. ASSUME NEW P, Stop(P)
              PROVE  pc[p] \in Indexing
          BY <4>5 DEF Stop
        <4>6. CASE UNCHANGED vars
          BY <4>6 DEF vars
        <4>7. QED
          BY <4>1, <4>2, <4>3, <4>4, <4>5, <4>6 DEF Next, Crash
      <3>2. CASE pc[p] \in Indexing
        <4>1. doc[p] \in Docs /\ doc'[p] = doc[p]
          BY <1>1, <3>2 DEF Started, DocKnown, Indexing
        <4>2. QED
          BY <1>2, <3>2, <4>1 DEF IndexInv
      <3>3. CASE OpenRecord(p)
        <4>1. doc[p] \in Docs /\ doc'[p] = doc[p] /\ record'[doc[p]] = Empty
          BY <1>1, <3>3 DEF OpenRecord, Started, DocKnown, TypeOK
        <4>2. QED
          BY <4>1, StoreAssumption DEF Saved
      <3>4. QED
        BY <3>1, <3>2, <3>3
    <2>2. QED
      BY <2>1
  <1>7. IndexNamesSavedDocuments'
    <2>1. CASE index' = index
      BY <1>3, <1>4, <2>1 DEF IndexNamesSavedDocuments, Names, Readable
    <2>2. CASE index' \in {Empty, Torn}
      BY <2>2 DEF IndexNamesSavedDocuments, Readable
    <2>3. ASSUME NEW p \in Requests, WriteIndex(p)
          PROVE  IndexNamesSavedDocuments'
      <3> DEFINE i == [lookup[p] EXCEPT ![Key(doc[p])] = doc[p]]
      <3>1. Known(doc[p]) /\ doc[p] \in Docs
        BY <1>1, <2>3 DEF WriteIndex, IndexInv, Indexing, DocKnown
      <3>2. i \in IndexContent /\ Names(i)
        BY <1>4, <3>1 DEF Names, IndexContent
      <3>3. index' = i \/ index' = Torn
        BY <2>3 DEF WriteIndex
      <3>4. CASE index' = i
        BY <1>3, <3>2, <3>4 DEF IndexNamesSavedDocuments, Names
      <3>5. QED
        BY <2>2, <3>3, <3>4
    <2>4. UNCHANGED index \/ index' = Empty \/ \E p \in Requests : WriteIndex(p)
      BY DEF Next, Crash, Stop, Load, CheckDuplicate, Save, OpenRecord, WriteRecord, ReadIndex,
             OpenIndex, Delete, OpenTombstone, WriteTombstone, UnlinkBytes, UnlinkRecord,
             UnlinkRenders, Render, LookInCache, ReadBytes, OpenRender, WriteRender, Ingest,
             StoreBytes, FillBytes, FillFails, Verify, vars, files
    <2>5. QED
      BY <2>1, <2>2, <2>3, <2>4
  <1>8. QED
    BY <1>5, <1>6, <1>7 DEF IndexInv


-----------------------------------------------------------------------------
(* What a record rests on *)

\* Whoever is in the content is about d, and what it loaded is in the content.
Basis(d, content) ==
    \A q \in content : pc[q] # "idle" /\ doc[q] = d /\ seen[q] \subseteq content

\* Records and what requests loaded from them rest on their basis.
BasisInv ==
    /\ \A d \in Docs : Readable(record[d]) => Basis(d, record[d])
    /\ \A p \in Requests : Basis(doc[p], seen[p])
    /\ \A p \in Requests : pc[p] = "idle" => seen[p] = {}

\* Records start without decisions.
LEMMA BasisInit == Init => BasisInv
  BY DEF Init, BasisInv, Basis, Readable

\* A save writes what it loaded and its own decision.
LEMMA BasisNext ==
    ASSUME TypeOK, DocKnown, BasisInv, [Next]_vars
    PROVE  BasisInv'
  <1>1. Started
    BY RequestsKeepTheirDocument
  <1>2. ASSUME NEW d, NEW content \in Content, Basis(d, content)
        PROVE  Basis(d, content)'
    BY <1>1, <1>2 DEF Basis, Started, Content
  <1>3. /\ \A d \in Docs : Readable(record[d]) => record[d] \in Content /\ Basis(d, record[d])
        /\ \A p \in Requests : seen[p] \in Content /\ Basis(doc[p], seen[p])
    BY DEF TypeOK, BasisInv, Readable
  <1>4. \/ UNCHANGED <<doc, seen>>
        \/ \E p \in Requests : CheckDuplicate(p) \/ \E d \in Docs : Load(p, d)
    BY DEF Next, Crash, Stop, Save, OpenRecord, WriteRecord, ReadIndex, OpenIndex, WriteIndex,
           Delete, OpenTombstone, WriteTombstone, UnlinkBytes, UnlinkRecord, UnlinkRenders,
           Render, LookInCache, ReadBytes, OpenRender, WriteRender, Ingest, StoreBytes, FillBytes,
           FillFails, Verify, vars, request
  <1>5. \A p \in Requests : Basis(doc[p], seen[p])'
    <2>1. CASE UNCHANGED <<doc, seen>>
      BY <1>2, <1>3, <2>1
    <2>2. ASSUME NEW p \in Requests, CheckDuplicate(p)
          PROVE  \A q \in Requests : Basis(doc[q], seen[q])'
      <3>1. seen'[p] = {}
        BY <2>2 DEF CheckDuplicate, Admitted, BasisInv
      <3>2. \A q \in Requests \ {p} : doc'[q] = doc[q] /\ seen'[q] = seen[q]
        BY <2>2 DEF CheckDuplicate, TypeOK
      <3>3. QED
        BY <1>2, <1>3, <3>1, <3>2 DEF Basis
    <2>3. ASSUME NEW p \in Requests, NEW d \in Docs, Load(p, d)
          PROVE  \A q \in Requests : Basis(doc[q], seen[q])'
      <3>1. \/ seen'[p] = {}
            \/ doc'[p] = d /\ Readable(record[d]) /\ seen'[p] = record[d]
        BY <2>3 DEF Load, Admitted, BasisInv, TypeOK
      <3>2. \A q \in Requests \ {p} : doc'[q] = doc[q] /\ seen'[q] = seen[q]
        BY <2>3 DEF Load, TypeOK
      <3>3. Basis(doc[p], seen[p])'
        BY <1>2, <1>3, <3>1 DEF Basis
      <3>4. QED
        BY <1>2, <1>3, <3>2, <3>3
    <2>4. QED
      BY <1>4, <2>1, <2>2, <2>3
  <1>6. \A p \in Requests : pc'[p] = "idle" => seen'[p] = {}
    <2>1. \A p \in Requests : pc'[p] = "idle" => pc[p] = "idle"
      BY <1>1 DEF Started
    <2>2. \A p \in Requests : pc'[p] = "idle" => seen'[p] = seen[p]
      BY <1>4 DEF CheckDuplicate, Load, Goto, FirstStep, TypeOK
    <2>3. QED
      BY <2>1, <2>2 DEF BasisInv
  <1>7. \A d \in Docs : Readable(record'[d]) => Basis(d, record[d])'
    <2>1. \/ UNCHANGED record
          \/ \E p \in Requests, c \in {Absent, Empty, Torn} :
               record' = [record EXCEPT ![doc[p]] = c]
          \/ \E p \in Requests :
               /\ pc[p] = "writerecord"
               /\ record' = [record EXCEPT ![doc[p]] = seen[p] \cup {p}]
      BY DEF Next, Crash, Stop, Load, CheckDuplicate, Save, OpenRecord, WriteRecord, ReadIndex,
             OpenIndex, WriteIndex, Delete, OpenTombstone, WriteTombstone, UnlinkBytes,
             UnlinkRecord, UnlinkRenders, Render, LookInCache, ReadBytes, OpenRender, WriteRender,
             Ingest, StoreBytes, FillBytes, FillFails, Verify, vars, files
    <2>2. CASE UNCHANGED record
      BY <1>2, <1>3, <2>2
    <2>3. ASSUME NEW p \in Requests, NEW c \in {Absent, Empty, Torn},
                 record' = [record EXCEPT ![doc[p]] = c]
          PROVE  \A d \in Docs : Readable(record'[d]) => Basis(d, record[d])'
      <3>1. \A d \in Docs : Readable(record'[d]) => record'[d] = record[d]
        BY <2>3 DEF TypeOK, Readable
      <3>2. QED
        BY <1>2, <1>3, <3>1
    <2>4. ASSUME NEW p \in Requests, pc[p] = "writerecord",
                 record' = [record EXCEPT ![doc[p]] = seen[p] \cup {p}]
          PROVE  \A d \in Docs : Readable(record'[d]) => Basis(d, record[d])'
      <3>1. doc[p] \in Docs /\ record'[doc[p]] = seen[p] \cup {p}
        BY <2>4 DEF TypeOK, DocKnown
      <3>2. Basis(doc[p], seen[p] \cup {p}) /\ seen[p] \cup {p} \in Content
        BY <1>3, <2>4 DEF Basis, Content
      <3>3. \A d \in Docs : d # doc[p] => record'[d] = record[d]
        BY <2>4 DEF TypeOK
      <3>4. QED
        BY <1>2, <1>3, <3>1, <3>2, <3>3
    <2>5. QED
      BY <2>1, <2>2, <2>3, <2>4
  <1>8. QED
    BY <1>5, <1>6, <1>7 DEF BasisInv, Readable

-----------------------------------------------------------------------------
(* The theorems *)

StoreInv == KeepInv /\ IndexInv /\ BasisInv

\* The three parts together are inductive.
LEMMA StoreInvariant == Spec => []StoreInv
  <1>1. Init => StoreInv
    BY KeepInit, IndexInit, BasisInit DEF StoreInv
  <1>2. StoreInv /\ [Next]_vars => StoreInv'
    BY KeepNext, IndexNext, BasisNext DEF StoreInv, KeepInv
  <1>3. QED
    BY <1>1, <1>2, PTL DEF Spec

\* The files and the requests stay well formed.
THEOREM StoreTypeCorrect == Spec => []TypeOK
  <1>1. StoreInv => TypeOK
    BY DEF StoreInv, KeepInv
  <1>2. QED
    BY <1>1, StoreInvariant, PTL

\* json_store.save: a decision is never on disk without those it was made upon,
\* whatever saves overlapped and whichever of them was lost.
THEOREM RecordsRestOnTheirBasis == Spec => []RecordHoldsItsBasis
  <1>1. StoreInv => RecordHoldsItsBasis
    BY DEF StoreInv, BasisInv, Basis, RecordHoldsItsBasis
  <1>2. QED
    BY <1>1, StoreInvariant, PTL

\* security/retention.py writes the tombstone first: what is gone has one,
\* wherever a deletion stopped.
THEOREM DeletionsAreRecorded == Spec => []DeletionIsRecorded
  <1>1. StoreInv => DeletionIsRecorded
    BY DEF StoreInv, KeepInv
  <1>2. QED
    BY <1>1, StoreInvariant, PTL

\* extraction/pipeline.py stores and re-hashes before anything is saved: a
\* record has its bytes unless a deletion took them.
THEOREM RecordsHaveTheirBytes == Spec => []RecordHasItsBytes
  <1>1. StoreInv => RecordHasItsBytes
    BY DEF StoreInv, KeepInv
  <1>2. QED
    BY <1>1, StoreInvariant, PTL

\* json_store.save writes the index last: it names documents that were saved.
THEOREM IndexIsOfSavedDocuments == Spec => []IndexNamesSavedDocuments
  <1>1. StoreInv => IndexNamesSavedDocuments
    BY DEF StoreInv, IndexInv
  <1>2. QED
    BY <1>1, StoreInvariant, PTL

\* 1.12, extraction/storage.py: no step writes over stored bytes.
THEOREM EvidenceIsNeverOverwritten == Spec => BytesNeverOverwritten
  <1> DEFINE Kept == \A h \in Hashes : bytes[h] = "whole" /\ bytes'[h] # "whole" =>
                       \E d \in Docs : HashOf[d] = h /\ tombstone[d] # "absent"
  <1>1. StoreInv /\ [Next]_vars => [Kept]_vars
    <2>1. SUFFICES ASSUME StoreInv, [Next]_vars PROVE Kept
      OBVIOUS
    <2>2. WholeBytesStay
      BY <2>1, KeepNext DEF StoreInv
    <2>3. QED
      BY <2>2 DEF WholeBytesStay, BytesDeleted
  <1>2. QED
    BY <1>1, StoreInvariant, PTL DEF Spec, BytesNeverOverwritten

-----------------------------------------------------------------------------
-----------------------------------------------------------------------------
(* What the requests noted of each other *)

Unlinking == {"openstone", "writestone", "unlinkbytes", "unlinkrecord"}
Indexed == {"readindex", "openindex", "writeindex"}
Rendering == {"cache", "readbytes", "openrender", "writerender"}
Storing == {"store", "fillbytes", "verify"}

\* The steps of each kind of request.
StepsAreTheirs ==
    \A p \in Requests :
        /\ pc[p] \in Saving \cup Indexed => p \in Reviews \cup Ingestions
        /\ pc[p] \in Unlinking \cup {"unlinkrenders"} => p \in Deletions
        /\ pc[p] \in Rendering => p \in Renders
        /\ pc[p] \in Storing => p \in Ingestions

\* Whoever meets now has been noted, and whoever was cut off has failed.
HistoryInv ==
    /\ met \in [Requests -> SUBSET Requests]
    /\ cut \in [Requests -> Halfway \cup {"none"}]
    /\ \A p, q \in Requests : Meet(p, q) => q \in met[p]
    /\ \A p \in Requests :
         /\ cut[p] # "none" => pc[p] = "failed"
         /\ cut[p] = "writerecord" => p \notin Renders
         /\ pc[p] = "idle" => doc[p] = NoDoc

-----------------------------------------------------------------------------
(* What becomes of a record, whichever requests meet on it *)

Unsaved == {"idle", "openrecord"} \cup Storing

\* A run writes the first record of a document that nobody else has found.
RunsAreFirst ==
    \A p \in Ingestions :
        /\ pc[p] # "idle" => doc[p] = NewDoc[p]
        /\ seen[p] = {}
        /\ pc[p] \in Unsaved => record[NewDoc[p]] = Absent
        /\ pc[p] = "writerecord" => record[NewDoc[p]] = Empty /\ p \notin orphaned
        /\ pc[p] \in Unsaved \cup {"writerecord"} =>
             /\ tombstone[NewDoc[p]] = "absent"
             /\ \A q \in Requests \ {p} : doc[q] = NewDoc[p] => pc[q] \in {"notfound", "failed"}

\* No decision is known before it is written.
Unwritten ==
    \A p \in Requests : pc[p] \in Unsaved \cup {"writerecord"} =>
        /\ \A d \in Docs : Readable(record[d]) => p \notin record[d]
        /\ \A q \in Requests : p \notin seen[q]

\* A review that met no other writes to the file it truncated, unless a deletion
\* it met has taken that file.
WritersWrite ==
    \A p \in Reviews : pc[p] = "writerecord" =>
        /\ p \in orphaned => met[p] \cap Deletions # {}
        /\ met[p] \cap Reviews = {} =>
             IF p \in orphaned THEN record[doc[p]] = Absent /\ tombstone[doc[p]] # "absent"
             ELSE record[doc[p]] = Empty

Answered == Indexed \cup {"done"}

\* A decision written by a review that met no other stays with the record, and
\* with every review that may write the record again.
DecisionsStay ==
    \A p \in Reviews : pc[p] \in Answered /\ met[p] \cap Reviews = {} =>
        /\ \/ Readable(record[doc[p]]) /\ p \in record[doc[p]]
           \/ record[doc[p]] \in {Empty, Torn}
           \/ record[doc[p]] = Absent /\ tombstone[doc[p]] # "absent"
        /\ \A q \in Reviews : pc[q] \in Saving /\ doc[q] = doc[p] => p \in seen[q]

\* Where a deletion that met no review took the record, nobody saves it again.
DeletionsAreFinal ==
    \A p \in Deletions : pc[p] \in {"unlinkrenders", "done"} /\ met[p] \cap Reviews = {} =>
        /\ record[doc[p]] = Absent
        /\ \A q \in Reviews : doc[q] = doc[p] => pc[q] \notin Saving

\* What a request found stays as it found it, until it meets another.
FoundStays ==
    \A p \in Requests : met[p] \subseteq Renders =>
        /\ p \in Reviews /\ pc[p] = "openrecord" =>
             Readable(record[doc[p]]) /\ seen[p] = record[doc[p]]
        /\ pc[p] \in Unlinking => Readable(record[doc[p]])

RecordInv ==
    /\ RunsAreFirst /\ Unwritten /\ WritersWrite /\ DecisionsStay /\ DeletionsAreFinal
    /\ FoundStays /\ ReviewSurvivesRestart

-----------------------------------------------------------------------------
(* What becomes of the pages *)

\* An unfinished file that is still there is filled by the one run that has it open.
FillersFill ==
    \A p \in Requests : pc[p] = "fillbytes" /\ p \notin orphaned =>
        /\ bytes[HashOf[doc[p]]] = "partial"
        /\ \A q \in Requests :
             pc[q] = "fillbytes" /\ q \notin orphaned /\ HashOf[doc[q]] = HashOf[doc[p]] => q = p

PageIsOpen ==
    \A p \in Requests : pc[p] = "writerender" /\ p \notin orphaned =>
        renders[HashOf[doc[p]]] # "absent"

\* Why a page of h may be there without its bytes.
Excuse(h) ==
    \E p \in Requests :
        /\ doc[p] \in Docs /\ HashOf[doc[p]] = h
        /\ \/ {pc[p], cut[p]} \cap {"unlinkrecord", "unlinkrenders"} # {}
           \/ met[p] \cap Renders # {}
           \/ cut[p] = "fillbytes" /\ p \in orphaned

\* A page there is or will be, made of bytes that are not there whole, has one.
PagesAreExcused ==
    \A h \in Hashes :
        /\ bytes[h] # "whole"
        /\ renders[h] # "absent" \/ \E p \in Requests : pc[p] = "openrender" /\ HashOf[doc[p]] = h
        => Excuse(h)

PageInv == FillersFill /\ PageIsOpen /\ PagesAreExcused

-----------------------------------------------------------------------------
(* One step of any request *)

\* A step belongs to the kind of request the code gives it to.
LEMMA KindsNext ==
    ASSUME TypeOK, StepsAreTheirs, [Next]_vars
    PROVE  StepsAreTheirs'
  <1> USE DEF TypeOK, StepsAreTheirs, Saving, Indexed, Unlinking, Rendering, Storing, Goto
  <1>1. ASSUME NEW p \in Requests, NEW d \in Docs, Load(p, d)
        PROVE  StepsAreTheirs'
    BY <1>1, StoreAssumption DEF Load, FirstStep, Requests
  <1>2. ASSUME NEW p \in Requests, CheckDuplicate(p)
        PROVE  StepsAreTheirs'
    BY <1>2 DEF CheckDuplicate
  <1>3. ASSUME NEW p \in Requests, Save(p)
        PROVE  StepsAreTheirs'
    BY <1>3 DEF Save, OpenRecord, WriteRecord, ReadIndex, OpenIndex, WriteIndex
  <1>4. ASSUME NEW p \in Requests, Delete(p)
        PROVE  StepsAreTheirs'
    BY <1>4 DEF Delete, OpenTombstone, WriteTombstone, UnlinkBytes, UnlinkRecord, UnlinkRenders
  <1>5. ASSUME NEW p \in Requests, Render(p) \/ Ingest(p)
        PROVE  StepsAreTheirs'
    BY <1>5 DEF Render, LookInCache, ReadBytes, OpenRender, WriteRender, Ingest, StoreBytes, FillBytes,
                FillFails, Verify
  <1>6. ASSUME NEW P, Stop(P)
        PROVE  StepsAreTheirs'
    BY <1>6 DEF Stop
  <1>7. CASE UNCHANGED vars
    BY <1>7 DEF vars
  <1>8. QED
    BY <1>1, <1>2, <1>3, <1>4, <1>5, <1>6, <1>7 DEF Next, Crash

\* A request that ended stays as it ended, and one is about a document only
\* once it began.
Onward ==
    \A p \in Requests :
        /\ pc[p] \in Ended => pc'[p] = pc[p]
        /\ pc'[p] = "idle" => doc'[p] = doc[p]

LEMMA StepsGoOnward ==
    ASSUME TypeOK, [Next]_vars
    PROVE  Onward
  <1> USE DEF TypeOK, Onward, Ended, Goto
  <1>1. ASSUME NEW p \in Requests, NEW d \in Docs, Load(p, d)
        PROVE  Onward
    BY <1>1 DEF Load, Admitted, FirstStep
  <1>2. ASSUME NEW p \in Requests, CheckDuplicate(p)
        PROVE  Onward
    BY <1>2 DEF CheckDuplicate, Admitted
  <1>3. ASSUME NEW p \in Requests, Save(p)
        PROVE  Onward
    BY <1>3 DEF Save, OpenRecord, WriteRecord, ReadIndex, OpenIndex, WriteIndex, request
  <1>4. ASSUME NEW p \in Requests, Delete(p)
        PROVE  Onward
    BY <1>4 DEF Delete, OpenTombstone, WriteTombstone, UnlinkBytes, UnlinkRecord, UnlinkRenders, request
  <1>5. ASSUME NEW p \in Requests, Render(p) \/ Ingest(p)
        PROVE  Onward
    BY <1>5 DEF Render, LookInCache, ReadBytes, OpenRender, WriteRender, Ingest, StoreBytes, FillBytes,
                FillFails, Verify, request
  <1>6. ASSUME NEW P, Stop(P)
        PROVE  Onward
    BY <1>6 DEF Stop, Active
  <1>7. CASE UNCHANGED vars
    BY <1>7 DEF vars, request
  <1>8. QED
    BY <1>1, <1>2, <1>3, <1>4, <1>5, <1>6, <1>7 DEF Next, Crash

\* Meetings are never forgotten, and a request is noted as cut off when it is.
HistoryStep ==
    /\ \A p \in Requests :
         /\ met[p] \subseteq met'[p]
         /\ \A q \in met'[p] : q \in met[p] \/ Meet(p, q)'
         /\ pc[p] \in Halfway /\ pc'[p] = "failed" => cut'[p] = pc[p]
         /\ ~(pc[p] \in Halfway /\ pc'[p] = "failed") => cut'[p] = cut[p]
    /\ HistoryInv'

LEMMA HistoryNext ==
    ASSUME TypeOK, TypeOK', DocKnown, StepsAreTheirs, HistoryInv, [LogNext]_<<vars, history>>
    PROVE  HistoryStep
  <1>1. [Next]_vars
    BY DEF LogNext, history
  <1>2. Started /\ Onward
    BY <1>1, RequestsKeepTheirDocument, StepsGoOnward
  <1>3. CASE LogNext
    <2>1. /\ met' = [p \in Requests |-> met[p] \cup {q \in Requests : Meet(p, q)'}]
          /\ cut' = [p \in Requests |-> IF pc[p] \in Halfway /\ pc'[p] = "failed" THEN pc[p] ELSE cut[p]]
      BY <1>3 DEF LogNext, Noted
    <2>2. ASSUME NEW p \in Requests
          PROVE  /\ met'[p] = met[p] \cup {q \in Requests : Meet(p, q)'}
                 /\ cut'[p] = IF pc[p] \in Halfway /\ pc'[p] = "failed" THEN pc[p] ELSE cut[p]
      BY <2>1
    <2> HIDE <1>3
    <2>3. /\ met' \in [Requests -> SUBSET Requests]
          /\ cut' \in [Requests -> Halfway \cup {"none"}]
      BY <2>1 DEF HistoryInv
    <2>4. \A p, q \in Requests : Meet(p, q)' => q \in met'[p]
      BY <2>2
    <2>5. ASSUME NEW p \in Requests
          PROVE  /\ cut'[p] # "none" => pc'[p] = "failed"
                 /\ cut'[p] = "writerecord" => p \notin Renders
      <3>1. CASE pc[p] \in Halfway /\ pc'[p] = "failed"
        BY <2>2, <3>1, StoreAssumption DEF StepsAreTheirs, Saving
      <3>2. CASE ~(pc[p] \in Halfway /\ pc'[p] = "failed")
        <4>1. cut'[p] = cut[p]
          BY <2>2, <3>2
        <4>2. cut[p] # "none" => pc'[p] = "failed"
          BY <1>2 DEF HistoryInv, Onward, Ended
        <4>3. QED
          BY <4>1, <4>2 DEF HistoryInv
      <3>3. QED
        BY <3>1, <3>2
    <2>6. \A p \in Requests : pc'[p] = "idle" => doc'[p] = NoDoc
      BY <1>2 DEF HistoryInv, Onward, Started
    <2>7. HistoryInv'
      BY <2>3, <2>4, <2>5, <2>6 DEF HistoryInv
    <2>8. QED
      BY <2>2, <2>7 DEF HistoryStep
  <1>4. CASE UNCHANGED <<vars, history>>
    <2>1. UNCHANGED <<pc, doc, met, cut>>
      BY <1>4 DEF vars, request, history
    <2>2. HistoryInv'
      BY <2>1 DEF HistoryInv, Meet
    <2>3. QED
      BY <2>1, <2>2 DEF HistoryStep, Halfway
  <1>5. QED
    BY <1>3, <1>4

-----------------------------------------------------------------------------
(* One step of a record *)

\* A route that found the record.
Loaded(p) ==
    /\ p \in Reviews \cup Deletions
    /\ pc[p] = "idle" /\ doc'[p] \in Docs
    /\ Readable(record[doc'[p]]) /\ seen'[p] = record[doc'[p]]

\* A step that leaves each record as it is, as one request sees it.
Passes(p) ==
    /\ pc'[p] = "openrecord" => pc[p] = "openrecord" \/ Loaded(p) \/ p \in Ingestions
    /\ pc'[p] = "writerecord" => pc[p] = "writerecord"
    /\ pc[p] = "writerecord" => pc'[p] \in {"writerecord", "failed"}
    /\ pc[p] \in {"writerecord", "failed"} => (p \in orphaned' <=> p \in orphaned)
    /\ pc'[p] \in Unsaved => pc[p] \in Unsaved
    /\ p \in Reviews /\ pc'[p] \in Answered => pc[p] \in Answered
    /\ p \in Deletions /\ pc'[p] \in {"unlinkrenders", "done"} => pc[p] \in {"unlinkrenders", "done"}
    /\ pc'[p] \in Unlinking => pc[p] \in Unlinking \/ Loaded(p)

\* What a request begins with.
Begins(p) ==
    pc[p] = "idle" /\ pc'[p] # "idle" =>
        /\ p \in Ingestions => doc'[p] = NewDoc[p] /\ seen'[p] = seen[p]
        /\ p \notin Ingestions /\ pc'[p] \notin {"notfound", "failed"} => Readable(record[doc'[p]])
        /\ p \notin Ingestions => seen'[p] = seen[p] \/ (doc'[p] \in Docs /\ seen'[p] = record[doc'[p]] /\ Readable(record[doc'[p]]))

Aside ==
    /\ UNCHANGED record
    /\ \A p \in Requests : Passes(p) /\ Begins(p)

\* A tombstone is touched by a deletion at work on it.
TombstonesAreTheirs ==
    \A d \in Docs : tombstone'[d] = tombstone[d] \/
        \E p \in Deletions : pc[p] \in {"openstone", "writestone"} /\ doc[p] = d

LEMMA RecordSteps ==
    ASSUME TypeOK, DocKnown, StepsAreTheirs, [Next]_vars
    PROVE  /\ Aside \/ \E p \in Requests : OpenRecord(p) \/ WriteRecord(p) \/ UnlinkRecord(p)
           /\ TombstonesAreTheirs
  <1> DEFINE Known == Aside /\ TombstonesAreTheirs
  <1>1. \A p \in Deletions : p \in Requests
    BY DEF Requests
  <1> USE DEF Passes, Aside, Unsaved, Storing, Answered, Indexed, Unlinking, Goto
  <1>2. ASSUME NEW p \in Requests, NEW d \in Docs, Load(p, d)
        PROVE  Known
    <2>1. /\ pc[p] = "idle" /\ p \notin Ingestions /\ doc'[p] = d
          /\ pc' = [pc EXCEPT ![p] = pc'[p]]
          /\ pc'[p] \in {"openrecord", "openstone", "cache", "notfound", "failed"}
          /\ \A q \in Requests \ {p} : doc'[q] = doc[q] /\ seen'[q] = seen[q]
          /\ UNCHANGED <<record, tombstone, orphaned>>
      BY <1>2 DEF Load, Admitted, FirstStep, files, TypeOK
    <2>2. \/ pc'[p] \in {"notfound", "failed"} /\ seen' = seen
          \/ Readable(record[d]) /\ seen'[p] = record[d]
      BY <1>2 DEF Load, FirstStep, TypeOK
    <2>3. pc'[p] \in {"openrecord", "openstone"} => Loaded(p)
      <3>1. pc'[p] \in {"openrecord", "openstone"} => p \in Reviews \cup Deletions
        BY <1>2 DEF Load, FirstStep, TypeOK
      <3>2. QED
        BY <2>1, <2>2, <3>1 DEF Loaded
    <2>4. ASSUME NEW q \in Requests
          PROVE  Passes(q)
      BY <2>1, <2>3 DEF TypeOK
    <2>5. ASSUME NEW q \in Requests
          PROVE  Begins(q)
      BY <2>1, <2>2 DEF TypeOK, Begins
    <2>6. QED
      BY <2>1, <2>4, <2>5 DEF TombstonesAreTheirs
  <1>3. ASSUME NEW p \in Requests, CheckDuplicate(p)
        PROVE  Known
    <2>1. /\ pc[p] = "idle" /\ p \in Ingestions /\ doc'[p] = NewDoc[p]
          /\ pc' = [pc EXCEPT ![p] = pc'[p]]
          /\ pc'[p] \in {"store", "refused", "failed"}
          /\ \A q \in Requests \ {p} : doc'[q] = doc[q]
          /\ UNCHANGED <<record, tombstone, orphaned, seen>>
      BY <1>3 DEF CheckDuplicate, Admitted, files, TypeOK
    <2>2. p \notin Reviews \cup Deletions
      BY <2>1, StoreAssumption
    <2>3. ASSUME NEW q \in Requests
          PROVE  Passes(q) /\ Begins(q)
      BY <2>1, <2>2 DEF TypeOK, Begins
    <2>4. QED
      BY <2>1, <2>3 DEF TombstonesAreTheirs
  <1>4. ASSUME NEW p \in Requests, ReadIndex(p) \/ OpenIndex(p) \/ WriteIndex(p)
        PROVE  Known
    <2>1. /\ pc[p] \in Indexed /\ pc' = [pc EXCEPT ![p] = pc'[p]]
          /\ pc'[p] \in {"openindex", "writeindex", "done", "failed"}
          /\ UNCHANGED <<record, tombstone, orphaned>>
      BY <1>4 DEF ReadIndex, OpenIndex, WriteIndex, files, TypeOK
    <2>2. p \notin Deletions
      BY <2>1, StoreAssumption DEF StepsAreTheirs
    <2>3. ASSUME NEW q \in Requests
          PROVE  Passes(q) /\ Begins(q)
      BY <2>1, <2>2 DEF TypeOK, Begins
    <2>4. QED
      BY <2>1, <2>3 DEF TombstonesAreTheirs
  <1>5. ASSUME NEW p \in Requests, OpenTombstone(p) \/ WriteTombstone(p) \/ UnlinkBytes(p) \/ UnlinkRenders(p)
        PROVE  Known
    <2>1. /\ pc[p] \in {"openstone", "writestone", "unlinkbytes", "unlinkrenders"}
          /\ pc' = [pc EXCEPT ![p] = pc'[p]]
          /\ pc'[p] \in {"writestone", "unlinkbytes", "unlinkrecord", "done"}
          /\ pc'[p] = "done" <=> pc[p] = "unlinkrenders"
          /\ \A q \in Requests : pc[q] \in {"writerecord", "failed"} => (q \in orphaned' <=> q \in orphaned)
          /\ UNCHANGED record
      BY <1>5 DEF OpenTombstone, WriteTombstone, UnlinkBytes, UnlinkRenders, Orphan, TypeOK
    <2>2. p \in Deletions /\ p \notin Reviews
      BY <2>1, StoreAssumption DEF StepsAreTheirs
    <2>3. ASSUME NEW q \in Requests
          PROVE  Passes(q) /\ Begins(q)
      BY <2>1, <2>2 DEF TypeOK, Begins
    <2>4. TombstonesAreTheirs
      BY <1>5, <2>2 DEF OpenTombstone, WriteTombstone, UnlinkBytes, UnlinkRenders, TombstonesAreTheirs, TypeOK
    <2>5. QED
      BY <2>1, <2>3, <2>4
  <1>6. ASSUME NEW p \in Requests, Render(p)
        PROVE  Known
    <2>1. /\ pc[p] \in Rendering /\ pc' = [pc EXCEPT ![p] = pc'[p]]
          /\ pc'[p] \in {"readbytes", "openrender", "writerender", "done", "broken", "failed"}
          /\ orphaned' = orphaned \/ (pc[p] = "openrender" /\ orphaned' = orphaned \ {p})
          /\ UNCHANGED <<record, tombstone>>
      BY <1>6 DEF Render, LookInCache, ReadBytes, OpenRender, WriteRender, Rendering, files, TypeOK
    <2>2. p \notin Reviews \cup Deletions
      BY <2>1, StoreAssumption DEF StepsAreTheirs
    <2>3. ASSUME NEW q \in Requests
          PROVE  Passes(q) /\ Begins(q)
      BY <2>1, <2>2 DEF TypeOK, Begins, Rendering
    <2>4. QED
      BY <2>1, <2>3 DEF TombstonesAreTheirs
  <1>7. ASSUME NEW p \in Requests, Ingest(p)
        PROVE  Known
    <2>1. /\ pc[p] \in Storing /\ pc' = [pc EXCEPT ![p] = pc'[p]]
          /\ pc'[p] \in {"fillbytes", "verify", "openrecord", "overwrite", "failed"}
          /\ \A q \in Requests : pc[q] \in {"writerecord", "failed"} => (q \in orphaned' <=> q \in orphaned)
          /\ UNCHANGED <<record, tombstone>>
      BY <1>7 DEF Ingest, StoreBytes, FillBytes, FillFails, Verify, Orphan, files, TypeOK
    <2>2. p \in Ingestions
      BY <2>1 DEF StepsAreTheirs
    <2>3. ASSUME NEW q \in Requests
          PROVE  Passes(q) /\ Begins(q)
      BY <2>1, <2>2 DEF TypeOK, Begins
    <2>4. QED
      BY <2>1, <2>3 DEF TombstonesAreTheirs
  <1>8. ASSUME NEW P, Stop(P)
        PROVE  Known
    <2>1. /\ \A q \in Requests : pc'[q] = pc[q] \/ (pc[q] # "idle" /\ pc'[q] = "failed")
          /\ UNCHANGED <<record, tombstone, orphaned>>
      BY <1>8 DEF Stop, Active, files, TypeOK
    <2>2. QED
      BY <2>1 DEF Begins, TombstonesAreTheirs
  <1>9. ASSUME UNCHANGED vars
        PROVE  Known
    BY <1>9 DEF vars, files, Begins, TombstonesAreTheirs
  <1>10. ASSUME NEW p \in Requests, OpenRecord(p) \/ WriteRecord(p) \/ UnlinkRecord(p)
         PROVE  TombstonesAreTheirs
    BY <1>10 DEF OpenRecord, WriteRecord, UnlinkRecord, TombstonesAreTheirs
  <1> DEFINE Result == Known \/ (TombstonesAreTheirs /\ \E p \in Requests : OpenRecord(p) \/ WriteRecord(p) \/ UnlinkRecord(p))
  <1> HIDE DEF Aside, Known, Goto
  <1>11. ASSUME NEW p \in Requests, Save(p) \/ Delete(p)
         PROVE  Result
    BY <1>4, <1>5, <1>10, <1>11 DEF Save, Delete
  <1>12. Result
    <2> HIDE DEF Result
    <2>1. Known => Result
      BY DEF Result
    <2>2. QED
      BY <1>2, <1>3, <1>6, <1>7, <1>8, <1>9, <1>11, <2>1 DEF Next, Crash
  <1>13. QED
    BY <1>12 DEF Known

\* What a step finds and what is known of any step.
StepHyp ==
    /\ TypeOK /\ TypeOK' /\ DocKnown /\ BasisInv' /\ DeletingHasTombstone
    /\ StepsAreTheirs /\ HistoryInv /\ RecordInv
    /\ Started /\ Onward /\ HistoryStep /\ TombstonesStay /\ TombstonesAreTheirs

\* While a run writes the first record of a document, no other request is at work on it.
LEMMA RunsAreAlone ==
    ASSUME RunsAreFirst, NEW p \in Ingestions, pc[p] \in Unsaved \cup {"writerecord"},
           NEW q \in Requests, q # p, doc[q] = NewDoc[p]
    PROVE  pc[q] \in {"notfound", "failed"}
  BY DEF RunsAreFirst

\* Two requests at work on one record have met.
LEMMA ChangingMeet ==
    ASSUME HistoryInv, NEW p \in Requests, NEW q \in Requests, p # q, doc[p] = doc[q],
           pc[p] \in Changing, pc[q] \in Changing
    PROVE  q \in met[p]
  BY DEF HistoryInv, Meet

\* A step aside disturbs nothing that is known of the records.
LEMMA AsideKeepsRecords ==
    ASSUME StepHyp, Aside
    PROVE  RecordInv'
  <1> USE DEF StepHyp
  <1>1. /\ \A p \in Requests : Passes(p) /\ Begins(p)
        /\ UNCHANGED record
    BY DEF Aside
  <1>2. \A p \in Requests : pc'[p] # "idle" /\ pc[p] # "idle" => doc'[p] = doc[p] /\ seen'[p] = seen[p]
    BY DEF Started
  <1>3. \A p \in Requests : pc'[p] = "idle" => pc[p] = "idle" /\ doc'[p] = NoDoc /\ seen'[p] = {}
    BY DEF Started, Onward, HistoryInv, BasisInv
  <1>4. \A p \in Requests : met[p] \subseteq met'[p]
    BY DEF HistoryStep
  <1>5. /\ Reviews \subseteq Requests /\ Deletions \subseteq Requests /\ Ingestions \subseteq Requests
        /\ Reviews \cap Ingestions = {} /\ Deletions \cap Ingestions = {} /\ Reviews \cap Deletions = {}
    BY StoreAssumption DEF Requests
  <1>6. RunsAreFirst'
    <2>1. ASSUME NEW p \in Ingestions
          PROVE  /\ pc'[p] # "idle" => doc'[p] = NewDoc[p]
                 /\ seen'[p] = {}
      <3>1. p \in Requests /\ (pc[p] # "idle" => doc[p] = NewDoc[p]) /\ seen[p] = {}
        BY <1>5 DEF RecordInv, RunsAreFirst
      <3>2. QED
        BY <1>1, <1>2, <1>3, <3>1 DEF Begins
    <2>2. ASSUME NEW p \in Ingestions, pc'[p] \in Unsaved
          PROVE  record'[NewDoc[p]] = Absent
      BY <1>1, <1>5, <2>2 DEF Passes, RecordInv, RunsAreFirst
    <2>3. ASSUME NEW p \in Ingestions, pc'[p] = "writerecord"
          PROVE  record'[NewDoc[p]] = Empty /\ p \notin orphaned'
      BY <1>1, <1>5, <2>3 DEF Passes, RecordInv, RunsAreFirst
    <2>4. ASSUME NEW p \in Ingestions, pc'[p] \in Unsaved \cup {"writerecord"}
          PROVE  tombstone'[NewDoc[p]] = "absent"
      <3>1. pc[p] \in Unsaved \cup {"writerecord"} /\ NewDoc[p] \in Docs
        BY <1>1, <1>5, <2>4, StoreAssumption DEF Passes
      <3>2. tombstone[NewDoc[p]] = "absent"
        BY <3>1 DEF RecordInv, RunsAreFirst
      <3>3. ASSUME NEW q \in Deletions, pc[q] \in {"openstone", "writestone"}, doc[q] = NewDoc[p]
            PROVE  FALSE
        BY <1>5, <3>1, <3>3, RunsAreAlone DEF RecordInv
      <3>4. QED
        BY <3>1, <3>2, <3>3 DEF TombstonesAreTheirs
    <2>5. ASSUME NEW p \in Ingestions, pc'[p] \in Unsaved \cup {"writerecord"},
                 NEW q \in Requests \ {p}, doc'[q] = NewDoc[p]
          PROVE  pc'[q] \in {"notfound", "failed"}
      <3>1. pc[p] \in Unsaved \cup {"writerecord"} /\ NewDoc[p] \in Docs
        BY <1>1, <1>5, <2>5, StoreAssumption DEF Passes
      <3>2. CASE pc[q] # "idle"
        <4>1. doc[q] = NewDoc[p]
          BY <2>5, <3>2 DEF Started
        <4>2. pc[q] \in {"notfound", "failed"}
          BY <1>5, <3>1, <4>1, RunsAreAlone DEF RecordInv
        <4>3. QED
          BY <4>2 DEF Onward, Ended
      <3>3. CASE pc[q] = "idle"
        <4>1. pc'[q] # "idle"
          BY <1>3, <2>5, <3>1, StoreAssumption
        <4>2. q \notin Ingestions
          BY <1>1, <2>5, <3>3, <4>1, StoreAssumption DEF Begins
        <4>3. ~Readable(record[NewDoc[p]])
          BY <3>1 DEF RecordInv, RunsAreFirst, Readable
        <4>4. QED
          BY <1>1, <2>5, <3>3, <4>1, <4>2, <4>3 DEF Begins
      <3>4. QED
        BY <3>2, <3>3
    <2>6. QED
      BY <2>1, <2>2, <2>3, <2>4, <2>5 DEF RunsAreFirst
  <1>7. Unwritten'
    <2>1. ASSUME NEW p \in Requests, pc'[p] \in Unsaved \cup {"writerecord"}
          PROVE  /\ \A d \in Docs : Readable(record'[d]) => p \notin record'[d]
                 /\ \A q \in Requests : p \notin seen'[q]
      <3>1. pc[p] \in Unsaved \cup {"writerecord"}
        BY <1>1, <2>1 DEF Passes
      <3>2. /\ \A d \in Docs : Readable(record[d]) => p \notin record[d]
            /\ \A q \in Requests : p \notin seen[q]
        BY <3>1 DEF RecordInv, Unwritten
      <3>3. ASSUME NEW q \in Requests
            PROVE  p \notin seen'[q]
        <4>1. CASE pc[q] # "idle"
          BY <3>2, <4>1 DEF Started
        <4>2. CASE pc'[q] = "idle"
          BY <1>3, <4>2
        <4>3. CASE pc[q] = "idle" /\ pc'[q] # "idle"
          BY <1>1, <3>2, <4>3 DEF Begins
        <4>4. QED
          BY <4>1, <4>2, <4>3
      <3>4. QED
        BY <1>1, <3>2, <3>3
    <2>2. QED
      BY <2>1 DEF Unwritten
  <1>8. WritersWrite'
    <2>1. ASSUME NEW p \in Reviews, pc'[p] = "writerecord"
          PROVE  /\ pc[p] = "writerecord" /\ doc'[p] = doc[p] /\ doc[p] \in Docs
                 /\ (p \in orphaned' <=> p \in orphaned) /\ met[p] \subseteq met'[p]
      BY <1>1, <1>4, <1>5, <2>1 DEF Passes, Started, DocKnown
    <2>2. QED
      BY <1>1, <2>1 DEF RecordInv, WritersWrite, TombstonesStay
  <1>9. DecisionsStay'
    <2>1. ASSUME NEW p \in Reviews, pc'[p] \in Answered, met'[p] \cap Reviews = {}
          PROVE  /\ pc[p] \in Answered /\ met[p] \cap Reviews = {}
                 /\ doc'[p] = doc[p] /\ doc[p] \in Docs
      BY <1>1, <1>4, <1>5, <2>1 DEF Passes, Started, DocKnown, Answered, Indexed
    <2>2. ASSUME NEW p \in Reviews, pc'[p] \in Answered, met'[p] \cap Reviews = {},
                 NEW q \in Reviews, pc'[q] \in Saving, doc'[q] = doc'[p]
          PROVE  p \in seen'[q]
      <3>1. pc[q] \in Saving \/ Loaded(q)
        BY <1>1, <1>5, <2>2 DEF Passes, Saving
      <3>2. CASE pc[q] \in Saving
        <4>1. doc'[q] = doc[q] /\ seen'[q] = seen[q]
          BY <1>5, <3>2 DEF Started, Saving
        <4>2. QED
          BY <2>1, <2>2, <3>2, <4>1 DEF RecordInv, DecisionsStay
      <3>3. CASE Loaded(q)
        <4>1. Readable(record[doc[p]]) /\ seen'[q] = record[doc[p]]
          BY <2>1, <2>2, <3>3 DEF Loaded
        <4>2. QED
          BY <2>1, <2>2, <4>1 DEF RecordInv, DecisionsStay, Readable
      <3>4. QED
        BY <3>1, <3>2, <3>3
    <2>3. ASSUME NEW p \in Reviews, pc'[p] \in Answered, met'[p] \cap Reviews = {}
          PROVE  \/ Readable(record'[doc'[p]]) /\ p \in record'[doc'[p]]
                 \/ record'[doc'[p]] \in {Empty, Torn}
                 \/ record'[doc'[p]] = Absent /\ tombstone'[doc'[p]] # "absent"
      BY <1>1, <2>1, <2>3 DEF RecordInv, DecisionsStay, TombstonesStay
    <2>4. QED
      BY <2>2, <2>3 DEF DecisionsStay
  <1>10. DeletionsAreFinal'
    <2>1. ASSUME NEW p \in Deletions, pc'[p] \in {"unlinkrenders", "done"}, met'[p] \cap Reviews = {}
          PROVE  /\ record[doc[p]] = Absent /\ doc'[p] = doc[p]
                 /\ \A q \in Reviews : doc[q] = doc[p] => pc[q] \notin Saving
      <3>1. pc[p] \in {"unlinkrenders", "done"} /\ met[p] \cap Reviews = {} /\ p \in Requests
        BY <1>1, <1>4, <1>5, <2>1 DEF Passes
      <3>2. QED
        BY <3>1 DEF RecordInv, DeletionsAreFinal, Started
    <2>2. ASSUME NEW p \in Deletions, pc'[p] \in {"unlinkrenders", "done"}, met'[p] \cap Reviews = {},
                 NEW q \in Reviews, doc'[q] = doc'[p], pc'[q] \in Saving
          PROVE  FALSE
      <3>1. pc[q] \in Saving \/ Loaded(q)
        BY <1>1, <1>5, <2>2 DEF Passes, Saving
      <3>2. CASE pc[q] \in Saving
        <4>1. doc'[q] = doc[q]
          BY <1>5, <3>2 DEF Started, Saving
        <4>2. QED
          BY <2>1, <2>2, <3>2, <4>1
      <3>3. CASE Loaded(q)
        BY <2>1, <2>2, <3>3 DEF Loaded, Readable
      <3>4. QED
        BY <3>1, <3>2, <3>3
    <2>3. QED
      BY <1>1, <2>1, <2>2 DEF DeletionsAreFinal
  <1>11. FoundStays'
    <2>1. ASSUME NEW p \in Requests, met'[p] \subseteq Renders, p \in Reviews, pc'[p] = "openrecord"
          PROVE  Readable(record'[doc'[p]]) /\ seen'[p] = record'[doc'[p]]
      <3>1. pc[p] = "openrecord" \/ Loaded(p)
        BY <1>1, <1>5, <2>1 DEF Passes
      <3>2. CASE pc[p] = "openrecord"
        BY <1>1, <1>4, <2>1, <3>2 DEF Started, RecordInv, FoundStays
      <3>3. QED
        BY <1>1, <3>1, <3>2 DEF Loaded
    <2>2. ASSUME NEW p \in Requests, met'[p] \subseteq Renders, pc'[p] \in Unlinking
          PROVE  Readable(record'[doc'[p]])
      <3>1. pc[p] \in Unlinking \/ Loaded(p)
        BY <1>1, <2>2 DEF Passes
      <3>2. CASE pc[p] \in Unlinking
        <4>1. doc'[p] = doc[p] /\ met[p] \subseteq Renders
          BY <1>4, <2>2, <3>2 DEF Started, Unlinking
        <4>2. QED
          BY <1>1, <3>2, <4>1 DEF RecordInv, FoundStays
      <3>3. QED
        BY <1>1, <3>1, <3>2 DEF Loaded
    <2>3. QED
      BY <2>1, <2>2 DEF FoundStays
  <1>12. ReviewSurvivesRestart'
    <2>1. ASSUME NEW d \in Docs, record[d] = Empty
          PROVE  \E p \in Requests : doc'[p] = d /\ p \notin orphaned' /\ "writerecord" \in {pc'[p], cut'[p]}
      <3>1. PICK p \in Requests : doc[p] = d /\ p \notin orphaned /\ "writerecord" \in {pc[p], cut[p]}
        BY <2>1 DEF RecordInv, ReviewSurvivesRestart
      <3>2. CASE pc[p] = "writerecord"
        <4>1. doc'[p] = doc[p] /\ p \notin orphaned' /\ pc'[p] \in {"writerecord", "failed"}
          BY <1>1, <3>1, <3>2 DEF Passes, Started
        <4>2. pc'[p] = "failed" => cut'[p] = "writerecord"
          BY <3>2 DEF HistoryStep, Halfway
        <4>3. QED
          BY <3>1, <4>1, <4>2
      <3>3. CASE cut[p] = "writerecord"
        <4>1. pc[p] = "failed"
          BY <3>3 DEF HistoryInv
        <4>2. cut'[p] = cut[p] /\ doc'[p] = doc[p] /\ p \notin orphaned'
          BY <1>1, <3>1, <4>1 DEF HistoryStep, Halfway, Passes, Started
        <4>3. QED
          BY <3>1, <3>3, <4>2
      <3>4. QED
        BY <3>1, <3>2, <3>3
    <2>2. ASSUME NEW d \in Docs, record[d] = Torn
          PROVE  \E p \in Reviews : doc'[p] = d /\ met'[p] \cap Reviews # {}
      <3>1. PICK p \in Reviews : doc[p] = d /\ met[p] \cap Reviews # {}
        BY <2>2 DEF RecordInv, ReviewSurvivesRestart
      <3>2. pc[p] # "idle"
        BY <1>5, <3>1, StoreAssumption DEF HistoryInv
      <3>3. QED
        BY <1>4, <1>5, <3>1, <3>2 DEF Started
    <2>3. QED
      BY <1>1, <2>1, <2>2 DEF ReviewSurvivesRestart
  <1>13. QED
    BY <1>6, <1>7, <1>8, <1>9, <1>10, <1>11, <1>12 DEF RecordInv

\* A step of p on the file of its record d.
OnRecord(p, d) ==
    /\ doc[p] = d /\ d \in Docs /\ pc[p] \in Changing
    /\ UNCHANGED <<doc, seen, tombstone>>
    /\ \A e \in Docs \ {d} : record'[e] = record[e]
    /\ \A q \in Requests \ {p} : pc'[q] = pc[q]

\* What p's step on d finds of the other requests that have to do with d.
OthersOn(p, d) ==
    /\ \A q \in Ingestions \ {p} : pc[q] \in Unsaved \cup {"writerecord"} => NewDoc[q] # d /\ doc[q] # d
    /\ \A q \in Requests \ {p} : doc[q] = d /\ pc[q] \in Changing => p \in met[q] /\ q \in met[p]
    /\ p \in Ingestions => \A q \in Requests \ {p} : doc[q] = d => pc[q] \in {"notfound", "failed"}

LEMMA OthersOnRecord ==
    ASSUME StepHyp, NEW p \in Requests, NEW d \in Docs, OnRecord(p, d),
           p \in Ingestions => pc[p] \in Unsaved \cup {"writerecord"}
    PROVE  OthersOn(p, d)
  <1> USE DEF StepHyp, OnRecord
  <1>1. ASSUME NEW q \in Ingestions, q # p, pc[q] \in Unsaved \cup {"writerecord"}
        PROVE  NewDoc[q] # d /\ doc[q] # d
    <2>1. NewDoc[q] # d
      BY <1>1, RunsAreAlone DEF RecordInv, Changing
    <2>2. q \in Requests /\ (pc[q] = "idle" => doc[q] = NoDoc) /\ (pc[q] # "idle" => doc[q] = NewDoc[q])
      BY DEF Requests, HistoryInv, RecordInv, RunsAreFirst
    <2>3. QED
      BY <2>1, <2>2, StoreAssumption
  <1>2. ASSUME NEW q \in Requests \ {p}, doc[q] = d, pc[q] \in Changing
        PROVE  p \in met[q] /\ q \in met[p]
    BY <1>2, ChangingMeet
  <1>3. ASSUME p \in Ingestions, NEW q \in Requests \ {p}, doc[q] = d
        PROVE  pc[q] \in {"notfound", "failed"}
    <2>1. doc[p] = NewDoc[p]
      BY <1>3 DEF RecordInv, RunsAreFirst, Changing
    <2>2. QED
      BY <1>3, <2>1, RunsAreAlone DEF RecordInv
  <1>4. QED
    BY <1>1, <1>2, <1>3 DEF OthersOn

\* save truncates the record: what it held stays with whoever loaded it.
LEMMA OpenRecordKeepsRecords ==
    ASSUME StepHyp, NEW p \in Requests, OpenRecord(p)
    PROVE  RecordInv'
  <1> DEFINE d == doc[p]
  <1> USE DEF StepHyp
  <1>1. /\ pc[p] = "openrecord" /\ pc'[p] = "writerecord" /\ d \in Docs
        /\ record'[d] = Empty /\ orphaned' = orphaned \ {p}
        /\ OnRecord(p, d)
    <2>1. pc[p] = "openrecord" /\ d \in Docs
      BY DEF OpenRecord, DocKnown
    <2>2. QED
      BY <2>1 DEF OpenRecord, Goto, TypeOK, OnRecord, Changing, request
  <1>2. p \in Reviews \cup Ingestions
    BY <1>1 DEF StepsAreTheirs, Saving
  <1>3. OthersOn(p, d)
    BY <1>1, OthersOnRecord DEF Unsaved
  <1> HIDE DEF d
  <1>4. /\ Reviews \subseteq Requests /\ Deletions \subseteq Requests /\ Ingestions \subseteq Requests
        /\ Reviews \cap Ingestions = {} /\ Deletions \cap (Reviews \cup Ingestions) = {}
        /\ Renders \cap (Reviews \cup Ingestions) = {}
    BY StoreAssumption DEF Requests
  <1>5. \A q \in Requests : met[q] \subseteq met'[q]
    BY DEF HistoryStep
  <1> USE <1>1 DEF OnRecord
  <1>6. RunsAreFirst'
    <2>1. ASSUME NEW q \in Ingestions
          PROVE  (pc'[q] # "idle" => doc'[q] = NewDoc[q]) /\ seen'[q] = {}
      BY <1>4 DEF RecordInv, RunsAreFirst
    <2>2. ASSUME NEW q \in Ingestions, pc'[q] \in Unsaved
          PROVE  record'[NewDoc[q]] = Absent
      <3>1. q # p
        BY <2>2 DEF Unsaved, Storing
      <3>2. pc[q] \in Unsaved /\ NewDoc[q] # d /\ NewDoc[q] \in Docs
        BY <1>3, <1>4, <2>2, <3>1, StoreAssumption DEF OthersOn
      <3>3. QED
        BY <3>2 DEF RecordInv, RunsAreFirst
    <2>3. ASSUME NEW q \in Ingestions, pc'[q] = "writerecord"
          PROVE  record'[NewDoc[q]] = Empty /\ q \notin orphaned'
      <3>1. CASE q = p
        <4>1. NewDoc[q] = d
          BY <2>3, <3>1 DEF RecordInv, RunsAreFirst
        <4>2. QED
          BY <3>1, <4>1
      <3>2. CASE q # p
        <4>1. pc[q] = "writerecord" /\ NewDoc[q] # d /\ NewDoc[q] \in Docs
          BY <1>3, <1>4, <2>3, <3>2, StoreAssumption DEF OthersOn
        <4>2. QED
          BY <4>1 DEF RecordInv, RunsAreFirst
      <3>3. QED
        BY <3>1, <3>2
    <2>4. ASSUME NEW q \in Ingestions, pc'[q] \in Unsaved \cup {"writerecord"}
          PROVE  /\ tombstone'[NewDoc[q]] = "absent"
                 /\ \A r \in Requests \ {q} : doc'[r] = NewDoc[q] => pc'[r] \in {"notfound", "failed"}
      <3>1. pc[q] \in Unsaved \cup {"writerecord"}
        BY <1>4, <2>4 DEF Unsaved
      <3>2. /\ tombstone[NewDoc[q]] = "absent"
            /\ \A r \in Requests \ {q} : doc[r] = NewDoc[q] => pc[r] \in {"notfound", "failed"}
        BY <3>1 DEF RecordInv, RunsAreFirst
      <3>3. QED
        BY <3>2
    <2>5. QED
      BY <2>1, <2>2, <2>3, <2>4 DEF RunsAreFirst
  <1>7. Unwritten'
    <2>1. ASSUME NEW q \in Requests, pc'[q] \in Unsaved \cup {"writerecord"}
          PROVE  pc[q] \in Unsaved \cup {"writerecord"}
      BY <2>1 DEF Unsaved
    <2>2. ASSUME NEW e \in Docs, Readable(record'[e])
          PROVE  record'[e] = record[e]
      BY <2>2 DEF Readable
    <2>3. QED
      BY <2>1, <2>2 DEF RecordInv, Unwritten
  <1>8. WritersWrite'
    <2>1. ASSUME NEW q \in Reviews, pc'[q] = "writerecord", q # p
          PROVE  /\ q \in orphaned' => met'[q] \cap Deletions # {}
                 /\ met'[q] \cap Reviews = {} =>
                      IF q \in orphaned' THEN record'[doc'[q]] = Absent /\ tombstone'[doc'[q]] # "absent"
                      ELSE record'[doc'[q]] = Empty
      <3>1. /\ pc[q] = "writerecord" /\ q \in Requests /\ doc[q] \in Docs
            /\ (q \in orphaned' <=> q \in orphaned)
        BY <1>4, <2>1 DEF DocKnown
      <3>2. CASE doc[q] = d
        <4>1. p \in met[q] /\ p \notin Ingestions
          BY <1>3, <2>1, <3>1, <3>2 DEF OthersOn, Changing
        <4>2. QED
          BY <1>2, <1>5, <2>1, <3>1, <4>1 DEF RecordInv, WritersWrite
      <3>3. CASE doc[q] # d
        BY <1>5, <2>1, <3>1, <3>3 DEF RecordInv, WritersWrite
      <3>4. QED
        BY <3>2, <3>3
    <2>2. QED
      BY <2>1 DEF WritersWrite
  <1>9. DecisionsStay'
    <2>1. ASSUME NEW q \in Reviews, pc'[q] \in Answered, met'[q] \cap Reviews = {}
          PROVE  /\ q # p /\ q \in Requests /\ pc[q] \in Answered /\ met[q] \cap Reviews = {} /\ doc[q] \in Docs
      BY <1>4, <1>5, <2>1 DEF Answered, Indexed, DocKnown
    <2>2. \A q \in Requests : pc'[q] \in Saving => pc[q] \in Saving
      BY DEF Saving
    <2>3. ASSUME NEW q \in Reviews, pc'[q] \in Answered, met'[q] \cap Reviews = {}
          PROVE  \/ Readable(record'[doc'[q]]) /\ q \in record'[doc'[q]]
                 \/ record'[doc'[q]] \in {Empty, Torn}
                 \/ record'[doc'[q]] = Absent /\ tombstone'[doc'[q]] # "absent"
      <3>1. CASE doc[q] = d
        BY <3>1
      <3>2. CASE doc[q] # d
        BY <2>1, <2>3, <3>2 DEF RecordInv, DecisionsStay
      <3>3. QED
        BY <3>1, <3>2
    <2>4. QED
      BY <1>4, <2>1, <2>2, <2>3 DEF RecordInv, DecisionsStay
  <1>10. DeletionsAreFinal'
    <2>1. ASSUME NEW q \in Deletions, pc'[q] \in {"unlinkrenders", "done"}, met'[q] \cap Reviews = {}
          PROVE  /\ record'[doc'[q]] = Absent
                 /\ \A r \in Reviews : doc'[r] = doc'[q] => pc'[r] \notin Saving
      <3>1. q # p /\ q \in Requests /\ pc[q] \in {"unlinkrenders", "done"} /\ met[q] \cap Reviews = {} /\ doc[q] \in Docs
        BY <1>4, <1>5, <2>1 DEF DocKnown
      <3>2. /\ record[doc[q]] = Absent
            /\ \A r \in Reviews : doc[r] = doc[q] => pc[r] \notin Saving
        BY <2>1, <3>1 DEF RecordInv, DeletionsAreFinal
      <3>3. doc[q] # d
        BY <1>2, <1>3, <3>1, <3>2 DEF OthersOn, Saving
      <3>4. \A r \in Requests : pc'[r] \in Saving => pc[r] \in Saving
        BY DEF Saving
      <3>5. QED
        BY <1>4, <3>1, <3>2, <3>3, <3>4
    <2>2. QED
      BY <2>1 DEF DeletionsAreFinal
  <1>11. FoundStays'
    <2>1. ASSUME NEW q \in Requests, met'[q] \subseteq Renders, pc'[q] \in Unlinking \cup {"openrecord"}
          PROVE  q # p /\ pc'[q] = pc[q] /\ met[q] \subseteq Renders /\ record'[doc[q]] = record[doc[q]]
      <3>1. q # p /\ pc'[q] = pc[q] /\ met[q] \subseteq Renders
        BY <1>5, <2>1 DEF Unlinking
      <3>2. doc[q] # d
        <4>1. pc[q] \in Changing
          BY <2>1, <3>1 DEF Unlinking, Changing
        <4>2. p \notin met[q]
          BY <1>2, <1>4, <3>1
        <4>3. QED
          BY <1>3, <3>1, <4>1, <4>2 DEF OthersOn
      <3>3. doc[q] \in Docs
        BY <2>1, <3>1 DEF DocKnown, Unlinking
      <3>4. QED
        BY <3>1, <3>2, <3>3
    <2>2. QED
      BY <2>1 DEF RecordInv, FoundStays
  <1>12. ReviewSurvivesRestart'
    <2>1. ASSUME NEW e \in Docs, record'[e] = Empty
          PROVE  \E q \in Requests : doc'[q] = e /\ q \notin orphaned' /\ "writerecord" \in {pc'[q], cut'[q]}
      <3>1. CASE e = d
        BY <3>1
      <3>2. CASE e # d
        <4>1. PICK q \in Requests : doc[q] = e /\ q \notin orphaned /\ "writerecord" \in {pc[q], cut[q]}
          BY <2>1, <3>2 DEF RecordInv, ReviewSurvivesRestart
        <4>2. q # p /\ pc'[q] = pc[q] /\ cut'[q] = cut[q]
          BY <3>2, <4>1 DEF HistoryStep, Halfway
        <4>3. QED
          BY <4>1, <4>2
      <3>3. QED
        BY <3>1, <3>2
    <2>2. ASSUME NEW e \in Docs, record'[e] = Torn
          PROVE  \E q \in Reviews : doc'[q] = e /\ met'[q] \cap Reviews # {}
      <3>1. record[e] = Torn
        BY <2>2, StoreAssumption
      <3>2. QED
        BY <1>4, <1>5, <3>1 DEF RecordInv, ReviewSurvivesRestart
    <2>3. QED
      BY <2>1, <2>2 DEF ReviewSurvivesRestart
  <1>13. QED
    BY <1>6, <1>7, <1>8, <1>9, <1>10, <1>11, <1>12 DEF RecordInv

\* save writes the record: the decision is there with what it was made upon.
LEMMA WriteRecordKeepsRecords ==
    ASSUME StepHyp, NEW p \in Requests, WriteRecord(p)
    PROVE  RecordInv'
  <1> DEFINE d == doc[p]
             saved == seen[p] \cup {p}
  <1> USE DEF StepHyp
  <1>1. /\ pc[p] = "writerecord" /\ pc'[p] = "readindex" /\ d \in Docs
        /\ orphaned' = orphaned
        /\ OnRecord(p, d)
    <2>1. pc[p] = "writerecord" /\ d \in Docs
      BY DEF WriteRecord, DocKnown
    <2>2. QED
      BY <2>1 DEF WriteRecord, Goto, TypeOK, OnRecord, Changing, request
  <1>2. p \in Reviews \cup Ingestions
    BY <1>1 DEF StepsAreTheirs, Saving
  <1>3. OthersOn(p, d)
    BY <1>1, OthersOnRecord DEF Unsaved
  <1>4. /\ Reviews \subseteq Requests /\ Deletions \subseteq Requests /\ Ingestions \subseteq Requests
        /\ Reviews \cap Ingestions = {} /\ Deletions \cap (Reviews \cup Ingestions) = {}
        /\ Renders \cap (Reviews \cup Ingestions) = {}
    BY StoreAssumption DEF Requests
  <1>5. \A q \in Requests : met[q] \subseteq met'[q]
    BY DEF HistoryStep
  <1>6. \/ p \in orphaned /\ record'[d] = record[d]
        \/ p \notin orphaned /\ Readable(saved) /\ record'[d] = saved
        \/ p \notin orphaned /\ record[d] # Empty /\ record'[d] = Torn
    <2>1. saved \in SUBSET Requests
      BY DEF TypeOK, Content
    <2>2. Readable(saved)
      BY <2>1, StoreAssumption DEF Readable
    <2>3. QED
      BY <1>1, <2>2 DEF WriteRecord, TypeOK
  <1>7. p \in Ingestions => p \notin orphaned /\ record[d] = Empty
    BY <1>1 DEF RecordInv, RunsAreFirst
  <1> HIDE DEF d
  <1> USE <1>1 DEF OnRecord
  <1>8. RunsAreFirst'
    <2>1. ASSUME NEW q \in Ingestions
          PROVE  (pc'[q] # "idle" => doc'[q] = NewDoc[q]) /\ seen'[q] = {}
      BY <1>4 DEF RecordInv, RunsAreFirst
    <2>2. ASSUME NEW q \in Ingestions, pc'[q] \in Unsaved \cup {"writerecord"}
          PROVE  q # p /\ pc'[q] = pc[q] /\ NewDoc[q] # d /\ NewDoc[q] \in Docs
      BY <1>3, <1>4, <2>2, StoreAssumption DEF OthersOn, Unsaved, Storing
    <2>3. ASSUME NEW q \in Ingestions, pc'[q] \in Unsaved \cup {"writerecord"}
          PROVE  /\ pc[q] \in Unsaved => record'[NewDoc[q]] = Absent
                 /\ pc[q] = "writerecord" => record'[NewDoc[q]] = Empty /\ q \notin orphaned'
                 /\ tombstone'[NewDoc[q]] = "absent"
      BY <2>2, <2>3 DEF RecordInv, RunsAreFirst
    <2>4. ASSUME NEW q \in Ingestions, pc'[q] \in Unsaved \cup {"writerecord"},
                 NEW r \in Requests \ {q}, doc'[r] = NewDoc[q]
          PROVE  pc'[r] \in {"notfound", "failed"}
      <3>1. r # p
        BY <2>2, <2>4
      <3>2. QED
        BY <2>2, <2>4, <3>1 DEF RecordInv, RunsAreFirst
    <2>5. QED
      BY <2>1, <2>2, <2>3, <2>4 DEF RunsAreFirst
  <1>9. Unwritten'
    <2>1. ASSUME NEW q \in Requests, pc'[q] \in Unsaved \cup {"writerecord"}
          PROVE  q # p /\ pc[q] \in Unsaved \cup {"writerecord"}
      BY <2>1 DEF Unsaved, Storing
    <2>2. ASSUME NEW q \in Requests, pc'[q] \in Unsaved \cup {"writerecord"}, NEW e \in Docs, Readable(record'[e])
          PROVE  q \notin record'[e]
      <3>1. q # p /\ (Readable(record[e]) => q \notin record[e]) /\ q \notin seen[p]
        BY <2>1, <2>2 DEF RecordInv, Unwritten
      <3>2. CASE e = d
        BY <1>6, <2>2, <3>1, <3>2 DEF Readable
      <3>3. CASE e # d
        BY <2>2, <3>1, <3>3
      <3>4. QED
        BY <3>2, <3>3
    <2>3. QED
      BY <2>1, <2>2 DEF RecordInv, Unwritten
  <1>10. WritersWrite'
    <2>1. ASSUME NEW q \in Reviews, pc'[q] = "writerecord"
          PROVE  /\ q \in orphaned' => met'[q] \cap Deletions # {}
                 /\ met'[q] \cap Reviews = {} =>
                      IF q \in orphaned' THEN record'[doc'[q]] = Absent /\ tombstone'[doc'[q]] # "absent"
                      ELSE record'[doc'[q]] = Empty
      <3>1. q # p /\ pc[q] = "writerecord" /\ q \in Requests /\ doc[q] \in Docs
        BY <1>4, <2>1 DEF DocKnown
      <3>2. CASE doc[q] = d
        <4>1. p \in met[q] /\ p \notin Ingestions
          BY <1>3, <2>1, <3>1, <3>2 DEF OthersOn, Changing
        <4>2. QED
          BY <1>2, <1>5, <2>1, <3>1, <4>1 DEF RecordInv, WritersWrite
      <3>3. CASE doc[q] # d
        BY <1>5, <2>1, <3>1, <3>3 DEF RecordInv, WritersWrite
      <3>4. QED
        BY <3>2, <3>3
    <2>2. QED
      BY <2>1 DEF WritersWrite
  <1>11. \A q \in Requests : pc'[q] \in Saving => q # p /\ pc[q] \in Saving
    BY DEF Saving
  <1>12. DecisionsStay'
    <2>1. ASSUME p \in Reviews, met'[p] \cap Reviews = {}
          PROVE  /\ \/ Readable(record'[doc'[p]]) /\ p \in record'[doc'[p]]
                    \/ record'[doc'[p]] \in {Empty, Torn}
                    \/ record'[doc'[p]] = Absent /\ tombstone'[doc'[p]] # "absent"
                 /\ \A r \in Reviews : pc'[r] \in Saving /\ doc'[r] = doc'[p] => p \in seen'[r]
      <3>1. met[p] \cap Reviews = {}
        BY <1>5, <2>1
      <3>2. p \in orphaned => record[d] = Absent /\ tombstone[d] # "absent"
        BY <2>1, <3>1 DEF RecordInv, WritersWrite
      <3>3. \/ Readable(record'[doc'[p]]) /\ p \in record'[doc'[p]]
            \/ record'[doc'[p]] \in {Empty, Torn}
            \/ record'[doc'[p]] = Absent /\ tombstone'[doc'[p]] # "absent"
        BY <1>6, <3>2
      <3>4. ASSUME NEW q \in Reviews, pc'[q] \in Saving, doc'[q] = doc'[p]
            PROVE  FALSE
        <4>1. q # p /\ pc[q] \in Saving /\ q \in Requests
          BY <1>4, <1>11, <3>4
        <4>2. q \in met[p]
          BY <1>3, <3>4, <4>1 DEF OthersOn, Changing, Saving
        <4>3. QED
          BY <3>1, <3>4, <4>2
      <3>5. QED
        BY <3>3, <3>4
    <2>2. ASSUME NEW q \in Reviews, q # p, pc'[q] \in Answered, met'[q] \cap Reviews = {}
          PROVE  /\ \/ Readable(record'[doc'[q]]) /\ q \in record'[doc'[q]]
                    \/ record'[doc'[q]] \in {Empty, Torn}
                    \/ record'[doc'[q]] = Absent /\ tombstone'[doc'[q]] # "absent"
                 /\ \A r \in Reviews : pc'[r] \in Saving /\ doc'[r] = doc'[q] => q \in seen'[r]
      <3>1. q \in Requests /\ pc[q] \in Answered /\ met[q] \cap Reviews = {} /\ doc[q] \in Docs
        BY <1>4, <1>5, <2>2 DEF Answered, Indexed, DocKnown
      <3>2. /\ \/ Readable(record[doc[q]]) /\ q \in record[doc[q]]
               \/ record[doc[q]] \in {Empty, Torn}
               \/ record[doc[q]] = Absent /\ tombstone[doc[q]] # "absent"
            /\ \A r \in Reviews : pc[r] \in Saving /\ doc[r] = doc[q] => q \in seen[r]
        BY <2>2, <3>1 DEF RecordInv, DecisionsStay
      <3>3. \A r \in Reviews : pc'[r] \in Saving /\ doc'[r] = doc'[q] => q \in seen'[r]
        BY <1>4, <1>11, <3>2
      <3>4. CASE doc[q] = d
        <4>1. p \in Reviews
          BY <1>2, <1>3, <2>2, <3>1, <3>4 DEF OthersOn, Answered, Indexed
        <4>2. q \in seen[p]
          BY <3>2, <3>4, <4>1 DEF Saving
        <4>3. QED
          BY <1>6, <3>2, <3>3, <3>4, <4>2
      <3>5. CASE doc[q] # d
        BY <3>1, <3>2, <3>3, <3>5
      <3>6. QED
        BY <3>4, <3>5
    <2>3. QED
      BY <2>1, <2>2 DEF DecisionsStay
  <1>13. DeletionsAreFinal'
    <2>1. ASSUME NEW q \in Deletions, pc'[q] \in {"unlinkrenders", "done"}, met'[q] \cap Reviews = {}
          PROVE  /\ record'[doc'[q]] = Absent
                 /\ \A r \in Reviews : doc'[r] = doc'[q] => pc'[r] \notin Saving
      <3>1. q # p /\ q \in Requests /\ pc[q] \in {"unlinkrenders", "done"} /\ met[q] \cap Reviews = {} /\ doc[q] \in Docs
        BY <1>2, <1>4, <1>5, <2>1 DEF DocKnown
      <3>2. /\ record[doc[q]] = Absent
            /\ \A r \in Reviews : doc[r] = doc[q] => pc[r] \notin Saving
        BY <2>1, <3>1 DEF RecordInv, DeletionsAreFinal
      <3>3. doc[q] # d
        BY <1>2, <1>3, <3>1, <3>2 DEF OthersOn, Saving
      <3>4. QED
        BY <1>4, <1>11, <3>1, <3>2, <3>3
    <2>2. QED
      BY <2>1 DEF DeletionsAreFinal
  <1>14. FoundStays'
    <2>1. ASSUME NEW q \in Requests, met'[q] \subseteq Renders, pc'[q] \in Unlinking \cup {"openrecord"}
          PROVE  q # p /\ pc'[q] = pc[q] /\ met[q] \subseteq Renders /\ record'[doc[q]] = record[doc[q]]
      <3>1. q # p /\ pc'[q] = pc[q] /\ met[q] \subseteq Renders
        BY <1>5, <2>1 DEF Unlinking
      <3>2. doc[q] # d
        <4>1. pc[q] \in Changing
          BY <2>1, <3>1 DEF Unlinking, Changing
        <4>2. p \notin met[q]
          BY <1>2, <1>4, <3>1
        <4>3. QED
          BY <1>3, <3>1, <4>1, <4>2 DEF OthersOn
      <3>3. doc[q] \in Docs
        BY <2>1, <3>1 DEF DocKnown, Unlinking
      <3>4. QED
        BY <3>1, <3>2, <3>3
    <2>2. QED
      BY <2>1 DEF RecordInv, FoundStays
  <1>15. ReviewSurvivesRestart'
    <2>1. ASSUME NEW e \in Docs, record'[e] = Empty
          PROVE  \E q \in Requests : doc'[q] = e /\ q \notin orphaned' /\ "writerecord" \in {pc'[q], cut'[q]}
      <3>1. record[e] = Empty /\ (e = d => p \in orphaned)
        BY <1>6, <2>1, StoreAssumption DEF Readable
      <3>2. PICK q \in Requests : doc[q] = e /\ q \notin orphaned /\ "writerecord" \in {pc[q], cut[q]}
        BY <3>1 DEF RecordInv, ReviewSurvivesRestart
      <3>3. q # p /\ pc'[q] = pc[q] /\ cut'[q] = cut[q]
        BY <3>1, <3>2 DEF HistoryStep, Halfway
      <3>4. QED
        BY <3>2, <3>3
    <2>2. ASSUME NEW e \in Docs, record'[e] = Torn
          PROVE  \E q \in Reviews : doc'[q] = e /\ met'[q] \cap Reviews # {}
      <3>1. CASE record[e] = Torn
        BY <1>4, <1>5, <3>1 DEF RecordInv, ReviewSurvivesRestart
      <3>2. CASE record[e] # Torn
        <4>1. e = d /\ p \notin orphaned /\ record[d] # Empty
          BY <1>6, <2>2, <3>2 DEF Readable
        <4>2. p \in Reviews /\ met[p] \cap Reviews # {}
          BY <1>2, <1>7, <4>1 DEF RecordInv, WritersWrite
        <4>3. QED
          BY <1>5, <4>1, <4>2
      <3>3. QED
        BY <3>1, <3>2
    <2>3. QED
      BY <2>1, <2>2 DEF ReviewSurvivesRestart
  <1>16. QED
    BY <1>8, <1>9, <1>10, <1>12, <1>13, <1>14, <1>15 DEF RecordInv

\* A deletion takes the record, and the file of whoever was writing it.
LEMMA UnlinkRecordKeepsRecords ==
    ASSUME StepHyp, NEW p \in Requests, UnlinkRecord(p)
    PROVE  RecordInv'
  <1> DEFINE d == doc[p]
  <1> USE DEF StepHyp
  <1>1. /\ pc[p] = "unlinkrecord" /\ pc'[p] = "unlinkrenders" /\ d \in Docs
        /\ record'[d] = Absent /\ tombstone[d] # "absent"
        /\ OnRecord(p, d)
    <2>1. pc[p] = "unlinkrecord" /\ d \in Docs /\ tombstone[d] # "absent"
      BY DEF UnlinkRecord, DocKnown, DeletingHasTombstone, Deleting
    <2>2. QED
      BY <2>1 DEF UnlinkRecord, Goto, TypeOK, OnRecord, Changing, request
  <1>2. p \in Deletions
    BY <1>1 DEF StepsAreTheirs, Unlinking
  <1>3. /\ Reviews \subseteq Requests /\ Deletions \subseteq Requests /\ Ingestions \subseteq Requests
        /\ Reviews \cap Ingestions = {} /\ Deletions \cap (Reviews \cup Ingestions \cup Renders) = {}
    BY StoreAssumption DEF Requests
  <1>4. OthersOn(p, d)
    BY <1>1, <1>2, <1>3, OthersOnRecord
  <1>5. \A q \in Requests : met[q] \subseteq met'[q]
    BY DEF HistoryStep
  <1>6. \A q \in Requests : q \in orphaned' <=> q \in orphaned \/ (pc'[q] = "writerecord" /\ doc[q] = d)
    BY DEF UnlinkRecord, Orphan
  <1> HIDE DEF d
  <1> USE <1>1 DEF OnRecord
  <1>7. \A q \in Requests : pc'[q] \in Saving \cup Unsaved => q # p /\ pc'[q] = pc[q]
    BY DEF Saving, Unsaved, Storing
  <1>8. RunsAreFirst'
    <2>1. ASSUME NEW q \in Ingestions
          PROVE  q # p /\ pc'[q] = pc[q] /\ (pc'[q] # "idle" => doc'[q] = NewDoc[q]) /\ seen'[q] = {}
      BY <1>2, <1>3 DEF RecordInv, RunsAreFirst
    <2>2. ASSUME NEW q \in Ingestions, pc[q] \in Unsaved \cup {"writerecord"}
          PROVE  NewDoc[q] # d /\ doc[q] # d /\ NewDoc[q] \in Docs
      BY <1>4, <2>1, <2>2, StoreAssumption DEF OthersOn
    <2>3. ASSUME NEW q \in Ingestions, pc[q] \in Unsaved \cup {"writerecord"}
          PROVE  /\ pc[q] \in Unsaved => record'[NewDoc[q]] = Absent
                 /\ pc[q] = "writerecord" => record'[NewDoc[q]] = Empty /\ q \notin orphaned'
                 /\ tombstone'[NewDoc[q]] = "absent"
      BY <1>3, <1>6, <2>2, <2>3 DEF RecordInv, RunsAreFirst
    <2>4. ASSUME NEW q \in Ingestions, pc[q] \in Unsaved \cup {"writerecord"},
                 NEW r \in Requests \ {q}, doc'[r] = NewDoc[q]
          PROVE  pc'[r] \in {"notfound", "failed"}
      <3>1. r # p
        BY <2>2, <2>4
      <3>2. QED
        BY <2>4, <3>1 DEF RecordInv, RunsAreFirst
    <2>5. QED
      BY <2>1, <2>3, <2>4 DEF RunsAreFirst
  <1>9. Unwritten'
    <2>1. ASSUME NEW e \in Docs, Readable(record'[e])
          PROVE  record'[e] = record[e]
      BY <2>1 DEF Readable
    <2>2. \A q \in Requests : pc'[q] \in Unsaved \cup {"writerecord"} => pc[q] \in Unsaved \cup {"writerecord"}
      BY <1>7 DEF Saving
    <2>3. QED
      BY <2>1, <2>2 DEF RecordInv, Unwritten
  <1>10. WritersWrite'
    <2>1. ASSUME NEW q \in Reviews, pc'[q] = "writerecord"
          PROVE  /\ q \in orphaned' => met'[q] \cap Deletions # {}
                 /\ met'[q] \cap Reviews = {} =>
                      IF q \in orphaned' THEN record'[doc'[q]] = Absent /\ tombstone'[doc'[q]] # "absent"
                      ELSE record'[doc'[q]] = Empty
      <3>1. q # p /\ pc[q] = "writerecord" /\ q \in Requests /\ doc[q] \in Docs
        BY <1>2, <1>3, <2>1 DEF DocKnown
      <3>2. CASE doc[q] = d
        <4>1. p \in met[q]
          BY <1>4, <3>1, <3>2 DEF OthersOn, Changing
        <4>2. QED
          BY <1>2, <1>5, <1>6, <2>1, <3>1, <3>2, <4>1
      <3>3. CASE doc[q] # d
        BY <1>5, <1>6, <2>1, <3>1, <3>3 DEF RecordInv, WritersWrite
      <3>4. QED
        BY <3>2, <3>3
    <2>2. QED
      BY <2>1 DEF WritersWrite
  <1>11. DecisionsStay'
    <2>1. ASSUME NEW q \in Reviews, pc'[q] \in Answered, met'[q] \cap Reviews = {}
          PROVE  /\ q # p /\ q \in Requests /\ pc[q] \in Answered /\ met[q] \cap Reviews = {} /\ doc[q] \in Docs
      BY <1>2, <1>3, <1>5, <2>1 DEF Answered, Indexed, DocKnown
    <2>2. ASSUME NEW q \in Reviews, pc'[q] \in Answered, met'[q] \cap Reviews = {}
          PROVE  \/ Readable(record'[doc'[q]]) /\ q \in record'[doc'[q]]
                 \/ record'[doc'[q]] \in {Empty, Torn}
                 \/ record'[doc'[q]] = Absent /\ tombstone'[doc'[q]] # "absent"
      <3>1. CASE doc[q] = d
        BY <3>1
      <3>2. CASE doc[q] # d
        BY <2>1, <2>2, <3>2 DEF RecordInv, DecisionsStay
      <3>3. QED
        BY <3>1, <3>2
    <2>3. QED
      BY <1>3, <1>7, <2>1, <2>2 DEF RecordInv, DecisionsStay
  <1>12. DeletionsAreFinal'
    <2>1. ASSUME met'[p] \cap Reviews = {}, NEW q \in Reviews, doc'[q] = doc'[p], pc'[q] \in Saving
          PROVE  FALSE
      <3>1. q # p /\ pc[q] \in Saving /\ q \in Requests
        BY <1>3, <1>7, <2>1
      <3>2. q \in met[p]
        BY <1>4, <2>1, <3>1 DEF OthersOn, Changing, Saving
      <3>3. QED
        BY <1>5, <2>1, <3>2
    <2>2. ASSUME NEW q \in Deletions, q # p, pc'[q] \in {"unlinkrenders", "done"}, met'[q] \cap Reviews = {}
          PROVE  record'[doc'[q]] = Absent /\ \A r \in Reviews : doc'[r] = doc'[q] => pc'[r] \notin Saving
      <3>1. /\ pc[q] \in {"unlinkrenders", "done"} /\ met[q] \cap Reviews = {} /\ doc[q] \in Docs
        BY <1>3, <1>5, <2>2 DEF DocKnown
      <3>2. /\ record[doc[q]] = Absent
            /\ \A r \in Reviews : doc[r] = doc[q] => pc[r] \notin Saving
        BY <2>2, <3>1 DEF RecordInv, DeletionsAreFinal
      <3>3. QED
        BY <1>3, <1>7, <3>1, <3>2
    <2>3. QED
      BY <2>1, <2>2 DEF DeletionsAreFinal
  <1>13. FoundStays'
    <2>1. ASSUME NEW q \in Requests, met'[q] \subseteq Renders, pc'[q] \in Unlinking \cup {"openrecord"}
          PROVE  q # p /\ pc'[q] = pc[q] /\ met[q] \subseteq Renders /\ record'[doc[q]] = record[doc[q]]
      <3>1. q # p /\ pc'[q] = pc[q] /\ met[q] \subseteq Renders
        BY <1>5, <2>1 DEF Unlinking
      <3>2. doc[q] # d
        <4>1. pc[q] \in Changing
          BY <2>1, <3>1 DEF Unlinking, Changing
        <4>2. p \notin met[q]
          BY <1>2, <1>3, <3>1
        <4>3. QED
          BY <1>4, <3>1, <4>1, <4>2 DEF OthersOn
      <3>3. doc[q] \in Docs
        BY <2>1, <3>1 DEF DocKnown, Unlinking
      <3>4. QED
        BY <3>1, <3>2, <3>3
    <2>2. QED
      BY <2>1 DEF RecordInv, FoundStays
  <1>14. ReviewSurvivesRestart'
    <2>1. ASSUME NEW e \in Docs, record'[e] = Empty
          PROVE  \E q \in Requests : doc'[q] = e /\ q \notin orphaned' /\ "writerecord" \in {pc'[q], cut'[q]}
      <3>1. e # d /\ record[e] = Empty
        BY <2>1, StoreAssumption
      <3>2. PICK q \in Requests : doc[q] = e /\ q \notin orphaned /\ "writerecord" \in {pc[q], cut[q]}
        BY <3>1 DEF RecordInv, ReviewSurvivesRestart
      <3>3. q # p /\ pc'[q] = pc[q] /\ cut'[q] = cut[q] /\ q \notin orphaned'
        BY <1>6, <3>1, <3>2 DEF HistoryStep, Halfway
      <3>4. QED
        BY <3>2, <3>3
    <2>2. ASSUME NEW e \in Docs, record'[e] = Torn
          PROVE  \E q \in Reviews : doc'[q] = e /\ met'[q] \cap Reviews # {}
      <3>1. record[e] = Torn
        BY <2>2, StoreAssumption
      <3>2. QED
        BY <1>3, <1>5, <3>1 DEF RecordInv, ReviewSurvivesRestart
    <2>3. QED
      BY <2>1, <2>2 DEF ReviewSurvivesRestart
  <1>15. QED
    BY <1>8, <1>9, <1>10, <1>11, <1>12, <1>13, <1>14 DEF RecordInv

-----------------------------------------------------------------------------
(* The decision log *)

\* What is saved on a document, whatever its file looks like.
SavedOnRead ==
    \A d \in Docs :
        /\ IsDisturbed(d) => SavedOn(d) = Disturbed
        /\ ~IsDisturbed(d) =>
             /\ Readable(record[d]) => SavedOn(d) = record[d]
             /\ record[d] = Absent => SavedOn(d) = IF tombstone[d] = "absent" THEN NotYet ELSE Gone
             /\ \A p \in Requests : record[d] = Empty /\ pc[p] = "writerecord" /\ doc[p] = d =>
                  SavedOn(d) = IF p \in Ingestions THEN NotYet ELSE seen[p]

LEMMA SavedOnIs == HistoryInv /\ StepsAreTheirs => SavedOnRead
  <1> SUFFICES ASSUME HistoryInv, StepsAreTheirs PROVE SavedOnRead
    OBVIOUS
  <1>1. ASSUME NEW d \in Docs, IsDisturbed(d)
        PROVE  SavedOn(d) = Disturbed
    BY <1>1 DEF SavedOn
  <1>2. ASSUME NEW d \in Docs, ~IsDisturbed(d), Readable(record[d])
        PROVE  SavedOn(d) = record[d]
    BY <1>2, StoreAssumption DEF SavedOn, Readable
  <1>3. ASSUME NEW d \in Docs, ~IsDisturbed(d), record[d] = Absent
        PROVE  SavedOn(d) = IF tombstone[d] = "absent" THEN NotYet ELSE Gone
    BY <1>3, StoreAssumption DEF SavedOn, Readable
  <1>4. ASSUME NEW d \in Docs, ~IsDisturbed(d), record[d] = Empty,
               NEW p \in Requests, pc[p] = "writerecord", doc[p] = d
        PROVE  SavedOn(d) = IF p \in Ingestions THEN NotYet ELSE seen[p]
    <2> DEFINE writer == CHOOSE q \in Requests : pc[q] = "writerecord" /\ doc[q] = d
    <2>1. writer \in Requests /\ pc[writer] = "writerecord" /\ doc[writer] = d
      BY <1>4
    <2>2. SavedOn(d) = IF writer \in Ingestions THEN NotYet ELSE seen[writer]
      BY <1>4, StoreAssumption DEF SavedOn, Readable
    <2> HIDE DEF writer
    <2>3. writer = p
      <3>1. SUFFICES ASSUME writer # p PROVE FALSE
        OBVIOUS
      <3>2. writer \in met[p]
        BY <1>4, <2>1, <3>1, ChangingMeet DEF Changing
      <3>3. p \notin Renders /\ writer \notin Renders
        BY <1>4, <2>1, StoreAssumption DEF StepsAreTheirs, Saving
      <3>4. QED
        BY <1>4, <3>2, <3>3 DEF IsDisturbed
    <2>4. QED
      BY <2>2, <2>3
  <1>5. QED
    BY <1>1, <1>2, <1>3, <1>4 DEF SavedOnRead

\* What is disturbed remains so.
LEMMA DisturbedStays ==
    ASSUME StepHyp, NEW d \in Docs, IsDisturbed(d)
    PROVE  IsDisturbed(d)'
  <1>1. PICK p \in Requests \ Renders : doc[p] = d /\ (met[p] \ Renders # {} \/ cut[p] = "writerecord")
    BY DEF IsDisturbed
  <1>2. pc[p] # "idle"
    BY <1>1, StoreAssumption DEF StepHyp, HistoryInv
  <1>3. doc'[p] = d /\ met[p] \subseteq met'[p]
    BY <1>1, <1>2 DEF StepHyp, Started, HistoryStep
  <1>4. cut[p] = "writerecord" => cut'[p] = "writerecord"
    BY <1>1 DEF StepHyp, HistoryInv, HistoryStep, Halfway
  <1>5. QED
    BY <1>1, <1>3, <1>4 DEF IsDisturbed

\* What the promises rest on, before a step and after it.
LogHyp == StepHyp /\ HistoryInv' /\ StepsAreTheirs' /\ RecordInv' /\ SavedOnRead /\ SavedOnRead'

\* Where a step leaves the record of an undisturbed document, nothing new is saved on it.
LEMMA UntouchedIsSaved ==
    ASSUME LogHyp, NEW d \in Docs, ~IsDisturbed(d)', record'[d] = record[d],
           \A q \in Requests : pc'[q] = "writerecord" /\ doc'[q] = d => pc[q] = "writerecord"
    PROVE  SavedOn(d)' = SavedOn(d)
  <1> USE DEF LogHyp, StepHyp
  <1>1. ~IsDisturbed(d)
    BY DisturbedStays
  <1>2. CASE Readable(record[d])
    BY <1>1, <1>2 DEF SavedOnRead, Readable
  <1>3. CASE record[d] = Absent
    <2>1. ASSUME NEW p \in Deletions, pc[p] \in {"openstone", "writestone"}, doc[p] = d
          PROVE  FALSE
      <3>1. p \in Requests \ Renders
        BY StoreAssumption DEF Requests
      <3>2. met[p] \subseteq Renders
        BY <1>1, <2>1, <3>1 DEF IsDisturbed
      <3>3. Readable(record[d])
        BY <2>1, <3>1, <3>2 DEF RecordInv, FoundStays, Unlinking
      <3>4. QED
        BY <1>3, <3>3 DEF Readable
    <2>2. tombstone'[d] = tombstone[d]
      BY <2>1 DEF TombstonesAreTheirs
    <2>3. QED
      BY <1>1, <1>3, <2>2 DEF SavedOnRead
  <1>4. CASE record[d] = Empty
    <2>1. PICK p \in Requests : doc'[p] = d /\ p \notin orphaned' /\ "writerecord" \in {pc'[p], cut'[p]}
      BY <1>4 DEF RecordInv, ReviewSurvivesRestart
    <2>2. cut'[p] # "writerecord"
      BY <2>1 DEF IsDisturbed, HistoryInv
    <2>3. pc'[p] = "writerecord" /\ pc[p] = "writerecord"
      BY <2>1, <2>2
    <2>4. doc[p] = d /\ seen'[p] = seen[p]
      BY <2>1, <2>3 DEF Started
    <2>5. SavedOn(d) = IF p \in Ingestions THEN NotYet ELSE seen[p]
      BY <1>1, <1>4, <2>3, <2>4 DEF SavedOnRead
    <2>6. SavedOn(d)' = IF p \in Ingestions THEN NotYet ELSE seen'[p]
      BY <1>4, <2>1, <2>3 DEF SavedOnRead
    <2>7. QED
      BY <2>4, <2>5, <2>6
  <1>5. CASE record[d] = Torn
    <2>1. PICK p \in Reviews : doc'[p] = d /\ met'[p] \cap Reviews # {}
      BY <1>5 DEF RecordInv, ReviewSurvivesRestart
    <2>2. p \in Requests \ Renders /\ met'[p] \ Renders # {}
      BY <2>1, StoreAssumption DEF Requests
    <2>3. QED
      BY <2>1, <2>2 DEF IsDisturbed
  <1>6. QED
    BY <1>2, <1>3, <1>4, <1>5 DEF Readable

\* A step that saves nothing on undisturbed documents disturbs those it does.
LEMMA DisturbingStep ==
    ASSUME \A d \in Docs : ~IsDisturbed(d)' => SavedOn(d)' = SavedOn(d), SavedOnRead'
    PROVE  Log!Next
  <1> DEFINE D == {d \in Docs : IsDisturbed(d)'}
  <1>1. ASSUME NEW d \in Docs
        PROVE  SavedOn(d)' = IF d \in D THEN Disturbed ELSE SavedOn(d)
    BY DEF SavedOnRead
  <1> HIDE DEF D
  <1>2. Decisions' = [d \in Docs |-> IF d \in D THEN Disturbed ELSE Decisions[d]]
    BY <1>1 DEF Decisions
  <1>3. D \in SUBSET Docs
    BY DEF D
  <1>4. QED
    BY <1>2, <1>3 DEF Log!Next, Log!Disturb

LEMMA AsideDisturbs ==
    ASSUME LogHyp, Aside
    PROVE  Log!Next
  <1>1. ASSUME NEW d \in Docs, ~IsDisturbed(d)'
        PROVE  SavedOn(d)' = SavedOn(d)
    <2>1. record'[d] = record[d] /\ \A q \in Requests : pc'[q] = "writerecord" => pc[q] = "writerecord"
      BY DEF Aside, Passes
    <2>2. QED
      BY <1>1, <2>1, UntouchedIsSaved
  <1>2. QED
    BY <1>1, DisturbingStep DEF LogHyp

\* A step on one record leaves what is saved on the others.
LEMMA OthersAreSaved ==
    ASSUME LogHyp, NEW p \in Requests, NEW d \in Docs, OnRecord(p, d), NEW e \in Docs \ {d}, ~IsDisturbed(e)'
    PROVE  SavedOn(e)' = SavedOn(e)
  <1>1. record'[e] = record[e] /\ \A q \in Requests : doc'[q] = e => q # p /\ pc'[q] = pc[q]
    BY DEF OnRecord
  <1>2. QED
    BY <1>1, UntouchedIsSaved

\* An undisturbed record is worked on by one request, which met only pages.
LEMMA MetOnlyPages ==
    ASSUME NEW p \in Requests, ~IsDisturbed(doc[p]), p \notin Renders
    PROVE  met[p] \subseteq Renders
  BY DEF IsDisturbed

\* While save has the record open, what is saved on it is what was loaded.
LEMMA OpenRecordSaves ==
    ASSUME LogHyp, NEW p \in Requests, NEW d \in Docs, d = doc[p], OpenRecord(p)
    PROVE  Log!Next
  <1> USE DEF LogHyp, StepHyp
  <1>1. /\ pc[p] = "openrecord" /\ pc'[p] = "writerecord" /\ d \in Docs
        /\ record'[d] = Empty /\ UNCHANGED <<doc, seen, tombstone>>
        /\ OnRecord(p, d)
    <2>1. pc[p] = "openrecord" /\ d \in Docs
      BY DEF OpenRecord, DocKnown
    <2>2. QED
      BY <2>1 DEF OpenRecord, Goto, TypeOK, OnRecord, Changing, request
  <1>2. p \in Reviews \cup Ingestions /\ p \notin Renders /\ Reviews \cap Ingestions = {}
    BY <1>1, StoreAssumption DEF StepsAreTheirs, Saving
  <1>3. ASSUME ~IsDisturbed(d)'
        PROVE  SavedOn(d)' = SavedOn(d)
    <2>1. ~IsDisturbed(d)
      BY <1>1, <1>3, DisturbedStays
    <2>2. met[p] \subseteq Renders
      BY <1>1, <1>2, <2>1, MetOnlyPages
    <2>3. SavedOn(d)' = IF p \in Ingestions THEN NotYet ELSE seen[p]
      BY <1>1, <1>3 DEF SavedOnRead
    <2>4. CASE p \in Reviews
      <3>1. Readable(record[d]) /\ seen[p] = record[d]
        BY <1>1, <2>2, <2>4 DEF RecordInv, FoundStays
      <3>2. QED
        BY <1>1, <1>2, <2>1, <2>3, <2>4, <3>1 DEF SavedOnRead
    <2>5. CASE p \in Ingestions
      <3>1. record[d] = Absent /\ tombstone[d] = "absent"
        BY <1>1, <2>5 DEF RecordInv, RunsAreFirst, Unsaved
      <3>2. QED
        BY <1>1, <2>1, <2>3, <2>5, <3>1 DEF SavedOnRead
    <2>6. QED
      BY <1>2, <2>4, <2>5
  <1>4. ASSUME NEW e \in Docs, ~IsDisturbed(e)'
        PROVE  SavedOn(e)' = SavedOn(e)
    BY <1>1, <1>3, <1>4, OthersAreSaved
  <1>5. QED
    BY <1>4, DisturbingStep

\* A step that nobody begins to work on a record with, and nobody stops at,
\* disturbs nothing.
LEMMA NothingDisturbed ==
    ASSUME LogHyp, NEW d \in Docs, UNCHANGED doc,
           \A q \in Requests : pc'[q] \in Changing \cup {"failed"} => pc'[q] = pc[q] \/ (pc[q] \in Changing /\ pc'[q] # "failed"),
           IsDisturbed(d)'
    PROVE  IsDisturbed(d)
  <1> USE DEF LogHyp, StepHyp
  <1>1. PICK p \in Requests \ Renders : doc[p] = d /\ (met'[p] \ Renders # {} \/ cut'[p] = "writerecord")
    BY DEF IsDisturbed
  <1>2. cut'[p] = "writerecord" => cut[p] = "writerecord"
    BY <1>1 DEF HistoryStep, Halfway, Changing
  <1>3. ASSUME NEW q \in met'[p], q \notin Renders
        PROVE  q \in met[p]
    <2>1. SUFFICES ASSUME Meet(p, q)' PROVE q \in met[p]
      BY <1>3 DEF HistoryStep
    <2>2. q \in Requests
      BY <1>3 DEF HistoryInv
    <2>3. pc'[p] # "openrender" /\ pc'[q] # "openrender"
      BY <1>3, <2>2 DEF StepsAreTheirs, Rendering
    <2>4. p # q /\ doc[p] = doc[q] /\ pc'[p] \in Changing /\ pc'[q] \in Changing
      BY <2>1, <2>3 DEF Meet
    <2>5. pc[p] \in Changing /\ pc[q] \in Changing
      BY <2>2, <2>4
    <2>6. QED
      BY <2>2, <2>4, <2>5, ChangingMeet
  <1>4. QED
    BY <1>1, <1>2, <1>3 DEF IsDisturbed

\* The same for every document: what is saved on the others stays, whatever it is.
LEMMA OthersStay ==
    ASSUME LogHyp, NEW p \in Requests, NEW d \in Docs, OnRecord(p, d), pc'[p] \in {"readindex", "unlinkrenders"},
           NEW e \in Docs \ {d}
    PROVE  SavedOn(e)' = SavedOn(e)
  <1>1. CASE ~IsDisturbed(e)'
    BY <1>1, OthersAreSaved
  <1>2. CASE IsDisturbed(e)'
    <2>1. \A q \in Requests : pc'[q] \in Changing \cup {"failed"} => pc'[q] = pc[q]
      BY DEF OnRecord, Changing
    <2>2. IsDisturbed(e)
      BY <1>2, <2>1, NothingDisturbed DEF OnRecord
    <2>3. QED
      BY <1>2, <2>2 DEF LogHyp, SavedOnRead
  <1>3. QED
    BY <1>1, <1>2

\* The values of the log that are no set of decisions are apart.
LEMMA LogApart == NotYet # Disturbed /\ NotYet # Gone /\ Gone # Disturbed
  <1>1. \A x, y : Cardinality({x, y, y}) # 3
    <2>1. ASSUME NEW x, NEW y
          PROVE  Cardinality({x, y, y}) # 3
      <3>1. {x, y, y} = {x} \cup {y}
        OBVIOUS
      <3>2. IsFiniteSet({x}) /\ Cardinality({x}) = 1
        BY FS_Singleton
      <3>3. Cardinality({x} \cup {y}) = IF y \in {x} THEN Cardinality({x}) ELSE Cardinality({x}) + 1
        BY <3>2, FS_AddElement
      <3>4. QED
        BY <3>1, <3>2, <3>3
    <2>2. QED
      BY <2>1
  <1>2. Cardinality({NotYet, Gone, Disturbed}) = 3
    BY LogAssumption
  <1>3. NotYet # Disturbed
    <2>1. SUFFICES ASSUME NotYet = Disturbed PROVE FALSE
      OBVIOUS
    <2>2. {NotYet, Gone, Disturbed} = {Gone, NotYet, NotYet}
      BY <2>1
    <2>3. QED
      BY <1>1, <1>2, <2>2
  <1>4. NotYet # Gone
    <2>1. SUFFICES ASSUME NotYet = Gone PROVE FALSE
      OBVIOUS
    <2>2. {NotYet, Gone, Disturbed} = {Disturbed, NotYet, NotYet}
      BY <2>1
    <2>3. QED
      BY <1>1, <1>2, <2>2
  <1>5. Gone # Disturbed
    <2>1. SUFFICES ASSUME Gone = Disturbed PROVE FALSE
      OBVIOUS
    <2>2. {NotYet, Gone, Disturbed} = {NotYet, Gone, Gone}
      BY <2>1
    <2>3. QED
      BY <1>1, <1>2, <2>2
  <1>6. QED
    BY <1>3, <1>4, <1>5

\* A written record takes effect: a run creates its log, a review decides.
LEMMA WriteRecordSaves ==
    ASSUME LogHyp, NEW p \in Requests, NEW d \in Docs, d = doc[p], WriteRecord(p)
    PROVE  Log!Next
  <1> DEFINE saved == seen[p] \cup {p}
  <1> USE DEF LogHyp, StepHyp
  <1>1. /\ pc[p] = "writerecord" /\ pc'[p] = "readindex" /\ d \in Docs
        /\ UNCHANGED <<doc, seen, tombstone>> /\ OnRecord(p, d)
    <2>1. pc[p] = "writerecord" /\ d \in Docs
      BY DEF WriteRecord, DocKnown
    <2>2. QED
      BY <2>1 DEF WriteRecord, Goto, TypeOK, OnRecord, Changing, request
  <1>2. p \in Reviews \cup Ingestions /\ p \notin Renders /\ Reviews \cap Ingestions = {} /\ Reviews \cap Renders = {}
        /\ Deletions \cap Renders = {}
    BY <1>1, StoreAssumption DEF StepsAreTheirs, Saving
  <1>3. saved \in SUBSET Requests /\ Readable(saved)
    <2>1. saved \in SUBSET Requests
      BY DEF TypeOK, Content
    <2>2. QED
      BY <2>1, StoreAssumption DEF Readable
  <1>4. CASE IsDisturbed(d)'
    <2>1. ASSUME NEW e \in Docs, ~IsDisturbed(e)'
          PROVE  SavedOn(e)' = SavedOn(e)
      BY <1>1, <1>4, <2>1, OthersAreSaved
    <2>2. QED
      BY <2>1, DisturbingStep
  <1>5. CASE ~IsDisturbed(d)'
    <2>1. ~IsDisturbed(d)
      BY <1>1, <1>5, DisturbedStays
    <2>2. met[p] \subseteq Renders
      BY <1>2, <2>1, MetOnlyPages
    <2>3. record[d] = Empty /\ p \notin orphaned
      <3>1. CASE p \in Reviews
        BY <1>1, <1>2, <2>2, <3>1 DEF RecordInv, WritersWrite
      <3>2. CASE p \in Ingestions
        BY <1>1, <3>2 DEF RecordInv, RunsAreFirst
      <3>3. QED
        BY <1>2, <3>1, <3>2
    <2>4. record'[d] = saved
      BY <1>1, <2>3 DEF WriteRecord, TypeOK
    <2>5. SavedOn(d)' = saved
      BY <1>1, <1>3, <1>5, <2>4 DEF SavedOnRead
    <2>6. SavedOn(d) = IF p \in Ingestions THEN NotYet ELSE seen[p]
      BY <1>1, <2>1, <2>3 DEF SavedOnRead
    <2>7. Decisions' = [Decisions EXCEPT ![d] = saved]
      <3>1. \A e \in Docs \ {d} : SavedOn(e)' = SavedOn(e)
        BY <1>1, OthersStay
      <3> HIDE DEF saved
      <3>2. QED
        BY <1>1, <2>5, <3>1 DEF Decisions
    <2>8. Decisions[d] = IF p \in Ingestions THEN NotYet ELSE seen[p]
      BY <1>1, <2>6 DEF Decisions
    <2>9. NotYet # Disturbed /\ \A S \in SUBSET Requests : S \notin {NotYet, Gone, Disturbed}
      BY LogApart, LogAssumption
    <2>10. CASE p \in Ingestions
      <3>1. saved = {p}
        BY <2>10 DEF RecordInv, RunsAreFirst
      <3>2. Log!Create(d, p) /\ Decisions[d] # Disturbed
        BY <2>7, <2>8, <2>9, <2>10, <3>1 DEF Log!Create
      <3>3. QED
        BY <1>1, <3>2 DEF Log!Next
    <2>11. CASE p \in Reviews
      <3>1. p \notin seen[p]
        BY <1>1 DEF RecordInv, Unwritten
      <3>2. seen[p] \in SUBSET Requests
        BY DEF TypeOK, Content
      <3>3. Log!Open(d) /\ Decisions[d] # Disturbed /\ Decisions[d] = seen[p]
        BY <1>2, <2>8, <2>9, <2>11, <3>2 DEF Log!Open
      <3>4. Log!Decide(d, p)
        BY <2>7, <3>1, <3>3 DEF Log!Decide
      <3>5. QED
        BY <1>1, <3>3, <3>4 DEF Log!Next
    <2>12. QED
      BY <1>2, <2>10, <2>11
  <1>6. QED
    BY <1>4, <1>5

\* The record goes when its tombstone is there, and its log with it.
LEMMA UnlinkRecordDeletes ==
    ASSUME LogHyp, NEW p \in Requests, NEW d \in Docs, d = doc[p], UnlinkRecord(p)
    PROVE  Log!Next
  <1> USE DEF LogHyp, StepHyp
  <1>1. /\ pc[p] = "unlinkrecord" /\ pc'[p] = "unlinkrenders" /\ d \in Docs
        /\ record'[d] = Absent /\ tombstone'[d] # "absent" /\ UNCHANGED doc
        /\ OnRecord(p, d)
    <2>1. pc[p] = "unlinkrecord" /\ d \in Docs /\ tombstone[d] # "absent"
      BY DEF UnlinkRecord, DocKnown, DeletingHasTombstone, Deleting
    <2>2. QED
      BY <2>1 DEF UnlinkRecord, Goto, TypeOK, OnRecord, Changing, request
  <1>2. p \in Deletions /\ p \notin Renders
    BY <1>1, StoreAssumption DEF StepsAreTheirs, Unlinking
  <1>3. CASE IsDisturbed(d)'
    <2>1. ASSUME NEW e \in Docs, ~IsDisturbed(e)'
          PROVE  SavedOn(e)' = SavedOn(e)
      BY <1>1, <1>3, <2>1, OthersAreSaved
    <2>2. QED
      BY <2>1, DisturbingStep
  <1>4. CASE ~IsDisturbed(d)'
    <2>1. ~IsDisturbed(d)
      BY <1>1, <1>4, DisturbedStays
    <2>2. met[p] \subseteq Renders
      BY <1>2, <2>1, MetOnlyPages
    <2>3. Readable(record[d])
      BY <1>1, <2>2 DEF RecordInv, FoundStays, Unlinking
    <2>4. SavedOn(d)' = Gone /\ SavedOn(d) = record[d]
      BY <1>1, <1>4, <2>1, <2>3 DEF SavedOnRead
    <2>5. record[d] \in SUBSET Requests
      BY <1>1, <2>3 DEF TypeOK, Content, Readable
    <2>6. Decisions' = [Decisions EXCEPT ![d] = Gone]
      <3>1. \A e \in Docs \ {d} : SavedOn(e)' = SavedOn(e)
        BY <1>1, OthersStay
      <3>2. QED
        BY <1>1, <2>4, <3>1 DEF Decisions
    <2>7. Log!Open(d) /\ Decisions[d] # Disturbed
      BY <1>1, <2>4, <2>5, LogAssumption DEF Log!Open, Decisions
    <2>8. QED
      BY <1>1, <2>6, <2>7 DEF Log!Next, Log!Delete
  <1>5. QED
    BY <1>3, <1>4


-----------------------------------------------------------------------------
(* One step of the pages *)

\* A step that leaves bytes and pages as they are, as one request sees it.
PagePasses(p) ==
    /\ \A step \in {"fillbytes", "openrender", "writerender"} : pc'[p] = step => pc[p] = step
    /\ pc[p] \in {"unlinkrecord", "unlinkrenders"} =>
         pc'[p] \in {"unlinkrecord", "unlinkrenders", "failed"}
    /\ pc[p] \in {"fillbytes", "writerender", "failed"} /\ p \in orphaned => p \in orphaned'

PageAside ==
    /\ UNCHANGED <<bytes, renders>>
    /\ \A p \in Requests : PagePasses(p)

OnPages(p) ==
    \/ UnlinkBytes(p) \/ UnlinkRenders(p)
    \/ ReadBytes(p) \/ OpenRender(p) \/ WriteRender(p)
    \/ StoreBytes(p) \/ FillBytes(p) \/ FillFails(p)

LEMMA PageSteps ==
    ASSUME TypeOK, [Next]_vars
    PROVE  PageAside \/ \E p \in Requests : OnPages(p)
  <1> USE DEF TypeOK, PagePasses, PageAside, Goto
  <1>1. ASSUME NEW p \in Requests, NEW d \in Docs, Load(p, d)
        PROVE  PageAside
    BY <1>1 DEF Load, Admitted, FirstStep, files
  <1>2. ASSUME NEW p \in Requests, CheckDuplicate(p)
        PROVE  PageAside
    BY <1>2 DEF CheckDuplicate, Admitted, files
  <1>3. ASSUME NEW p \in Requests, Save(p)
        PROVE  PageAside
    BY <1>3 DEF Save, OpenRecord, WriteRecord, ReadIndex, OpenIndex, WriteIndex, files
  <1>4. ASSUME NEW p \in Requests, OpenTombstone(p) \/ WriteTombstone(p)
        PROVE  PageAside
    BY <1>4 DEF OpenTombstone, WriteTombstone
  <1>5. ASSUME NEW p \in Requests, UnlinkRecord(p)
        PROVE  PageAside
    BY <1>5 DEF UnlinkRecord, Orphan
  <1>6. ASSUME NEW p \in Requests, LookInCache(p) \/ Verify(p)
        PROVE  PageAside
    BY <1>6 DEF LookInCache, Verify, files
  <1>7. ASSUME NEW P, Stop(P)
        PROVE  PageAside
    BY <1>7 DEF Stop, Active, files
  <1>8. ASSUME UNCHANGED vars
        PROVE  PageAside
    BY <1>8 DEF vars, files
  <1> HIDE DEF PageAside
  <1>9. ASSUME NEW p \in Requests, Save(p) \/ Delete(p) \/ Render(p) \/ Ingest(p)
        PROVE  PageAside \/ OnPages(p)
    BY <1>3, <1>4, <1>5, <1>6, <1>9 DEF Delete, Render, Ingest, OnPages
  <1>10. QED
    BY <1>1, <1>2, <1>7, <1>8, <1>9 DEF Next, Crash

\* The document of a request that began has a hash, and is its own to the end.
LEMMA HashKept ==
    ASSUME StepHyp, NEW p \in Requests, pc[p] # "idle"
    PROVE  doc'[p] = doc[p] /\ doc[p] \in Docs /\ HashOf[doc[p]] \in Hashes
  BY DEF StepHyp, Started, DocKnown, Hashes

\* What excuses a page of h does so until the pages of h are unlinked.
LEMMA ExcuseStays ==
    ASSUME StepHyp, NEW h \in Hashes, Excuse(h),
           \A p \in Requests : pc[p] \in {"unlinkrecord", "unlinkrenders"} =>
               HashOf[doc[p]] # h \/ pc'[p] \in {"unlinkrecord", "unlinkrenders", "failed"},
           \A p \in Requests : pc[p] = "failed" /\ p \in orphaned => p \in orphaned'
    PROVE  Excuse(h)'
  <1>1. PICK p \in Requests :
          /\ doc[p] \in Docs /\ HashOf[doc[p]] = h
          /\ \/ {pc[p], cut[p]} \cap {"unlinkrecord", "unlinkrenders"} # {}
             \/ met[p] \cap Renders # {}
             \/ cut[p] = "fillbytes" /\ p \in orphaned
    BY DEF Excuse
  <1>2. doc'[p] = doc[p] /\ met[p] \subseteq met'[p]
    BY <1>1, StoreAssumption DEF StepHyp, HistoryInv, HistoryStep, Started
  <1>3. cut[p] # "none" => pc[p] = "failed" /\ cut'[p] = cut[p]
    BY DEF StepHyp, HistoryInv, HistoryStep, Halfway
  <1>4. ASSUME pc[p] \in {"unlinkrecord", "unlinkrenders"}
        PROVE  {pc'[p], cut'[p]} \cap {"unlinkrecord", "unlinkrenders"} # {}
    <2>1. pc'[p] \in {"unlinkrecord", "unlinkrenders", "failed"}
      BY <1>1, <1>4
    <2>2. pc'[p] = "failed" => cut'[p] = pc[p]
      BY <1>4 DEF StepHyp, HistoryStep, Halfway
    <2>3. QED
      BY <1>4, <2>1, <2>2
  <1>5. cut[p] \in {"unlinkrecord", "unlinkrenders"} => {pc'[p], cut'[p]} \cap {"unlinkrecord", "unlinkrenders"} # {}
    BY <1>3
  <1>6. cut[p] = "fillbytes" /\ p \in orphaned => cut'[p] = "fillbytes" /\ p \in orphaned'
    BY <1>3
  <1>7. QED
    BY <1>1, <1>2, <1>4, <1>5, <1>6 DEF Excuse

\* A page of h there is or will be.
PageOf(h) == renders[h] # "absent" \/ \E p \in Requests : pc[p] = "openrender" /\ HashOf[doc[p]] = h

\* What each step of a request on bytes and pages does.
LEMMA OnPagesIs ==
    ASSUME TypeOK, NEW p \in Requests, OnPages(p)
    PROVE  /\ pc[p] \notin {"idle", "failed", "unlinkrecord"} /\ pc' = [pc EXCEPT ![p] = pc'[p]]
           /\ UNCHANGED doc
           /\ \A q \in Requests \ {p} : q \in orphaned => q \in orphaned'
  BY DEF TypeOK, OnPages, UnlinkBytes, UnlinkRenders, ReadBytes, OpenRender, WriteRender, StoreBytes,
         FillBytes, FillFails, Orphan, Goto, request

LEMMA FillersNext ==
    ASSUME StepHyp, PageInv, [Next]_vars
    PROVE  FillersFill'
  <1> USE DEF StepHyp
  <1> DEFINE Filler(q) == pc[q] = "fillbytes" /\ q \notin orphaned
  <1>1. SUFFICES ASSUME NEW q \in Requests, Filler(q)'
        PROVE  /\ bytes'[HashOf[doc'[q]]] = "partial"
               /\ \A r \in Requests : Filler(r)' /\ HashOf[doc'[r]] = HashOf[doc'[q]] => r = q
    BY DEF FillersFill
  <1>2. ASSUME NEW r \in Requests, Filler(r)
        PROVE  /\ bytes[HashOf[doc[r]]] = "partial"
               /\ \A s \in Requests : Filler(s) /\ HashOf[doc[s]] = HashOf[doc[r]] => s = r
               /\ doc'[r] = doc[r] /\ HashOf[doc[r]] \in Hashes
    BY <1>2, HashKept DEF PageInv, FillersFill
  <1>3. ASSUME \A r \in Requests : Filler(r)' => Filler(r), bytes'[HashOf[doc[q]]] = bytes[HashOf[doc[q]]]
        PROVE  /\ bytes'[HashOf[doc'[q]]] = "partial"
               /\ \A r \in Requests : Filler(r)' /\ HashOf[doc'[r]] = HashOf[doc'[q]] => r = q
    <2>1. Filler(q)
      BY <1>1, <1>3
    <2> HIDE DEF Filler
    <2>2. bytes'[HashOf[doc'[q]]] = "partial" /\ doc'[q] = doc[q]
      BY <1>2, <1>3, <2>1
    <2>3. \A r \in Requests : Filler(r)' => Filler(r) /\ doc'[r] = doc[r]
      BY <1>2, <1>3
    <2>4. QED
      BY <1>2, <2>1, <2>2, <2>3
  <1>4. CASE PageAside
    <2>1. \A r \in Requests : Filler(r)' => Filler(r)
      BY <1>4 DEF PageAside, PagePasses
    <2>2. QED
      BY <1>3, <1>4, <2>1 DEF PageAside
  <1>5. ASSUME NEW p \in Requests, ReadBytes(p) \/ OpenRender(p) \/ WriteRender(p) \/ UnlinkRenders(p)
        PROVE  (\A r \in Requests : Filler(r)' => Filler(r)) /\ bytes'[HashOf[doc[q]]] = bytes[HashOf[doc[q]]]
    BY <1>5 DEF ReadBytes, OpenRender, WriteRender, UnlinkRenders, Goto, TypeOK, files, Orphan
  <1>6. ASSUME NEW p \in Requests, UnlinkBytes(p) \/ FillFails(p)
        PROVE  (\A r \in Requests : Filler(r)' => Filler(r)) /\ bytes'[HashOf[doc[q]]] = bytes[HashOf[doc[q]]]
    <2>1. /\ bytes' = [bytes EXCEPT ![HashOf[doc[p]]] = "absent"]
          /\ orphaned' = orphaned \cup {r \in Requests : pc'[r] = "fillbytes" /\ doc[r] \in SameBytes(doc[p])}
          /\ pc[p] # "idle" /\ pc'[p] # "fillbytes"
          /\ \A r \in Requests \ {p} : pc'[r] = pc[r]
      BY <1>6 DEF UnlinkBytes, FillFails, Orphan, Goto, TypeOK
    <2>2. \A r \in Requests : Filler(r)' => Filler(r)
      BY <2>1
    <2>3. doc[q] \in Docs /\ doc[q] \notin SameBytes(doc[p])
      BY <1>1, <2>1, <2>2, HashKept
    <2>4. HashOf[doc[q]] # HashOf[doc[p]]
      BY <2>3 DEF SameBytes
    <2>5. QED
      BY <2>1, <2>2, <2>4 DEF TypeOK
  <1>7. ASSUME NEW p \in Requests, FillBytes(p)
        PROVE  (\A r \in Requests : Filler(r)' => Filler(r)) /\ bytes'[HashOf[doc[q]]] = bytes[HashOf[doc[q]]]
    <2>1. /\ pc[p] = "fillbytes" /\ pc'[p] = "verify" /\ UNCHANGED orphaned
          /\ bytes' = IF p \in orphaned THEN bytes ELSE [bytes EXCEPT ![HashOf[doc[p]]] = "whole"]
          /\ \A r \in Requests \ {p} : pc'[r] = pc[r]
      BY <1>7 DEF FillBytes, Goto, TypeOK
    <2>2. \A r \in Requests : Filler(r)' => Filler(r)
      BY <2>1
    <2>3. q # p /\ Filler(q)
      BY <1>1, <2>1
    <2>4. p \notin orphaned => HashOf[doc[q]] # HashOf[doc[p]]
      BY <1>2, <2>1, <2>3
    <2>5. QED
      BY <2>1, <2>2, <2>4 DEF TypeOK
  <1>8. ASSUME NEW p \in Requests, StoreBytes(p)
        PROVE  \/ (\A r \in Requests : Filler(r)' => Filler(r)) /\ bytes'[HashOf[doc[q]]] = bytes[HashOf[doc[q]]]
               \/ /\ bytes'[HashOf[doc'[q]]] = "partial"
                  /\ \A r \in Requests : Filler(r)' /\ HashOf[doc'[r]] = HashOf[doc'[q]] => r = q
    <2>1. /\ pc[p] = "store" /\ pc'[p] \in {"fillbytes", "verify", "overwrite"} /\ orphaned' = orphaned \ {p}
          /\ \A r \in Requests \ {p} : pc'[r] = pc[r]
          /\ UNCHANGED doc
          /\ IF pc'[p] = "fillbytes"
             THEN bytes[HashOf[doc[p]]] = "absent" /\ bytes' = [bytes EXCEPT ![HashOf[doc[p]]] = "partial"]
             ELSE bytes' = bytes
      BY <1>8 DEF StoreBytes, Goto, TypeOK, request
    <2>2. HashOf[doc[p]] \in Hashes
      BY <2>1, HashKept
    <2>3. \A r \in Requests \ {p} : Filler(r)' => Filler(r)
      BY <2>1
    <2>4. CASE pc'[p] # "fillbytes"
      BY <2>1, <2>3, <2>4
    <2>5. ASSUME pc'[p] = "fillbytes"
          PROVE  /\ bytes'[HashOf[doc'[q]]] = "partial"
                 /\ \A r \in Requests : Filler(r)' /\ HashOf[doc'[r]] = HashOf[doc'[q]] => r = q
      <3>1. bytes[HashOf[doc[p]]] = "absent" /\ bytes' = [bytes EXCEPT ![HashOf[doc[p]]] = "partial"]
        BY <2>1, <2>5
      <3>2. \A r \in Requests \ {p} : Filler(r)' => HashOf[doc[r]] # HashOf[doc[p]] /\ bytes[HashOf[doc[r]]] = "partial"
                                        /\ HashOf[doc[r]] \in Hashes
        <4> HIDE DEF Filler
        <4>1. QED
          BY <1>2, <2>3, <3>1
      <3>3. bytes'[HashOf[doc'[q]]] = "partial"
        BY <1>1, <2>1, <2>2, <3>1, <3>2 DEF TypeOK
      <3>4. ASSUME NEW r \in Requests, Filler(r)', HashOf[doc'[r]] = HashOf[doc'[q]]
            PROVE  r = q
        <4>1. CASE r = p \/ q = p
          BY <1>1, <2>1, <3>2, <3>4, <4>1
        <4>2. CASE r # p /\ q # p
          <5>1. Filler(r) /\ Filler(q) /\ HashOf[doc[r]] = HashOf[doc[q]]
            BY <1>1, <2>1, <2>3, <3>4, <4>2
          <5> HIDE DEF Filler
          <5>2. QED
            BY <1>2, <5>1
        <4>3. QED
          BY <4>1, <4>2
      <3>5. QED
        BY <3>3, <3>4
    <2>6. QED
      BY <2>4, <2>5
  <1>9. QED
    <2> HIDE DEF Filler
    <2>1. QED
      BY <1>3, <1>4, <1>5, <1>6, <1>7, <1>8, PageSteps DEF OnPages

LEMMA OpenPagesNext ==
    ASSUME StepHyp, PageInv, [Next]_vars
    PROVE  PageIsOpen'
  <1> USE DEF StepHyp
  <1>1. SUFFICES ASSUME NEW q \in Requests, pc'[q] = "writerender", q \notin orphaned'
        PROVE  renders'[HashOf[doc'[q]]] # "absent"
    BY DEF PageIsOpen
  <1>2. ASSUME pc[q] = "writerender", q \notin orphaned
        PROVE  renders[HashOf[doc[q]]] # "absent" /\ doc'[q] = doc[q] /\ HashOf[doc[q]] \in Hashes
               /\ doc[q] \in Docs
    BY <1>2, HashKept DEF PageInv, PageIsOpen
  <1>3. CASE PageAside
    BY <1>1, <1>2, <1>3 DEF PageAside, PagePasses
  <1>4. ASSUME NEW p \in Requests, OnPages(p), ~OpenRender(p), ~UnlinkRenders(p)
        PROVE  renders'[HashOf[doc'[q]]] # "absent"
    <2>1. pc[q] = "writerender" /\ q \notin orphaned
      BY <1>1, <1>4 DEF OnPages, UnlinkBytes, ReadBytes, WriteRender, StoreBytes, FillBytes, FillFails, Orphan,
                        Goto, TypeOK, files
    <2>2. \/ UNCHANGED renders
          \/ renders' = [renders EXCEPT ![HashOf[doc[p]]] = "whole"]
      BY <1>4 DEF OnPages, UnlinkBytes, ReadBytes, WriteRender, StoreBytes, FillBytes, FillFails, files
    <2>3. QED
      BY <1>2, <2>1, <2>2 DEF TypeOK
  <1>5. ASSUME NEW p \in Requests, OpenRender(p)
        PROVE  renders'[HashOf[doc'[q]]] # "absent"
    <2>1. /\ pc[p] = "openrender" /\ renders' = [renders EXCEPT ![HashOf[doc[p]]] = "partial"]
          /\ orphaned' = orphaned \ {p} /\ UNCHANGED doc
          /\ \A r \in Requests \ {p} : pc'[r] = pc[r]
      BY <1>5 DEF OpenRender, Goto, TypeOK, request
    <2>2. HashOf[doc[p]] \in Hashes
      BY <2>1, HashKept
    <2>3. CASE q = p
      BY <2>1, <2>2, <2>3 DEF TypeOK
    <2>4. CASE q # p
      BY <1>1, <1>2, <2>1, <2>4 DEF TypeOK
    <2>5. QED
      BY <2>3, <2>4
  <1>6. ASSUME NEW p \in Requests, UnlinkRenders(p)
        PROVE  renders'[HashOf[doc'[q]]] # "absent"
    <2>1. /\ pc[p] = "unlinkrenders" /\ pc'[p] = "done"
          /\ renders' = [renders EXCEPT ![HashOf[doc[p]]] = "absent"]
          /\ orphaned' = orphaned \cup {r \in Requests : pc'[r] = "writerender" /\ doc[r] \in SameBytes(doc[p])}
          /\ \A r \in Requests \ {p} : pc'[r] = pc[r]
      BY <1>6 DEF UnlinkRenders, Orphan, Goto, TypeOK
    <2>2. pc[q] = "writerender" /\ q \notin orphaned /\ doc[q] \notin SameBytes(doc[p])
      BY <1>1, <2>1
    <2>3. HashOf[doc[q]] # HashOf[doc[p]]
      BY <1>2, <2>2 DEF SameBytes
    <2>4. QED
      BY <1>2, <2>1, <2>2, <2>3 DEF TypeOK
  <1>7. QED
    BY <1>3, <1>4, <1>5, <1>6, PageSteps

\* The excuses of the pages outlive each step.
LEMMA ExcusesNext ==
    ASSUME StepHyp, PageInv, [Next]_vars
    PROVE  PagesAreExcused'
  <1> USE DEF StepHyp
  <1>1. SUFFICES ASSUME NEW h \in Hashes, bytes'[h] # "whole", PageOf(h)'
        PROVE  Excuse(h)'
    BY DEF PagesAreExcused, PageOf
  <1>2. bytes[h] # "whole" /\ PageOf(h) => Excuse(h)
    BY DEF PageInv, PagesAreExcused, PageOf
  <1>3. CASE PageAside
    <2>1. bytes[h] # "whole" /\ PageOf(h)
      <3>1. ASSUME NEW q \in Requests, pc'[q] = "openrender", HashOf[doc'[q]] = h
            PROVE  pc[q] = "openrender" /\ HashOf[doc[q]] = h
        BY <1>3, <3>1 DEF PageAside, PagePasses, Started
      <3>2. QED
        BY <1>1, <1>3, <3>1 DEF PageAside, PageOf
    <2>2. /\ \A p \in Requests : pc[p] \in {"unlinkrecord", "unlinkrenders"} =>
               pc'[p] \in {"unlinkrecord", "unlinkrenders", "failed"}
          /\ \A p \in Requests : pc[p] = "failed" /\ p \in orphaned => p \in orphaned'
      BY <1>3 DEF PageAside, PagePasses
    <2>3. QED
      BY <1>2, <2>1, <2>2, ExcuseStays
  <1>4. ASSUME NEW p \in Requests, OnPages(p)
        PROVE  Excuse(h)'
    <2>1. /\ pc[p] \notin {"idle", "failed", "unlinkrecord"}
          /\ \A q \in Requests \ {p} : pc'[q] = pc[q] /\ (q \in orphaned => q \in orphaned')
          /\ UNCHANGED doc
          /\ doc[p] \in Docs /\ HashOf[doc[p]] \in Hashes
      BY <1>4, OnPagesIs, HashKept DEF TypeOK
    <2>2. ASSUME bytes[h] # "whole", PageOf(h), pc[p] # "unlinkrenders" \/ HashOf[doc[p]] # h
          PROVE  Excuse(h)'
      <3>1. Excuse(h)
        BY <1>2, <2>2
      <3>2. /\ \A q \in Requests : pc[q] \in {"unlinkrecord", "unlinkrenders"} =>
                 HashOf[doc[q]] # h \/ pc'[q] \in {"unlinkrecord", "unlinkrenders", "failed"}
            /\ \A q \in Requests : pc[q] = "failed" /\ q \in orphaned => q \in orphaned'
        BY <2>1, <2>2
      <3>3. QED
        BY <3>1, <3>2, ExcuseStays
    <2>3. CASE UnlinkBytes(p)
      <3>1. pc[p] = "unlinkbytes" /\ pc'[p] = "unlinkrecord" /\ UNCHANGED renders
            /\ bytes' = [bytes EXCEPT ![HashOf[doc[p]]] = "absent"]
        BY <2>3 DEF UnlinkBytes, Goto, TypeOK
      <3>2. CASE HashOf[doc[p]] = h
        BY <2>1, <3>1, <3>2 DEF Excuse
      <3>3. CASE HashOf[doc[p]] # h
        <4>1. bytes[h] # "whole"
          BY <1>1, <3>1, <3>3 DEF TypeOK
        <4>2. PageOf(h)
          BY <1>1, <2>1, <3>1 DEF PageOf
        <4>3. QED
          BY <2>2, <3>3, <4>1, <4>2
      <3>4. QED
        BY <3>2, <3>3
    <2>4. CASE UnlinkRenders(p)
      <3>1. pc[p] = "unlinkrenders" /\ pc'[p] = "done" /\ UNCHANGED bytes
            /\ renders' = [renders EXCEPT ![HashOf[doc[p]]] = "absent"]
        BY <2>4 DEF UnlinkRenders, Goto, TypeOK
      <3>2. CASE HashOf[doc[p]] = h
        <4>1. PICK q \in Requests : pc'[q] = "openrender" /\ HashOf[doc'[q]] = h
          BY <1>1, <3>1, <3>2 DEF PageOf, TypeOK
        <4>2. q # p /\ pc[q] = "openrender" /\ HashOf[doc[q]] = h
          BY <2>1, <3>1, <4>1
        <4>3. q \in met[p] /\ q \in Renders
          BY <3>1, <3>2, <4>2 DEF HistoryInv, Meet, StepsAreTheirs, Rendering
        <4>4. met[p] \subseteq met'[p]
          BY DEF HistoryStep
        <4>5. QED
          BY <2>1, <3>2, <4>3, <4>4 DEF Excuse
      <3>3. CASE HashOf[doc[p]] # h
        <4>1. renders'[h] = renders[h]
          BY <3>1, <3>3 DEF TypeOK
        <4>2. PageOf(h)
          BY <1>1, <2>1, <3>1, <4>1 DEF PageOf
        <4>3. QED
          BY <1>1, <2>2, <3>1, <3>3, <4>2
      <3>4. QED
        BY <3>2, <3>3
    <2>5. CASE ReadBytes(p)
      <3>1. pc[p] = "readbytes" /\ UNCHANGED <<bytes, renders>>
            /\ pc'[p] = IF bytes[HashOf[doc[p]]] = "whole" THEN "openrender" ELSE "failed"
        BY <2>5 DEF ReadBytes, Goto, TypeOK, files
      <3>2. HashOf[doc[p]] = h => pc'[p] # "openrender"
        BY <1>1, <3>1
      <3>3. PageOf(h)
        BY <1>1, <2>1, <3>1, <3>2 DEF PageOf
      <3>4. QED
        BY <1>1, <2>2, <3>1, <3>3
    <2>6. CASE OpenRender(p)
      <3>1. pc[p] = "openrender" /\ pc'[p] = "writerender" /\ UNCHANGED bytes
            /\ renders' = [renders EXCEPT ![HashOf[doc[p]]] = "partial"]
        BY <2>6 DEF OpenRender, Goto, TypeOK
      <3>2. HashOf[doc[p]] # h => renders'[h] = renders[h]
        BY <3>1 DEF TypeOK
      <3>3. PageOf(h)
        BY <1>1, <2>1, <3>1, <3>2 DEF PageOf
      <3>4. QED
        BY <1>1, <2>2, <3>1, <3>3
    <2>7. CASE WriteRender(p)
      <3>1. pc[p] = "writerender" /\ pc'[p] = "done" /\ UNCHANGED bytes
            /\ renders' = IF p \in orphaned THEN renders ELSE [renders EXCEPT ![HashOf[doc[p]]] = "whole"]
        BY <2>7 DEF WriteRender, Goto, TypeOK
      <3>2. p \notin orphaned => renders[HashOf[doc[p]]] # "absent"
        BY <3>1 DEF PageInv, PageIsOpen
      <3>3. renders'[h] # "absent" => renders[h] # "absent"
        BY <3>1, <3>2 DEF TypeOK
      <3>4. PageOf(h)
        BY <1>1, <2>1, <3>1, <3>3 DEF PageOf
      <3>5. QED
        BY <1>1, <2>2, <3>1, <3>4
    <2>8. CASE StoreBytes(p)
      <3>1. pc[p] = "store" /\ pc'[p] \in {"fillbytes", "verify", "overwrite"} /\ UNCHANGED renders
            /\ \/ bytes' = bytes
               \/ bytes[HashOf[doc[p]]] = "absent" /\ bytes' = [bytes EXCEPT ![HashOf[doc[p]]] = "partial"]
        BY <2>8 DEF StoreBytes, Goto, TypeOK
      <3>2. bytes[h] # "whole"
        BY <1>1, <3>1 DEF TypeOK
      <3>3. PageOf(h)
        BY <1>1, <2>1, <3>1 DEF PageOf
      <3>4. QED
        BY <2>2, <3>1, <3>2, <3>3
    <2>9. CASE FillBytes(p)
      <3>1. pc[p] = "fillbytes" /\ pc'[p] = "verify" /\ UNCHANGED renders
            /\ bytes' = IF p \in orphaned THEN bytes ELSE [bytes EXCEPT ![HashOf[doc[p]]] = "whole"]
        BY <2>9 DEF FillBytes, Goto, TypeOK
      <3>2. bytes[h] # "whole"
        BY <1>1, <3>1 DEF TypeOK
      <3>3. PageOf(h)
        BY <1>1, <2>1, <3>1 DEF PageOf
      <3>4. QED
        BY <2>2, <3>1, <3>2, <3>3
    <2>10. CASE FillFails(p)
      <3>1. /\ pc[p] = "fillbytes" /\ pc'[p] = "failed" /\ UNCHANGED renders
            /\ bytes' = [bytes EXCEPT ![HashOf[doc[p]]] = "absent"]
            /\ p \in orphaned => p \in orphaned'
        BY <2>10 DEF FillFails, Goto, TypeOK, Orphan
      <3>2. PageOf(h)
        BY <1>1, <2>1, <3>1 DEF PageOf
      <3>3. CASE p \in orphaned /\ HashOf[doc[p]] = h
        <4>1. cut'[p] = "fillbytes"
          BY <3>1 DEF HistoryStep, Halfway
        <4>2. QED
          BY <2>1, <3>1, <3>3, <4>1 DEF Excuse
      <3>4. CASE p \notin orphaned /\ HashOf[doc[p]] = h
        <4>1. bytes[h] # "whole"
          BY <3>1, <3>4 DEF PageInv, FillersFill
        <4>2. QED
          BY <2>2, <3>1, <3>2, <4>1
      <3>5. CASE HashOf[doc[p]] # h
        <4>1. bytes[h] # "whole"
          BY <1>1, <3>1, <3>5 DEF TypeOK
        <4>2. QED
          BY <2>2, <3>1, <3>2, <4>1
      <3>6. QED
        BY <3>3, <3>4, <3>5
    <2>11. QED
      BY <1>4, <2>3, <2>4, <2>5, <2>6, <2>7, <2>8, <2>9, <2>10 DEF OnPages
  <1>5. QED
    BY <1>3, <1>4, PageSteps

-----------------------------------------------------------------------------
(* The invariant of the store and its history *)

LogInv == StoreInv /\ StepsAreTheirs /\ HistoryInv /\ RecordInv /\ PageInv

\* Before any request, nothing is written and nobody met.
LEMMA LogStarts == LogInit => LogInv
  <1> SUFFICES ASSUME LogInit PROVE LogInv
    OBVIOUS
  <1>1. /\ \A p \in Requests : pc[p] = "idle" /\ doc[p] = NoDoc /\ seen[p] = {} /\ met[p] = {} /\ cut[p] = "none"
        /\ \A d \in Docs : record[d] = (IF d \in Held THEN {} ELSE Absent) /\ tombstone[d] = "absent"
        /\ \A h \in Hashes : renders[h] = "absent"
        /\ met \in [Requests -> SUBSET Requests] /\ cut \in [Requests -> Halfway \cup {"none"}]
    BY DEF LogInit, Init
  <1>2. /\ Reviews \subseteq Requests /\ Deletions \subseteq Requests /\ Ingestions \subseteq Requests
        /\ {} \notin {Absent, Empty, Torn} /\ Absent # Empty /\ Absent # Torn
        /\ \A p \in Ingestions : NewDoc[p] \in Docs \ Held
        /\ NoDoc \notin Docs
    BY StoreAssumption DEF Requests
  <1>3. StoreInv
    BY KeepInit, IndexInit, BasisInit DEF StoreInv, LogInit
  <1>4. StepsAreTheirs
    BY <1>1 DEF StepsAreTheirs, Saving, Indexed, Unlinking, Rendering, Storing
  <1>5. HistoryInv
    BY <1>1 DEF HistoryInv, Meet, Changing
  <1>6. RunsAreFirst
    BY <1>1, <1>2 DEF RunsAreFirst
  <1>7. Unwritten
    BY <1>1 DEF Unwritten, Readable
  <1>8. WritersWrite /\ DecisionsStay /\ DeletionsAreFinal /\ FoundStays
    BY <1>1, <1>2 DEF WritersWrite, DecisionsStay, Answered, Indexed, DeletionsAreFinal, FoundStays, Unlinking
  <1>9. ReviewSurvivesRestart
    BY <1>1, <1>2 DEF ReviewSurvivesRestart
  <1>10. PageInv
    BY <1>1 DEF PageInv, FillersFill, PageIsOpen, PagesAreExcused
  <1>11. QED
    BY <1>3, <1>4, <1>5, <1>6, <1>7, <1>8, <1>9, <1>10 DEF LogInv, RecordInv

\* Every step of the store, noted or not, keeps it.
LEMMA LogGoesOn ==
    ASSUME LogInv, [LogNext]_<<vars, history>>
    PROVE  StepHyp /\ LogInv'
  <1>1. [Next]_vars
    BY DEF LogNext, history
  <1>2. TypeOK /\ DocKnown /\ DeletingHasTombstone /\ StepsAreTheirs /\ HistoryInv /\ RecordInv /\ PageInv
    BY DEF LogInv, StoreInv, KeepInv
  <1>3. StoreInv'
    BY <1>1, KeepNext, IndexNext, BasisNext DEF LogInv, StoreInv, KeepInv
  <1>4. TypeOK' /\ BasisInv'
    BY <1>3 DEF StoreInv, KeepInv
  <1>5. Started /\ TombstonesStay /\ Onward /\ StepsAreTheirs'
    BY <1>1, <1>2, RequestsKeepTheirDocument, Tombstones, StepsGoOnward, KindsNext
  <1>6. HistoryStep
    BY <1>2, <1>4, HistoryNext
  <1>7. TombstonesAreTheirs
        /\ (Aside \/ \E p \in Requests : OpenRecord(p) \/ WriteRecord(p) \/ UnlinkRecord(p))
    BY <1>1, <1>2, RecordSteps
  <1>8. StepHyp
    BY <1>2, <1>4, <1>5, <1>6, <1>7 DEF StepHyp
  <1>9. RecordInv'
    BY <1>7, <1>8, AsideKeepsRecords, OpenRecordKeepsRecords, WriteRecordKeepsRecords, UnlinkRecordKeepsRecords
  <1>10. PageInv'
    BY <1>1, <1>2, <1>8, FillersNext, OpenPagesNext, ExcusesNext DEF PageInv
  <1>11. HistoryInv'
    BY <1>6 DEF HistoryStep
  <1>12. QED
    BY <1>3, <1>5, <1>8, <1>9, <1>10, <1>11 DEF LogInv

LEMMA LogInvariant == LogSpec => []LogInv
  <1>1. LogInv /\ [LogNext]_<<vars, history>> => LogInv'
    BY LogGoesOn
  <1>2. QED
    BY <1>1, LogStarts, PTL DEF LogSpec

-----------------------------------------------------------------------------
(* The promises *)

\* json_store.save and delete_permanently, whatever else is under way and
\* wherever a process stops: the store implements the decision log. A save adds
\* its decision and loses none, a deletion is final, and only documents that
\* two requests changed at once, or whose save was cut short, are disturbed.
THEOREM StoreImplementsLog == LogSpec => ImplementsLog
  <1>1. LogInit => Log!Init
    <2>1. SUFFICES ASSUME LogInit PROVE Log!Init
      OBVIOUS
    <2>2. LogInv
      BY <2>1, LogStarts
    <2>3. ASSUME NEW d \in Docs
          PROVE  SavedOn(d) = IF d \in Held THEN {} ELSE NotYet
      <3>1. record[d] = (IF d \in Held THEN {} ELSE Absent) /\ tombstone[d] = "absent"
        BY <2>1 DEF LogInit, Init
      <3>2. {} \notin {Absent, Empty, Torn}
        BY StoreAssumption
      <3>3. ~IsDisturbed(d)
        BY <2>1 DEF LogInit, IsDisturbed
      <3>4. QED
        BY <2>2, <3>1, <3>2, <3>3, SavedOnIs DEF LogInv, SavedOnRead, Readable
    <2>4. QED
      BY <2>3 DEF Log!Init, Decisions
  <1>2. LogInv /\ [LogNext]_<<vars, history>> => [Log!Next]_Decisions
    <2>1. SUFFICES ASSUME LogInv, [LogNext]_<<vars, history>> PROVE Log!Next
      OBVIOUS
    <2>2. StepHyp /\ LogInv'
      BY <2>1, LogGoesOn
    <2>3. SavedOnRead
      BY <2>1, SavedOnIs DEF LogInv
    <2>4. SavedOnRead'
      <3>1. (HistoryInv /\ StepsAreTheirs => SavedOnRead)'
        BY SavedOnIs, PTL
      <3>2. QED
        BY <2>2, <3>1 DEF LogInv
    <2>5. LogHyp
      BY <2>2, <2>3, <2>4 DEF LogHyp, LogInv
    <2>6. [Next]_vars /\ TypeOK /\ DocKnown /\ StepsAreTheirs
      BY <2>1 DEF LogNext, LogInv, StoreInv, KeepInv, history
    <2>7. ASSUME NEW p \in Requests, OpenRecord(p) \/ WriteRecord(p) \/ UnlinkRecord(p)
          PROVE  Log!Next
      <3>1. doc[p] \in Docs
        BY <2>6, <2>7 DEF OpenRecord, WriteRecord, UnlinkRecord, DocKnown
      <3>2. QED
        BY <2>5, <2>7, <3>1, OpenRecordSaves, WriteRecordSaves, UnlinkRecordDeletes
    <2>8. QED
      BY <2>5, <2>6, <2>7, RecordSteps, AsideDisturbs
  <1>3. QED
    BY <1>1, <1>2, LogInvariant, PTL DEF LogSpec, ImplementsLog, Log!Spec

\* 10.33, review/actions.py: an acknowledged decision is on its record, unless
\* another review was under way on it, whatever crashed or was deleted.
THEOREM DecisionsAreKept == LogSpec => []AcknowledgedDecisionsKept
  <1>1. LogInv => AcknowledgedDecisionsKept
    BY DEF LogInv, RecordInv, DecisionsStay, Answered, AcknowledgedDecisionsKept
  <1>2. QED
    BY <1>1, LogInvariant, PTL

\* 2.6.c, security/retention.py: no save writes a deleted record back but one
\* that was under way with the deletion.
THEOREM DeletionsStay == LogSpec => []DeletedStaysDeleted
  <1>1. LogInv => DeletedStaysDeleted
    BY DEF LogInv, RecordInv, DeletionsAreFinal, DeletedStaysDeleted
  <1>2. QED
    BY <1>1, LogInvariant, PTL

\* persistence/json_store.py: a record can be read again after any crash but one
\* that cut its save off, unless two reviews wrote it at once.
THEOREM ReviewsSurviveRestarts == LogSpec => []ReviewSurvivesRestart
  <1>1. LogInv => ReviewSurvivesRestart
    BY DEF LogInv, RecordInv
  <1>2. QED
    BY <1>1, LogInvariant, PTL

\* security/retention.py: pages go with the bytes they were made of, unless the
\* deletion met a page being rendered or was cut off before it looked for pages.
THEOREM RendersGoWithTheirBytes == LogSpec => []RendersDoNotOutliveBytes
  <1>1. LogInv => RendersDoNotOutliveBytes
    BY DEF LogInv, PageInv, PagesAreExcused, Excuse, RendersDoNotOutliveBytes
  <1>2. QED
    BY <1>1, LogInvariant, PTL
=============================================================================
