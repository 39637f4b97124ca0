--------------------------- MODULE RecordStoreLog ---------------------------
(***************************************************************************)
(* What the record store is relied on for, with any requests under way at  *)
(* once and a crash at any step.  Nothing locks, so two requests may meet: *)
(* the history variables keep which did, and where a request was cut off,  *)
(* and the promises say what is lost to that and that nothing else is.     *)
(***************************************************************************)
EXTENDS RecordStore

\* Values of the abstract log that are no set of decisions.
CONSTANTS NotYet, Gone, Disturbed

ASSUME LogAssumption ==
    /\ Cardinality({NotYet, Gone, Disturbed}) = 3
    /\ \A S \in SUBSET Requests : S \notin {NotYet, Gone, Disturbed}

VARIABLES
    met,        \* Requests -> the requests it met
    cut         \* Requests -> the step it was cut off at, halfway, or "none"

history == <<met, cut>>

\* From its load to its last write or unlink of the record, a request goes by
\* what it found.
Changing == {"openrecord", "writerecord", "openstone", "writestone", "unlinkbytes", "unlinkrecord"}

\* Two requests that change one record, or a page of bytes that are gone and
\* the deletion that looks for pages last.
Meet(p, q) ==
    /\ p # q
    /\ \/ doc[p] = doc[q] /\ pc[p] \in Changing /\ pc[q] \in Changing
       \/ /\ {pc[p], pc[q]} = {"openrender", "unlinkrenders"}
          /\ HashOf[doc[p]] = HashOf[doc[q]]

\* After the first of its writes or unlinks, and before the last.
Halfway == {"writerecord", "unlinkrecord", "unlinkrenders", "fillbytes"}

Noted ==
    /\ met' = [p \in Requests |-> met[p] \cup {q \in Requests : Meet(p, q)'}]
    /\ cut' = [p \in Requests |-> IF pc[p] \in Halfway /\ pc'[p] = "failed" THEN pc[p] ELSE cut[p]]

LogInit ==
    /\ Init
    /\ met = [p \in Requests |-> {}]
    /\ cut = [p \in Requests |-> "none"]

LogNext == Next /\ Noted

LogSpec == LogInit /\ [][LogNext]_<<vars, history>>

-----------------------------------------------------------------------------
(* The abstract log *)

\* Two requests met on d, or a save of it was cut off.
IsDisturbed(d) ==
    \E p \in Requests \ Renders : doc[p] = d /\ (met[p] \ Renders # {} \/ cut[p] = "writerecord")

\* What a reader of the code would say is saved on d.  While the record is
\* truncated it is still what the writer loaded: the save has not taken effect.
SavedOn(d) ==
    LET writer == CHOOSE p \in Requests : pc[p] = "writerecord" /\ doc[p] = d
    IN  CASE IsDisturbed(d) -> Disturbed
          [] ~IsDisturbed(d) /\ Readable(record[d]) -> record[d]
          [] ~IsDisturbed(d) /\ record[d] = Absent -> IF tombstone[d] = "absent" THEN NotYet ELSE Gone
          [] ~IsDisturbed(d) /\ record[d] = Empty -> IF writer \in Ingestions THEN NotYet ELSE seen[writer]

Decisions == [d \in Docs |-> SavedOn(d)]

Log == INSTANCE DecisionLog WITH log <- Decisions

-----------------------------------------------------------------------------
(* Promises *)

\* Whatever else is under way or crashes, the store implements the log of each
\* document on which no two requests met and no save was cut off: a save adds
\* its decision and loses none, and a deletion is final.
ImplementsLog == Log!Spec

\* 10.33 (review/actions.py): a decision the reviewer was told is recorded is
\* lost without a trace to another review under way and to nothing else. It is
\* on the record, or the record is deleted, or it cannot be read and says so.
AcknowledgedDecisionsKept ==
    \A p \in Reviews : pc[p] = "done" /\ met[p] \cap Reviews = {} =>
        \/ Readable(record[doc[p]]) /\ p \in record[doc[p]]
        \/ record[doc[p]] \in {Empty, Torn}
        \/ record[doc[p]] = Absent /\ tombstone[doc[p]] # "absent"

\* 2.6.c (security/retention.py): a deletion that was reported leaves no record,
\* unless a review was under way with it, which may write it back.
DeletedStaysDeleted ==
    \A p \in Deletions : pc[p] = "done" /\ met[p] \cap Reviews = {} => record[doc[p]] = Absent

\* "A review session has to survive a restart" (persistence/json_store.py): a
\* record is empty only while a save of it is between truncation and write, or
\* was cut off there, and a mixture only where two reviews met on it.
ReviewSurvivesRestart ==
    \A d \in Docs :
        /\ record[d] = Empty => \E p \in Requests :
               doc[p] = d /\ p \notin orphaned /\ "writerecord" \in {pc[p], cut[p]}
        /\ record[d] = Torn => \E p \in Reviews : doc[p] = d /\ met[p] \cap Reviews # {}

\* "Renders are derivatives of the bytes and must not outlive them"
\* (security/retention.py): a page is left without its bytes only while a
\* deletion has yet to look for it, was cut off before it did, or met a page
\* being rendered; or where a failed run unlinked the bytes of a later one.
RendersDoNotOutliveBytes ==
    \A h \in Hashes : bytes[h] = "absent" /\ renders[h] # "absent" =>
        \E p \in Requests :
            /\ doc[p] \in Docs /\ HashOf[doc[p]] = h
            /\ \/ {pc[p], cut[p]} \cap {"unlinkrecord", "unlinkrenders"} # {}
               \/ met[p] \cap Renders # {}
               \/ cut[p] = "fillbytes" /\ p \in orphaned

-----------------------------------------------------------------------------
(* What the documentation says and the code does not do *)

\* The four promises as they are made, of every request.
EveryDecisionIsKept ==
    Quiet => \A p \in Reviews : pc[p] = "done" =>
        \/ tombstone[doc[p]] # "absent"
        \/ Readable(record[doc[p]]) /\ p \in record[doc[p]]

EveryDeletionIsFinal ==
    Quiet => \A p \in Deletions : pc[p] = "done" => record[doc[p]] = Absent

EveryRecordLoads == Quiet => \A d \in Docs : Saved(d) => Readable(record[d])

NoRenderOutlivesItsBytes ==
    Quiet => \A h \in Hashes : bytes[h] = "absent" => renders[h] = "absent"

\* 10.3 (extraction/hashing.py): "refuses a duplicate by default": two records of
\* a company share their bytes only where one was recorded as a duplicate.
DuplicatesRefusedByDefault ==
    \A d, e \in Docs : d # e /\ Key(d) = Key(e) /\ Saved(d) /\ Saved(e) =>
        \E p \in Ingestions : NewDoc[p] \in {d, e} /\ twin[p] # NoDoc

\* "Re-storing identical bytes is a no-op rather than an error"
\* (extraction/storage.py): no upload is refused as an overwrite.
IdenticalBytesStoreIsNoOp == \A p \in Requests : pc[p] # "overwrite"

\* render_page returns "a PNG of one page" (api/rendering.py), never part of one.
ServedPagesAreWhole == \A p \in Requests : pc[p] # "broken"

\* "The other order leaves a deleted document with no record of the deletion"
\* (security/retention.py): what was deleted has a tombstone that can be read.
TombstonesCanBeRead ==
    \A d \in Held : bytes[HashOf[d]] = "absent" =>
        \E e \in SameBytes(d) : tombstone[e] = "whole"

\* `existing_id_for_hash` is "a lookup over documents already held"
\* (extraction/hashing.py): a duplicate is refused in favour of one.
DuplicateLookupIsOfHeldDocuments ==
    [][\A p \in Ingestions : pc[p] # "refused" /\ pc'[p] = "refused" => Saved(twin'[p])]_vars

\* A linked duplicate "references the existing immutable_hash: the bytes are
\* stored once" (docs/source-policy.md), and so each record has its bytes.
EachRecordHasItsBytes ==
    \A d \in Docs : Saved(d) /\ tombstone[d] = "absent" => bytes[HashOf[d]] = "whole"

==============================================================================
