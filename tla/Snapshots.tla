----------------------------- MODULE Snapshots ------------------------------
(***************************************************************************)
(* The files of one document while requests write them and security/backup *)
(* takes a snapshot of the storage root: the scenario store, which writes  *)
(* beside its file and renames, the record, which is truncated and written *)
(* in place, and the bytes.  The server may be killed between any two      *)
(* steps.  A content is a number: every save writes one that never was     *)
(* there before, its version or its last timestamp being new.              *)
(***************************************************************************)
EXTENDS Integers, FiniteSets

CONSTANTS
    Savers,         \* requests that change the scenarios
    Reviewers,      \* requests that change the record
    Deletions,      \* requests that delete it
    BytesFirst,     \* the hash sorts before "assumptions": its path begins with it
    MaxUnderWay,    \* how many of them run at once
    MaxCrashes,     \* bound on the crashes explored
    MaxSnapshots    \* bound on the snapshots taken

Requests == Savers \cup Reviewers \cup Deletions

\* No file.
None == "none"

ASSUME SnapshotsAssumption ==
    /\ Savers \cap (Reviewers \cup Deletions) = {} /\ Reviewers \cap Deletions = {}
    /\ IsFiniteSet(Requests)
    /\ None \notin Savers
    /\ BytesFirst \in BOOLEAN
    /\ MaxUnderWay \in Nat \ {0} /\ MaxCrashes \in Nat /\ MaxSnapshots \in Nat

Absent == -2
Mixed == -1         \* one text over the rest of another: parses as neither
Empty == 0          \* opened for writing and not yet written

\* What parses.
Whole(content) == content > Empty

\* The files of a snapshot, and where sorted() puts them.
Order == [n \in {"source", "scenarios", "scenarios.tmp", "record"} |->
             CASE n = "source" -> IF BytesFirst THEN 1 ELSE 4
               [] n = "scenarios" -> 2 [] n = "scenarios.tmp" -> 3 [] n = "record" -> 5]
Names == DOMAIN Order

VARIABLES
    inode,      \* Savers -> what is in the file the request created
    scenarios,  \* the one assumptions/<id>.json names, or None
    tmp,        \* the one assumptions/<id>.json.tmp names, or None
    record,     \* <id>.json
    source,     \* the stored PDF
    step,       \* Requests -> what the request does next
    basis,      \* Savers -> the scenarios it loaded
    handle,     \* Savers -> the file it has open
    written,    \* the contents written so far
    crashes,
    snap,       \* the snapshot being taken
    cut,        \* history: the files when its manifest was complete
    saves,      \* history: <<loaded, saved>> of the acknowledged changes
    overlapped  \* history: two changes of the scenarios were under way at once

files == <<inode, scenarios, tmp, record, source>>
server == <<step, basis, handle, written, crashes>>
vars == <<files, server, snap, cut, saves, overlapped>>

Nothing == [n \in Names |-> Absent]
NoSnapshot == [phase |-> "none", unseen |-> {}, listed |-> {}, digest |-> Nothing,
               archive |-> Nothing, taken |-> 0]

\* The bytes and the record of the document are there; nobody has entered an
\* assumption yet.
Init ==
    /\ inode = [s \in Savers |-> Empty]
    /\ scenarios = None /\ tmp = None
    /\ record = 1 /\ source = 1
    /\ step = [r \in Requests |-> "start"]
    /\ basis = [s \in Savers |-> Absent]
    /\ handle = [s \in Savers |-> None]
    /\ written = 1 /\ crashes = 0
    /\ snap = NoSnapshot
    /\ cut = Nothing
    /\ saves = {} /\ overlapped = FALSE

Ended == {"start", "done", "failed"}
UnderWay == {r \in Requests : step[r] \notin Ended}

ContentOf(file) == IF file = None THEN Absent ELSE inode[file]
OnDisk == [n \in Names |->
              CASE n = "scenarios" -> ContentOf(scenarios)
                [] n = "scenarios.tmp" -> ContentOf(tmp)
                [] n = "record" -> record
                [] n = "source" -> source]

Goto(r, next) == step' = [step EXCEPT ![r] = next]

\* A request starts when the server has room for it.
Begin(r) == step[r] = "start" /\ Cardinality(UnderWay) < MaxUnderWay

-----------------------------------------------------------------------------
(***************************************************************************)
(* A change of the scenarios: load, change in memory, write beside, rename.*)
(***************************************************************************)
\* Faulty: a set that was read once is not read again.
LoadScenariosOnce(r) ==
    /\ Begin(r)
    /\ Whole(record)
    /\ Goto(r, "open")
    /\ overlapped' = (overlapped \/ UnderWay \cap Savers # {})
    /\ UNCHANGED <<files, basis, handle, written, crashes, snap, cut, saves>>

\* The route needs a record that parses, and the set must parse if it is there.
LoadScenarios(r) ==
    /\ Begin(r)
    /\ IF Whole(record) /\ (scenarios = None \/ Whole(ContentOf(scenarios)))
       THEN Goto(r, "open") /\ basis' = [basis EXCEPT ![r] = ContentOf(scenarios)]
       ELSE Goto(r, "failed") /\ UNCHANGED basis
    /\ overlapped' = (overlapped \/ UnderWay \cap Savers # {})
    /\ UNCHANGED <<files, handle, written, crashes, snap, cut, saves>>

\* Faulty: the save writes the file itself.
OpenInPlace(r) ==
    LET file == IF scenarios = None THEN r ELSE scenarios
    IN  /\ step[r] = "open"
        /\ scenarios' = file
        /\ tmp' = file
        /\ inode' = [inode EXCEPT ![file] = Empty]
        /\ handle' = [handle EXCEPT ![r] = file]
        /\ Goto(r, "write")
        /\ UNCHANGED <<record, source, basis, written, crashes, snap, cut, saves, overlapped>>

\* write_text opens the one temporary name there is, emptying what it names.
OpenTmp(r) ==
    LET file == IF tmp = None THEN r ELSE tmp
    IN  /\ step[r] = "open"
        /\ tmp' = file
        /\ inode' = [inode EXCEPT ![file] = Empty]
        /\ handle' = [handle EXCEPT ![r] = file]
        /\ Goto(r, "write")
        /\ UNCHANGED <<scenarios, record, source, basis, written, crashes, snap, cut,
                       saves, overlapped>>

\* The text lands in the file that was opened, wherever it is named by now.
WriteTmp(r) ==
    /\ step[r] = "write"
    /\ \E content \in {written + 1} \cup (IF inode[handle[r]] = Empty THEN {} ELSE {Mixed}) :
          inode' = [inode EXCEPT ![handle[r]] = content]
    /\ written' = written + 1
    /\ Goto(r, "rename")
    /\ UNCHANGED <<scenarios, tmp, record, source, basis, handle, crashes, snap, cut,
                   saves, overlapped>>

\* The rename takes whatever the temporary name is by now, or finds nothing.
Rename(r) ==
    /\ step[r] = "rename"
    /\ IF tmp # None
       THEN /\ scenarios' = tmp
            /\ tmp' = None
            /\ saves' = saves \cup {<<basis[r], inode[handle[r]]>>}
            /\ Goto(r, "done")
       ELSE Goto(r, "failed") /\ UNCHANGED <<scenarios, tmp, saves>>
    /\ UNCHANGED <<inode, record, source, basis, handle, written, crashes, snap, cut, overlapped>>

-----------------------------------------------------------------------------
(***************************************************************************)
(* The other requests, as far as a snapshot sees them (RecordStore has     *)
(* them in full).                                                          *)
(***************************************************************************)
TruncateRecord(r) ==
    /\ Begin(r)
    /\ Whole(record)
    /\ record' = Empty
    /\ Goto(r, "save")
    /\ UNCHANGED <<inode, scenarios, tmp, source, basis, handle, written, crashes, snap, cut,
                   saves, overlapped>>

WriteRecord(r) ==
    /\ step[r] = "save"
    /\ record' = IF record = Absent THEN Absent ELSE written + 1
    /\ written' = written + 1
    /\ Goto(r, "done")
    /\ UNCHANGED <<inode, scenarios, tmp, source, basis, handle, crashes, snap, cut, saves, overlapped>>

\* A deletion takes the bytes and then the record, and no more.
UnlinkBytes(r) ==
    /\ Begin(r)
    /\ Whole(record)
    /\ source' = Absent
    /\ Goto(r, "unlink")
    /\ UNCHANGED <<inode, scenarios, tmp, record, basis, handle, written, crashes, snap, cut,
                   saves, overlapped>>

UnlinkRecord(r) ==
    /\ step[r] = "unlink"
    /\ record' = Absent
    /\ Goto(r, "done")
    /\ UNCHANGED <<inode, scenarios, tmp, source, basis, handle, written, crashes, snap, cut,
                   saves, overlapped>>

\* Every request under way is gone; the files are what they are.
Crash ==
    /\ crashes < MaxCrashes
    /\ UnderWay # {}
    /\ crashes' = crashes + 1
    /\ step' = [r \in Requests |-> IF r \in UnderWay THEN "failed" ELSE step[r]]
    /\ UNCHANGED <<files, basis, handle, written, snap, cut, saves, overlapped>>

-----------------------------------------------------------------------------
(***************************************************************************)
(* backup.snapshot, a process of its own: walk the tree, digest each file, *)
(* archive each file, add the manifest.  A file that is gone by the time   *)
(* it is opened ends it with an error.                                     *)
(***************************************************************************)
StartSnapshot ==
    /\ snap.phase \in {"none", "done", "failed"}
    /\ snap.taken < MaxSnapshots
    /\ snap' = [NoSnapshot EXCEPT !.phase = "walk", !.unseen = Names,
                                  !.taken = snap.taken + 1]
    /\ UNCHANGED <<files, server, cut, saves, overlapped>>

\* The walk meets the directories in the order the file system gives them.
Walk(n) ==
    /\ snap.phase = "walk"
    /\ n \in snap.unseen
    /\ snap' = [snap EXCEPT !.unseen = snap.unseen \ {n},
                            !.phase = IF snap.unseen = {n} THEN "digest" ELSE "walk",
                            !.listed = IF OnDisk[n] = Absent THEN snap.listed ELSE snap.listed \cup {n}]
    /\ UNCHANGED <<files, server, cut, saves, overlapped>>

\* The files found that were not read yet, and the first of them.
Pending(read) == {n \in snap.listed : read[n] = Absent}
IsNext(n, read) == n \in Pending(read) /\ \A m \in Pending(read) : Order[n] <= Order[m]

Digest(n) ==
    /\ snap.phase = "digest"
    /\ IsNext(n, snap.digest)
    /\ snap' = IF OnDisk[n] = Absent
               THEN [snap EXCEPT !.phase = "failed"]
               ELSE [snap EXCEPT !.digest = [snap.digest EXCEPT ![n] = OnDisk[n]]]
    /\ UNCHANGED <<files, server, cut, saves, overlapped>>

ManifestComplete ==
    /\ snap.phase = "digest"
    /\ Pending(snap.digest) = {}
    /\ snap' = [snap EXCEPT !.phase = "archive"]
    /\ cut' = OnDisk
    /\ UNCHANGED <<files, server, saves, overlapped>>

Archive(n) ==
    /\ snap.phase = "archive"
    /\ IsNext(n, snap.archive)
    /\ snap' = IF OnDisk[n] = Absent
               THEN [snap EXCEPT !.phase = "failed"]
               ELSE [snap EXCEPT !.archive = [snap.archive EXCEPT ![n] = OnDisk[n]]]
    /\ UNCHANGED <<files, server, cut, saves, overlapped>>

AddManifest ==
    /\ snap.phase = "archive"
    /\ Pending(snap.archive) = {}
    /\ snap' = [snap EXCEPT !.phase = "done"]
    /\ UNCHANGED <<files, server, cut, saves, overlapped>>

\* Faulty: an archive that extracts is taken for a backup.
VerifiesByExtracting == \A n \in snap.listed : snap.archive[n] # Absent

\* verify, of an archive that came to be: the restored file has the digest the
\* manifest has. Which files are missing or extra cannot differ, one list
\* being behind both.
Verifies == snap.archive = snap.digest

Verified == snap.phase = "done" /\ Verifies

Restored(n) == snap.archive[n]

-----------------------------------------------------------------------------
RequestStep(r) ==
    \/ r \in Savers /\ (LoadScenarios(r) \/ OpenTmp(r) \/ WriteTmp(r) \/ Rename(r))
    \/ r \in Reviewers /\ (TruncateRecord(r) \/ WriteRecord(r))
    \/ r \in Deletions /\ (UnlinkBytes(r) \/ UnlinkRecord(r))

SnapshotStep ==
    \/ \E n \in Names : Walk(n) \/ Digest(n) \/ Archive(n)
    \/ ManifestComplete \/ AddManifest

Next ==
    \/ \E r \in Requests : RequestStep(r)
    \/ Crash
    \/ StartSnapshot
    \/ SnapshotStep

Spec == Init /\ [][Next]_vars

-----------------------------------------------------------------------------
(***************************************************************************)
(* Properties.                                                             *)
(***************************************************************************)
TypeOK ==
    /\ inode \in [Savers -> Int]
    /\ {scenarios, tmp} \subseteq Savers \cup {None}
    /\ {record, source} \subseteq Int
    /\ handle \in [Savers -> Savers \cup {None}]
    /\ snap.phase \in {"none", "walk", "digest", "archive", "done", "failed"}
    /\ snap.unseen \subseteq Names /\ snap.listed \subseteq Names
    /\ {snap.digest, snap.archive} \subseteq [Names -> Int]

\* A verified archive is the storage root as it was at one moment, although
\* it is read file by file while requests write: every file it restores whole
\* is the file there was when the manifest was complete. It takes all digests
\* before the first archived file, and a comparison of the two
\* (security/backup.py, snapshot and verify).
VerifiedArchiveIsOneMoment ==
    Verified => \A n \in Names : Whole(Restored(n)) => Restored(n) = cut[n]

\* "a crash mid-write cannot leave a file that parses into a half-set"
\* (assumptions/store.py:154): as long as no two changes of the scenarios ran
\* at once, the file parses, whatever crashed and however often.
ScenariosAlwaysParse ==
    ~overlapped => scenarios = None \/ Whole(inode[scenarios])

\* One at a time, an acknowledged change is in the file or was built upon:
\* the acknowledged ones form one chain that ends in the file.
ScenariosKeepAcknowledged ==
    ~overlapped => \A s \in saves :
        \/ s[2] = ContentOf(scenarios)
        \/ \E t \in saves : t[1] = s[2]

-----------------------------------------------------------------------------
(***************************************************************************)
(* What the documentation says and the code does not do.                   *)
(***************************************************************************)
\* assumptions/store.py:154, of any two changes.
ScenariosParseUnderOverlap == scenarios = None \/ Whole(inode[scenarios])

\* "an archive whose bytes still hash to what went in is [a backup]"
\* (security/backup.py:184): a verified archive restores a record that loads.
RestoredRecordLoads == Verified => Restored("record") \in {Absent} \/ Whole(Restored("record"))

\* "The whole point of a permanent deletion is that the confidential content
\* is gone" (security/retention.py:25).
DeletionTakesTheScenarios ==
    \A r \in Deletions : step[r] = "done" /\ record = Absent => scenarios = None

=============================================================================
