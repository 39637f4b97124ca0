-------------------------- MODULE SnapshotsProofs ---------------------------
(***************************************************************************)
(* What a snapshot and the scenario store guarantee for every number of    *)
(* requests, crashes and snapshots, in whatever order the walk meets the   *)
(* directories.                                                            *)
(***************************************************************************)
EXTENDS Snapshots, TLAPS

-----------------------------------------------------------------------------
(* The files *)

Steps == {"start", "open", "write", "rename", "save", "unlink", "done", "failed"}

\* No two files hold the same whole text, a save being new; the temporary name
\* and the name of the set are never of one file; and the file a request will
\* create is not there before it opens it.
FilesInv ==
    /\ written \in Nat \ {0}
    /\ inode \in [Savers -> Int] /\ \A s \in Savers : inode[s] <= written
    /\ scenarios \in Savers \cup {None} /\ tmp \in Savers \cup {None}
    /\ record \in Int /\ record <= written
    /\ source \in Int /\ source <= written
    /\ step \in [Requests -> Steps]
    /\ basis \in [Savers -> Int]
    /\ handle \in [Savers -> Savers \cup {None}]
    /\ \A r \in Savers : step[r] \in {"write", "rename"} => handle[r] \in Savers
    /\ \A r \in Savers : step[r] \in {"start", "open"} => scenarios # r /\ tmp # r
    /\ tmp # None => scenarios # tmp
    /\ \A s, t \in Savers : Whole(inode[s]) /\ inode[s] = inode[t] => s = t

LEMMA OnDiskIs ==
    /\ OnDisk["source"] = source /\ OnDisk["record"] = record
    /\ OnDisk["scenarios"] = ContentOf(scenarios) /\ OnDisk["scenarios.tmp"] = ContentOf(tmp)
  BY DEF OnDisk, Names, Order

LEMMA OnDiskNext ==
    /\ OnDisk'["source"] = source' /\ OnDisk'["record"] = record'
    /\ OnDisk'["scenarios"] = ContentOf(scenarios)' /\ OnDisk'["scenarios.tmp"] = ContentOf(tmp)'
  BY DEF OnDisk, Names, Order

LEMMA NamesAre == Names = {"source", "scenarios", "scenarios.tmp", "record"}
  BY DEF Names, Order

LEMMA ContentType ==
    ASSUME FilesInv, NEW file \in Savers \cup {None}
    PROVE  ContentOf(file) \in Int /\ ContentOf(file) <= written
  BY DEF FilesInv, ContentOf, Absent

LEMMA OnDiskType ==
    ASSUME FilesInv
    PROVE  OnDisk \in [Names -> Int] /\ \A n \in Names : OnDisk[n] <= written
  <1> DEFINE content(n) == CASE n = "scenarios" -> ContentOf(scenarios)
                             [] n = "scenarios.tmp" -> ContentOf(tmp)
                             [] n = "record" -> record
                             [] n = "source" -> source
  <1>1. \A n \in Names : OnDisk[n] \in Int /\ OnDisk[n] <= written
    BY OnDiskIs, NamesAre, ContentType DEF FilesInv
  <1>2. OnDisk = [n \in Names |-> content(n)]
    BY DEF OnDisk
  <1> HIDE DEF content
  <1>3. QED
    BY <1>1, <1>2

\* A text that was in a file and is not there any more.
Gone(v, n) ==
    /\ v <= written
    /\ OnDisk[n] # v
    /\ n = "scenarios" => ContentOf(tmp) # v

-----------------------------------------------------------------------------
(* The steps of the requests *)

LEMMA OpenTmpFiles ==
    ASSUME FilesInv, NEW r \in Savers, OpenTmp(r)
    PROVE  /\ FilesInv'
           /\ \A f \in Savers \cup {None} : ContentOf(f)' \in {ContentOf(f), Empty}
           /\ ContentOf(tmp)' = Empty
  <1> DEFINE file == IF tmp = None THEN r ELSE tmp
  <1>1. /\ r \in Requests /\ step[r] = "open" /\ file \in Savers
        /\ tmp' = file /\ inode' = [inode EXCEPT ![file] = Empty]
        /\ handle' = [handle EXCEPT ![r] = file]
        /\ step' = [step EXCEPT ![r] = "write"]
        /\ UNCHANGED <<scenarios, record, source, basis, written>>
    BY DEF OpenTmp, FilesInv, Requests, Goto
  <1>2. scenarios # file
    BY <1>1 DEF FilesInv
  <1>3. \A s \in Savers \ {r} : step[s] \in {"start", "open"} => file # s
    BY <1>1 DEF FilesInv
  <1>4. file # None
    BY <1>1, SnapshotsAssumption
  <1> HIDE DEF file
  <1>5. inode' \in [Savers -> Int] /\ (\A s \in Savers : inode'[s] = IF s = file THEN 0 ELSE inode[s])
    BY <1>1 DEF FilesInv, Empty
  <1>6. /\ \A s \in Savers : inode'[s] <= written'
        /\ \A s, t \in Savers : Whole(inode'[s]) /\ inode'[s] = inode'[t] => s = t
    BY <1>1, <1>5 DEF FilesInv, Whole, Empty
  <1>7. /\ step' \in [Requests -> Steps]
        /\ \A s \in Savers : s \in Requests /\ step'[s] = IF s = r THEN "write" ELSE step[s]
    BY <1>1 DEF FilesInv, Steps, Requests
  <1>8. FilesInv'
    BY <1>1, <1>2, <1>3, <1>5, <1>6, <1>7 DEF FilesInv
  <1>9. QED
    BY <1>1, <1>4, <1>5, <1>8 DEF ContentOf, Empty

LEMMA WriteTmpFiles ==
    ASSUME FilesInv, NEW r \in Savers, WriteTmp(r)
    PROVE  /\ FilesInv'
           /\ \A f \in Savers \cup {None} : ContentOf(f)' \in {ContentOf(f), written + 1, Mixed}
           /\ scenarios # handle[r] => ContentOf(scenarios)' = ContentOf(scenarios)
           /\ inode[handle[r]] = Empty => inode'[handle[r]] = written + 1
  <1> DEFINE file == handle[r]
  <1>1. PICK content \in {written + 1, Mixed} :
            /\ inode' = [inode EXCEPT ![file] = content]
            /\ inode[file] = Empty => content = written + 1
    BY DEF WriteTmp
  <1>2. /\ r \in Requests /\ step[r] = "write" /\ file \in Savers
        /\ written' = written + 1
        /\ step' = [step EXCEPT ![r] = "rename"]
        /\ UNCHANGED <<scenarios, tmp, record, source, basis, handle>>
    BY DEF WriteTmp, FilesInv, Requests, Goto
  <1>3. written' \in Nat \ {0} /\ content \in Int /\ content <= written'
    BY <1>2 DEF FilesInv, Mixed
  <1> HIDE DEF file
  <1>4. inode' \in [Savers -> Int] /\ (\A s \in Savers : inode'[s] = IF s = file THEN content ELSE inode[s])
    BY <1>1, <1>2, <1>3 DEF FilesInv
  <1>5. \A s \in Savers : inode'[s] <= written'
    BY <1>2, <1>3, <1>4 DEF FilesInv
  <1>6. \A s, t \in Savers : Whole(inode'[s]) /\ inode'[s] = inode'[t] => s = t
    BY <1>2, <1>3, <1>4 DEF FilesInv, Whole, Empty, Mixed
  <1>7. /\ step' \in [Requests -> Steps]
        /\ \A s \in Savers : s \in Requests /\ step'[s] = IF s = r THEN "rename" ELSE step[s]
    BY <1>2 DEF FilesInv, Steps, Requests
  <1>8. record <= written' /\ source <= written'
    BY <1>2 DEF FilesInv
  <1>9. FilesInv'
    BY <1>2, <1>3, <1>4, <1>5, <1>6, <1>7, <1>8 DEF FilesInv, file
  <1>10. \A f \in Savers \cup {None} : ContentOf(f)' \in {ContentOf(f), content}
    BY <1>4, SnapshotsAssumption DEF ContentOf
  <1>11. scenarios # file => ContentOf(scenarios)' = ContentOf(scenarios)
    BY <1>2, <1>4 DEF ContentOf, FilesInv
  <1>12. QED
    BY <1>1, <1>2, <1>4, <1>9, <1>10, <1>11 DEF file

LEMMA RenameFiles ==
    ASSUME FilesInv, NEW r \in Savers, Rename(r)
    PROVE  /\ FilesInv'
           /\ inode' = inode
           /\ \/ tmp # None /\ scenarios' = tmp /\ tmp' = None
              \/ UNCHANGED <<scenarios, tmp>>
  <1>1. /\ r \in Requests /\ step[r] = "rename"
        /\ UNCHANGED <<inode, record, source, basis, handle, written>>
    BY DEF Rename, Requests
  <1>2. \E s \in {"done", "failed"} : step' = [step EXCEPT ![r] = s]
    BY DEF Rename, Goto
  <1>3. \/ tmp # None /\ scenarios' = tmp /\ tmp' = None
        \/ UNCHANGED <<scenarios, tmp>>
    BY DEF Rename
  <1>4. /\ step' \in [Requests -> Steps]
        /\ \A s \in Savers : s \in Requests /\ (step'[s] = step[s] \/ s = r)
        /\ step'[r] \in {"done", "failed"}
    BY <1>1, <1>2 DEF FilesInv, Steps, Requests
  <1>5. FilesInv'
    BY <1>1, <1>3, <1>4, SnapshotsAssumption DEF FilesInv
  <1>6. QED
    BY <1>1, <1>3, <1>5

LEMMA LoadFiles ==
    ASSUME FilesInv, NEW r \in Savers, LoadScenarios(r)
    PROVE  FilesInv'
  <1>1. /\ r \in Requests /\ step[r] = "start"
        /\ UNCHANGED <<inode, scenarios, tmp, record, source, handle, written>>
    BY DEF LoadScenarios, Begin, files, Requests
  <1>2. \E s \in {"open", "failed"} : step' = [step EXCEPT ![r] = s]
    BY DEF LoadScenarios, Goto
  <1>3. basis' \in [Savers -> Int]
    <2>1. ContentOf(scenarios) \in Int
      BY ContentType DEF FilesInv
    <2>2. basis' = [basis EXCEPT ![r] = ContentOf(scenarios)] \/ basis' = basis
      BY DEF LoadScenarios
    <2>3. QED
      BY <2>1, <2>2 DEF FilesInv
  <1>4. /\ step' \in [Requests -> Steps]
        /\ \A s \in Savers : s \in Requests /\ (step'[s] = step[s] \/ s = r)
        /\ step'[r] \in {"open", "failed"}
    BY <1>1, <1>2 DEF FilesInv, Steps, Requests
  <1>5. QED
    BY <1>1, <1>3, <1>4 DEF FilesInv

\* A review and a deletion leave the scenarios alone.
OthersStep(r) == TruncateRecord(r) \/ WriteRecord(r) \/ UnlinkBytes(r) \/ UnlinkRecord(r)

LEMMA OthersFiles ==
    ASSUME FilesInv, NEW r \in Reviewers \cup Deletions, OthersStep(r)
    PROVE  /\ FilesInv'
           /\ UNCHANGED <<inode, scenarios, tmp, basis, handle, saves, overlapped>>
           /\ written' \in {written, written + 1}
           /\ record' \in {record, Empty, Absent, written + 1} /\ source' \in {source, Absent}
           /\ \A s \in Savers : step'[s] = step[s]
  <1>1. r \in Requests /\ r \notin Savers
    BY SnapshotsAssumption DEF Requests
  <1>2. UNCHANGED <<inode, scenarios, tmp, basis, handle, saves, overlapped>>
    BY DEF OthersStep, TruncateRecord, WriteRecord, UnlinkBytes, UnlinkRecord
  <1>3. \E s \in {"save", "unlink", "done"} : step' = [step EXCEPT ![r] = s]
    BY DEF OthersStep, TruncateRecord, WriteRecord, UnlinkBytes, UnlinkRecord, Goto
  <1>4. step' \in [Requests -> Steps] /\ \A s \in Savers : step'[s] = step[s]
    BY <1>1, <1>3 DEF FilesInv, Steps, Requests
  <1>5. /\ source' \in {source, Absent}
        /\ \/ written' = written /\ record' \in {record, Empty, Absent}
           \/ written' = written + 1 /\ record' \in {Absent, written + 1}
    <2>1. CASE TruncateRecord(r)
      BY <2>1 DEF TruncateRecord
    <2>2. CASE WriteRecord(r)
      BY <2>2 DEF WriteRecord
    <2>3. CASE UnlinkBytes(r)
      BY <2>3 DEF UnlinkBytes
    <2>4. CASE UnlinkRecord(r)
      BY <2>4 DEF UnlinkRecord
    <2>5. QED
      BY <2>1, <2>2, <2>3, <2>4 DEF OthersStep
  <1>6. /\ written' \in Nat \ {0} /\ written <= written'
        /\ record' \in Int /\ record' <= written'
        /\ source' \in Int /\ source' <= written'
    BY <1>5 DEF FilesInv, Empty, Absent
  <1>7. FilesInv'
    BY <1>2, <1>4, <1>6 DEF FilesInv
  <1>8. QED
    BY <1>2, <1>4, <1>5, <1>7

LEMMA CrashFiles ==
    ASSUME FilesInv, Crash
    PROVE  FilesInv'
  <1>1. /\ UNCHANGED <<inode, scenarios, tmp, record, source, basis, handle, written>>
        /\ step' = [r \in Requests |-> IF r \in UnderWay THEN "failed" ELSE step[r]]
    BY DEF Crash, files
  <1>2. /\ step' \in [Requests -> Steps]
        /\ \A s \in Savers : s \in Requests /\ step'[s] \in {step[s], "failed"}
    BY <1>1 DEF FilesInv, Steps, Requests
  <1>3. QED
    BY <1>1, <1>2 DEF FilesInv

\* A step of the server, as a snapshot sees it: whole text that is in a file is
\* there afterwards or gone, and what is gone stays gone.
ServerStep == (\E r \in Requests : RequestStep(r)) \/ Crash

LEMMA ServerFiles ==
    ASSUME FilesInv, ServerStep
    PROVE  /\ FilesInv'
           /\ written <= written'
           /\ \A v \in Int, n \in Names : Whole(v) /\ Gone(v, n) => Gone(v, n)'
           /\ \A v \in Int, n \in Names : Whole(v) /\ OnDisk[n] = v => OnDisk'[n] = v \/ Gone(v, n)'
  <1> USE DEF Whole, Empty, Mixed, Absent
  <1>1. ASSUME NEW v \in Int, NEW n \in Names, Whole(v), FilesInv',
               written <= written',
               source' \in {source, Absent},
               record' \in {record, Empty, Absent, written + 1},
               ContentOf(tmp)' \in {ContentOf(tmp), Empty, Absent, Mixed, written + 1},
               \/ ContentOf(scenarios)' \in {ContentOf(scenarios), Empty, Mixed, written + 1}
               \/ ContentOf(scenarios)' = ContentOf(tmp) /\ ContentOf(tmp)' = Absent
        PROVE  /\ Gone(v, n) => Gone(v, n)'
               /\ OnDisk[n] = v => OnDisk'[n] = v \/ Gone(v, n)'
    <2>1. /\ OnDisk'["source"] = source' /\ OnDisk'["record"] = record'
          /\ OnDisk'["scenarios"] = ContentOf(scenarios)' /\ OnDisk'["scenarios.tmp"] = ContentOf(tmp)'
      BY OnDiskNext
    <2>2. written \in Nat /\ written' \in Nat
      BY <1>1 DEF FilesInv
    <2>3. OnDisk[n] \in Int /\ OnDisk[n] <= written
      BY OnDiskType
    <2>4. v > 0 /\ written <= written'
      BY <1>1
    <2>5. Gone(v, n)' <=> v <= written' /\ OnDisk'[n] # v /\ (n = "scenarios" => ContentOf(tmp)' # v)
      BY DEF Gone
    <2>6. CASE n = "source"
      BY <1>1, <2>1, <2>2, <2>3, <2>4, <2>5, <2>6, OnDiskIs DEF Gone
    <2>7. CASE n = "record"
      BY <1>1, <2>1, <2>2, <2>3, <2>4, <2>5, <2>7, OnDiskIs DEF Gone
    <2>8. CASE n = "scenarios.tmp"
      BY <1>1, <2>1, <2>2, <2>3, <2>4, <2>5, <2>8, OnDiskIs DEF Gone
    <2>9. CASE n = "scenarios"
      <3>1. ContentOf(tmp) \in Int /\ ContentOf(tmp) <= written
        BY ContentType DEF FilesInv
      <3>2. v = ContentOf(scenarios) => v # ContentOf(tmp)
        BY <1>1 DEF FilesInv, ContentOf
      <3>3. OnDisk[n] = ContentOf(scenarios) /\ OnDisk'[n] = ContentOf(scenarios)'
        BY <2>1, <2>9, OnDiskIs
      <3>4. Gone(v, n) <=> v <= written /\ ContentOf(scenarios) # v /\ ContentOf(tmp) # v
        BY <2>9, <3>3 DEF Gone
      <3>5. QED
        BY <1>1, <2>2, <2>3, <2>4, <2>5, <2>9, <3>1, <3>2, <3>3, <3>4
    <2>10. QED
      BY <2>6, <2>7, <2>8, <2>9, NamesAre
  <1>2. written \in Nat
    BY DEF FilesInv
  <1>3. CASE \E r \in Savers : LoadScenarios(r)
    <2>1. PICK r \in Savers : LoadScenarios(r)
      BY <1>3
    <2>2. UNCHANGED <<inode, scenarios, tmp, record, source, written>>
      BY <2>1 DEF LoadScenarios, files
    <2>3. ContentOf(tmp)' = ContentOf(tmp) /\ ContentOf(scenarios)' = ContentOf(scenarios)
      BY <2>2 DEF ContentOf
    <2>4. QED
      BY <1>1, <1>2, <2>1, <2>2, <2>3, LoadFiles
  <1>4. CASE \E r \in Savers : OpenTmp(r)
    <2>1. PICK r \in Savers : OpenTmp(r)
      BY <1>4
    <2>2. UNCHANGED <<scenarios, record, source, written>>
      BY <2>1 DEF OpenTmp
    <2>3. ContentOf(tmp)' = Empty /\ ContentOf(scenarios)' \in {ContentOf(scenarios), Empty}
      BY <2>1, <2>2, OpenTmpFiles DEF FilesInv, ContentOf
    <2>4. QED
      BY <1>1, <1>2, <2>1, <2>2, <2>3, OpenTmpFiles
  <1>5. CASE \E r \in Savers : WriteTmp(r)
    <2>1. PICK r \in Savers : WriteTmp(r)
      BY <1>5
    <2>2. UNCHANGED <<scenarios, tmp, record, source>> /\ written' = written + 1
      BY <2>1 DEF WriteTmp
    <2>3. /\ ContentOf(tmp)' \in {ContentOf(tmp), Mixed, written + 1}
          /\ ContentOf(scenarios)' \in {ContentOf(scenarios), Mixed, written + 1}
      BY <2>1, <2>2, WriteTmpFiles DEF FilesInv, ContentOf
    <2>4. FilesInv'
      BY <2>1, WriteTmpFiles
    <2>5. written <= written' /\ source' \in {source, Absent}
          /\ record' \in {record, Empty, Absent, written + 1}
      BY <1>2, <2>2
    <2>6. /\ ContentOf(tmp)' \in {ContentOf(tmp), Empty, Absent, Mixed, written + 1}
          /\ ContentOf(scenarios)' \in {ContentOf(scenarios), Empty, Mixed, written + 1}
      BY <2>3
    <2>7. QED
      BY <1>1, <2>4, <2>5, <2>6, Zenon
  <1>6. CASE \E r \in Savers : Rename(r)
    <2>1. PICK r \in Savers : Rename(r)
      BY <1>6
    <2>2. UNCHANGED <<inode, record, source, written>>
      BY <2>1 DEF Rename
    <2>3. \/ ContentOf(tmp)' = ContentOf(tmp) /\ ContentOf(scenarios)' = ContentOf(scenarios)
          \/ ContentOf(tmp)' = Absent /\ ContentOf(scenarios)' = ContentOf(tmp)
      BY <2>1, <2>2, RenameFiles DEF ContentOf
    <2>4. FilesInv'
      BY <2>1, RenameFiles
    <2>5. QED
      BY <1>1, <1>2, <2>2, <2>3, <2>4
  <1>7. CASE \E r \in Reviewers \cup Deletions : OthersStep(r)
    <2>1. PICK r \in Reviewers \cup Deletions : OthersStep(r)
      BY <1>7
    <2>2. ContentOf(tmp)' = ContentOf(tmp) /\ ContentOf(scenarios)' = ContentOf(scenarios)
      BY <2>1, OthersFiles DEF ContentOf
    <2>3. QED
      BY <1>1, <1>2, <2>1, <2>2, OthersFiles
  <1>8. CASE Crash
    <2>1. UNCHANGED <<inode, scenarios, tmp, record, source, written>>
      BY <1>8 DEF Crash, files
    <2>2. ContentOf(tmp)' = ContentOf(tmp) /\ ContentOf(scenarios)' = ContentOf(scenarios)
      BY <2>1 DEF ContentOf
    <2>3. QED
      BY <1>1, <1>2, <1>8, <2>1, <2>2, CrashFiles
  <1>9. QED
    BY <1>3, <1>4, <1>5, <1>6, <1>7, <1>8 DEF ServerStep, RequestStep, OthersStep

-----------------------------------------------------------------------------
(* The snapshot *)

Phases == {"none", "walk", "digest", "archive", "done", "failed"}

\* What was digested is on disk or gone for good, up to the manifest; after it,
\* what was on disk when the manifest was complete is or is gone; so a file
\* archived with the digest it had is the file of that moment.
SnapInv ==
    /\ snap \in [phase : Phases, unseen : SUBSET Names, listed : SUBSET Names,
                 digest : [Names -> Int], archive : [Names -> Int], taken : Nat]
    /\ cut \in [Names -> Int]
    /\ snap.phase = "walk" => snap.digest = Nothing
    /\ snap.phase \in {"walk", "digest"} => snap.archive = Nothing
    /\ snap.phase = "digest" =>
          \A n \in Names : Whole(snap.digest[n]) =>
             OnDisk[n] = snap.digest[n] \/ Gone(snap.digest[n], n)
    /\ snap.phase = "archive" =>
          \A n \in Names : Whole(snap.digest[n]) =>
             cut[n] = snap.digest[n] \/ Gone(snap.digest[n], n)
    /\ snap.phase \in {"archive", "done"} =>
          \A n \in Names : Whole(snap.archive[n]) /\ snap.archive[n] = snap.digest[n] =>
             cut[n] = snap.digest[n]

LEMMA NothingType == Nothing \in [Names -> Int] /\ \A n \in Names : ~Whole(Nothing[n])
  BY DEF Nothing, Absent, Whole, Empty

\* The server writes nothing of the snapshot.
LEMMA ServerSnap ==
    ASSUME FilesInv, SnapInv, ServerStep
    PROVE  SnapInv'
  <1>1. UNCHANGED <<snap, cut>>
    BY DEF ServerStep, RequestStep, LoadScenarios, OpenTmp, WriteTmp, Rename, TruncateRecord,
           WriteRecord, UnlinkBytes, UnlinkRecord, Crash
  <1>2. /\ \A n \in Names : snap.digest[n] \in Int
        /\ \A v \in Int, n \in Names : Whole(v) /\ Gone(v, n) => Gone(v, n)'
        /\ \A v \in Int, n \in Names : Whole(v) /\ OnDisk[n] = v => OnDisk'[n] = v \/ Gone(v, n)'
    BY ServerFiles DEF SnapInv
  <1>3. \A n \in Names : Gone(snap.digest[n], n) /\ Whole(snap.digest[n]) => Gone(snap.digest[n], n)'
    <2>1. TAKE n \in Names
    <2>2. PICK v \in Int : v = snap.digest[n]
      BY <1>2
    <2>3. Gone(v, n)' <=> Gone(snap.digest[n], n)'
      BY <1>1, <2>2 DEF Gone
    <2>4. QED
      BY <1>2, <2>2, <2>3
  <1>4. \A n \in Names : OnDisk[n] = snap.digest[n] /\ Whole(snap.digest[n]) =>
           OnDisk'[n] = snap.digest[n] \/ Gone(snap.digest[n], n)'
    <2>1. TAKE n \in Names
    <2>2. PICK v \in Int : v = snap.digest[n]
      BY <1>2
    <2>3. Gone(v, n)' <=> Gone(snap.digest[n], n)'
      BY <1>1, <2>2 DEF Gone
    <2>4. QED
      BY <1>2, <2>2, <2>3
  <1>5. QED
    BY <1>1, <1>3, <1>4 DEF SnapInv

LEMMA GoneStays ==
    ASSUME UNCHANGED <<files, server>>
    PROVE  /\ OnDisk' = OnDisk
           /\ \A v, n : Gone(v, n)' <=> Gone(v, n)
  BY DEF files, server, OnDisk, ContentOf, Gone

\* The steps of the snapshot itself.
LEMMA SnapshotSnap ==
    ASSUME FilesInv, SnapInv, StartSnapshot \/ SnapshotStep
    PROVE  SnapInv'
  <1>1. UNCHANGED <<files, server>>
    BY DEF StartSnapshot, SnapshotStep, Walk, Digest, Archive, ManifestComplete, AddManifest
  <1>2. OnDisk' = OnDisk /\ OnDisk \in [Names -> Int]
    BY <1>1, GoneStays, OnDiskType
  <1>3. ASSUME NEW n \in Names, Gone(snap.digest[n], n), snap'.digest = snap.digest
        PROVE  Gone(snap.digest[n], n)'
    BY <1>1, <1>3 DEF files, server, Gone, OnDisk, ContentOf
  <1>4. CASE StartSnapshot
    <2>1. snap' = [phase |-> "walk", unseen |-> Names, listed |-> {}, digest |-> Nothing,
                   archive |-> Nothing, taken |-> snap.taken + 1] /\ cut' = cut
      BY <1>4 DEF StartSnapshot, NoSnapshot
    <2>2. QED
      BY <2>1, NothingType DEF SnapInv, Phases
  <1>5. ASSUME NEW n \in Names, Walk(n)
        PROVE  SnapInv'
    <2>1. snap.phase = "walk" /\ cut' = cut
      BY <1>5 DEF Walk
    <2> DEFINE left == snap.unseen \ {n}
    <2>2. PICK p \in {"walk", "digest"}, l \in {snap.listed, snap.listed \cup {n}} :
             snap' = [snap EXCEPT !.unseen = left, !.phase = p, !.listed = l]
      BY <1>5 DEF Walk
    <2>3. left \in SUBSET Names /\ l \in SUBSET Names
      BY DEF SnapInv
    <2> HIDE DEF left
    <2>4. /\ snap' \in [phase : Phases, unseen : SUBSET Names, listed : SUBSET Names,
                        digest : [Names -> Int], archive : [Names -> Int], taken : Nat]
          /\ snap'.phase \in {"walk", "digest"}
          /\ snap'.digest = snap.digest /\ snap'.archive = snap.archive
      BY <2>2, <2>3 DEF SnapInv, Phases
    <2>5. snap.digest = Nothing /\ snap.archive = Nothing
      BY <2>1 DEF SnapInv
    <2>6. QED
      BY <2>1, <2>4, <2>5, NothingType DEF SnapInv
  <1>6. ASSUME NEW n \in Names, Digest(n)
        PROVE  SnapInv'
    <2>1. snap.phase = "digest" /\ cut' = cut
      BY <1>6 DEF Digest
    <2>2. CASE snap' = [snap EXCEPT !.phase = "failed"]
      BY <2>1, <2>2 DEF SnapInv, Phases
    <2>3. CASE snap' = [snap EXCEPT !.digest = [snap.digest EXCEPT ![n] = OnDisk[n]]]
      <3>1. /\ snap' \in [phase : Phases, unseen : SUBSET Names, listed : SUBSET Names,
                          digest : [Names -> Int], archive : [Names -> Int], taken : Nat]
            /\ snap'.phase = "digest" /\ snap'.archive = Nothing
            /\ snap'.digest[n] = OnDisk[n]
            /\ \A m \in Names \ {n} : snap'.digest[m] = snap.digest[m]
        BY <1>2, <2>1, <2>3 DEF SnapInv
      <3>2. \A m \in Names \ {n} : Gone(snap.digest[m], m) => Gone(snap.digest[m], m)'
        <4>1. TAKE m \in Names \ {n}
        <4>2. HAVE Gone(snap.digest[m], m)
        <4>3. QED
          BY <1>1, <3>1, <4>2 DEF files, server, Gone, OnDisk, ContentOf
      <3>3. QED
        BY <1>2, <2>1, <3>1, <3>2 DEF SnapInv
    <2>4. QED
      BY <1>6, <2>2, <2>3 DEF Digest
  <1>7. CASE ManifestComplete
    <2>1. snap.phase = "digest" /\ snap' = [snap EXCEPT !.phase = "archive"] /\ cut' = OnDisk
      BY <1>7 DEF ManifestComplete
    <2>2. QED
      BY <1>2, <1>3, <2>1, NothingType DEF SnapInv, Phases
  <1>8. ASSUME NEW n \in Names, Archive(n)
        PROVE  SnapInv'
    <2>1. snap.phase = "archive" /\ cut' = cut
      BY <1>8 DEF Archive
    <2>2. CASE snap' = [snap EXCEPT !.phase = "failed"]
      BY <2>1, <2>2 DEF SnapInv, Phases
    <2>3. CASE snap' = [snap EXCEPT !.archive = [snap.archive EXCEPT ![n] = OnDisk[n]]]
      <3>1. /\ snap' \in [phase : Phases, unseen : SUBSET Names, listed : SUBSET Names,
                          digest : [Names -> Int], archive : [Names -> Int], taken : Nat]
            /\ snap'.phase = "archive" /\ snap'.digest = snap.digest
            /\ snap'.archive[n] = OnDisk[n]
            /\ \A m \in Names \ {n} : snap'.archive[m] = snap.archive[m]
        BY <1>2, <2>1, <2>3 DEF SnapInv
      <3>2. Whole(snap.digest[n]) /\ OnDisk[n] = snap.digest[n] => cut[n] = snap.digest[n]
        BY <2>1 DEF SnapInv, Gone
      <3>3. QED
        BY <1>2, <1>3, <2>1, <3>1, <3>2 DEF SnapInv
    <2>4. QED
      BY <1>8, <2>2, <2>3 DEF Archive
  <1>9. CASE AddManifest
    BY <1>9 DEF AddManifest, SnapInv, Phases
  <1>10. QED
    BY <1>4, <1>5, <1>6, <1>7, <1>8, <1>9 DEF SnapshotStep

-----------------------------------------------------------------------------
(* The scenarios, changed one at a time *)

AtWork == {r \in Savers : step[r] \in {"open", "write", "rename"}}

\* The one request at work loaded what the file still holds, and the temporary
\* name is of the file it has open.
OneAtATime ==
    /\ \A r, s \in AtWork : r = s
    /\ \A r \in AtWork : basis[r] = ContentOf(scenarios)
    /\ \A r \in AtWork : step[r] = "write" => tmp = handle[r] /\ inode[tmp] = Empty
    /\ \A r \in AtWork : step[r] = "rename" => tmp = handle[r] /\ Whole(inode[tmp])
    /\ scenarios = None \/ Whole(inode[scenarios])
    /\ \A s \in saves : s[2] = ContentOf(scenarios) \/ \E t \in saves : t[1] = s[2]

SaversStep == \A r \in Savers : step[r] \in {"start", "open", "write", "rename", "done", "failed"}

ScenarioInv == SaversStep /\ (~overlapped => OneAtATime)

SnapshotsInv == FilesInv /\ SnapInv /\ ScenarioInv

LEMMA LoadScenario ==
    ASSUME FilesInv, ScenarioInv, NEW r \in Savers, LoadScenarios(r)
    PROVE  ScenarioInv'
  <1>1. /\ r \in Requests /\ step[r] = "start"
        /\ UNCHANGED <<inode, scenarios, tmp, handle, saves>>
        /\ overlapped' = (overlapped \/ UnderWay \cap Savers # {})
    BY DEF LoadScenarios, Begin, files, Requests
  <1>2. \/ step' = [step EXCEPT ![r] = "open"] /\ basis' = [basis EXCEPT ![r] = ContentOf(scenarios)]
           /\ (scenarios = None \/ Whole(ContentOf(scenarios)))
        \/ step' = [step EXCEPT ![r] = "failed"] /\ basis' = basis
    BY DEF LoadScenarios, Goto
  <1>3. ContentOf(scenarios)' = ContentOf(scenarios)
    BY <1>1 DEF ContentOf
  <1>4. /\ SaversStep'
        /\ \A s \in Savers \ {r} : s \in Requests /\ step'[s] = step[s]
        /\ step'[r] \in {"open", "failed"}
        /\ step'[r] = "open" => basis'[r] = ContentOf(scenarios)
    BY <1>1, <1>2 DEF FilesInv, Requests, ScenarioInv, SaversStep
  <1>5. ASSUME ~overlapped'
        PROVE  OneAtATime'
    <2>1. ~overlapped /\ OneAtATime
      BY <1>1, <1>5 DEF ScenarioInv
    <2>2. AtWork' \subseteq {r}
      BY <1>1, <1>4, <1>5 DEF AtWork, UnderWay, Ended
    <2>3. QED
      BY <1>1, <1>3, <1>4, <2>1, <2>2 DEF OneAtATime, AtWork
  <1>6. QED
    BY <1>4, <1>5 DEF ScenarioInv

LEMMA OpenScenario ==
    ASSUME FilesInv, ScenarioInv, NEW r \in Savers, OpenTmp(r)
    PROVE  ScenarioInv'
  <1> DEFINE file == IF tmp = None THEN r ELSE tmp
  <1>1. /\ r \in Requests /\ step[r] = "open" /\ file \in Savers
        /\ tmp' = file /\ inode' = [inode EXCEPT ![file] = Empty]
        /\ handle' = [handle EXCEPT ![r] = file]
        /\ step' = [step EXCEPT ![r] = "write"]
        /\ UNCHANGED <<scenarios, basis, saves, overlapped>>
        /\ scenarios # file
    BY DEF OpenTmp, FilesInv, Requests, Goto
  <1> HIDE DEF file
  <1>2. inode'[file] = Empty /\ handle'[r] = file
        /\ (scenarios # None => inode'[scenarios] = inode[scenarios])
    BY <1>1 DEF FilesInv
  <1>3. ContentOf(scenarios)' = ContentOf(scenarios)
    BY <1>1, <1>2 DEF ContentOf
  <1>4. /\ SaversStep'
        /\ \A s \in Savers \ {r} : step'[s] = step[s]
        /\ step'[r] = "write"
    BY <1>1 DEF FilesInv, Requests, ScenarioInv, SaversStep
  <1>5. ASSUME ~overlapped'
        PROVE  OneAtATime'
    <2>1. OneAtATime
      BY <1>1, <1>5 DEF ScenarioInv
    <2>2. AtWork' = {r} /\ r \in AtWork
      BY <1>1, <1>4, <2>1 DEF AtWork, OneAtATime
    <2>3. QED
      BY <1>1, <1>2, <1>3, <1>4, <2>1, <2>2 DEF OneAtATime
  <1>6. QED
    BY <1>4, <1>5 DEF ScenarioInv

LEMMA WriteScenario ==
    ASSUME FilesInv, ScenarioInv, NEW r \in Savers, WriteTmp(r)
    PROVE  ScenarioInv'
  <1>1. /\ r \in Requests /\ step[r] = "write" /\ handle[r] \in Savers
        /\ step' = [step EXCEPT ![r] = "rename"]
        /\ UNCHANGED <<scenarios, tmp, handle, basis, saves, overlapped>>
    BY DEF WriteTmp, FilesInv, Requests, Goto
  <1>2. /\ SaversStep'
        /\ \A s \in Savers \ {r} : step'[s] = step[s]
        /\ step'[r] = "rename"
    BY <1>1 DEF FilesInv, Requests, ScenarioInv, SaversStep
  <1>3. ASSUME ~overlapped'
        PROVE  OneAtATime'
    <2>1. OneAtATime
      BY <1>1, <1>3 DEF ScenarioInv
    <2>2. AtWork' = {r} /\ r \in AtWork
      BY <1>1, <1>2, <2>1 DEF AtWork, OneAtATime
    <2>3. tmp = handle[r] /\ inode[handle[r]] = Empty /\ scenarios # handle[r]
      BY <1>1, <2>1, <2>2, SnapshotsAssumption DEF OneAtATime, FilesInv
    <2>4. ContentOf(scenarios)' = ContentOf(scenarios) /\ inode'[handle[r]] = written + 1
      BY <2>3, WriteTmpFiles
    <2>5. scenarios = None \/ inode'[scenarios] = inode[scenarios]
      BY <1>1, <2>4 DEF ContentOf
    <2>6. Whole(written + 1)
      BY DEF FilesInv, Whole, Empty
    <2>7. QED
      BY <1>1, <1>2, <2>1, <2>2, <2>3, <2>4, <2>5, <2>6 DEF OneAtATime
  <1>4. QED
    BY <1>2, <1>3 DEF ScenarioInv

LEMMA RenameScenario ==
    ASSUME FilesInv, ScenarioInv, NEW r \in Savers, Rename(r)
    PROVE  ScenarioInv'
  <1>1. /\ r \in Requests /\ step[r] = "rename" /\ handle[r] \in Savers
        /\ UNCHANGED <<inode, handle, basis, overlapped>>
    BY DEF Rename, FilesInv, Requests
  <1>2. \E s \in {"done", "failed"} : step' = [step EXCEPT ![r] = s]
    BY DEF Rename, Goto
  <1>3. /\ SaversStep'
        /\ \A s \in Savers \ {r} : step'[s] = step[s]
        /\ step'[r] \in {"done", "failed"}
    BY <1>1, <1>2 DEF FilesInv, Requests, ScenarioInv, SaversStep
  <1>4. ASSUME ~overlapped'
        PROVE  OneAtATime'
    <2>1. OneAtATime
      BY <1>1, <1>4 DEF ScenarioInv
    <2>2. AtWork' = {} /\ r \in AtWork
      BY <1>1, <1>3, <2>1 DEF AtWork, OneAtATime
    <2>3. tmp = handle[r] /\ tmp # None /\ Whole(inode[tmp]) /\ basis[r] = ContentOf(scenarios)
      BY <1>1, <2>1, <2>2, SnapshotsAssumption DEF OneAtATime
    <2>4. scenarios' = tmp /\ saves' = saves \cup {<<basis[r], inode[tmp]>>}
      BY <2>3 DEF Rename
    <2>5. ContentOf(scenarios)' = inode[tmp]
      BY <1>1, <2>3, <2>4 DEF ContentOf
    <2>6. ASSUME NEW s \in saves'
          PROVE  s[2] = ContentOf(scenarios)' \/ \E t \in saves' : t[1] = s[2]
      <3>1. CASE s = <<basis[r], inode[tmp]>>
        BY <2>5, <3>1
      <3>2. CASE s \in saves
        <4>1. CASE s[2] = ContentOf(scenarios)
          <5>1. <<basis[r], inode[tmp]>> \in saves' /\ <<basis[r], inode[tmp]>>[1] = s[2]
            BY <2>3, <2>4, <4>1
          <5>2. QED
            BY <5>1
        <4>2. QED
          BY <2>1, <2>4, <3>2, <4>1 DEF OneAtATime
      <3>3. QED
        BY <2>4, <3>1, <3>2
    <2>7. QED
      BY <1>1, <2>2, <2>3, <2>4, <2>6 DEF OneAtATime
  <1>5. QED
    BY <1>3, <1>4 DEF ScenarioInv

\* Any step that changes none of it but ends requests.
LEMMA EndedScenario ==
    ASSUME ScenarioInv,
           UNCHANGED <<inode, scenarios, tmp, basis, handle, saves, overlapped>>,
           \A s \in Savers : step'[s] \in {step[s], "failed"}
    PROVE  ScenarioInv'
  <1>1. ContentOf(scenarios)' = ContentOf(scenarios)
    BY DEF ContentOf
  <1>2. SaversStep'
    BY DEF ScenarioInv, SaversStep
  <1>3. \A r \in Savers : r \in AtWork' => r \in AtWork /\ step'[r] = step[r]
    BY DEF AtWork
  <1>4. AtWork' \subseteq Savers
    BY DEF AtWork
  <1>5. OneAtATime => OneAtATime'
    BY <1>1, <1>3, <1>4 DEF OneAtATime
  <1>6. QED
    BY <1>2, <1>5 DEF ScenarioInv

-----------------------------------------------------------------------------
(* The invariant, and what follows from it *)

LEMMA SnapshotsInvariant == Spec => []SnapshotsInv
  <1>1. Init => SnapshotsInv
    <2> SUFFICES ASSUME Init PROVE SnapshotsInv
      OBVIOUS
    <2>1. FilesInv
      BY SnapshotsAssumption DEF Init, FilesInv, Steps, Requests, Empty, Absent, Whole
    <2>2. SnapInv
      BY NothingType DEF Init, SnapInv, NoSnapshot, Phases
    <2>3. ScenarioInv
      BY DEF Init, ScenarioInv, SaversStep, OneAtATime, AtWork, Requests
    <2>4. QED
      BY <2>1, <2>2, <2>3 DEF SnapshotsInv
  <1>2. ASSUME SnapshotsInv, [Next]_vars
        PROVE  SnapshotsInv'
    <2>1. FilesInv /\ SnapInv /\ ScenarioInv
      BY <1>2 DEF SnapshotsInv
    <2>2. CASE ServerStep
      <3>1. FilesInv' /\ SnapInv'
        BY <2>1, <2>2, ServerFiles, ServerSnap
      <3>2. ScenarioInv'
        <4>1. CASE \E r \in Savers : LoadScenarios(r) \/ OpenTmp(r) \/ WriteTmp(r) \/ Rename(r)
          BY <2>1, <4>1, LoadScenario, OpenScenario, WriteScenario, RenameScenario
        <4>2. CASE \E r \in Reviewers \cup Deletions : OthersStep(r)
          BY <2>1, <4>2, OthersFiles, EndedScenario
        <4>3. CASE Crash
          <5>1. /\ UNCHANGED <<inode, scenarios, tmp, basis, handle, saves, overlapped>>
                /\ step' = [r \in Requests |-> IF r \in UnderWay THEN "failed" ELSE step[r]]
            BY <4>3 DEF Crash, files
          <5>2. \A s \in Savers : step'[s] \in {step[s], "failed"}
            BY <5>1 DEF Requests
          <5>3. QED
            BY <2>1, <5>1, <5>2, EndedScenario
        <4>4. QED
          BY <2>2, <4>1, <4>2, <4>3 DEF ServerStep, RequestStep, OthersStep
      <3>3. QED
        BY <3>1, <3>2 DEF SnapshotsInv
    <2>3. CASE StartSnapshot \/ SnapshotStep
      <3>1. UNCHANGED <<files, server, saves, overlapped>>
        BY <2>3 DEF StartSnapshot, SnapshotStep, Walk, Digest, Archive, ManifestComplete, AddManifest
      <3>2. FilesInv'
        BY <2>1, <3>1 DEF files, server, FilesInv
      <3>3. ScenarioInv'
        BY <2>1, <3>1, EndedScenario DEF files, server
      <3>4. SnapInv'
        BY <2>1, <2>3, SnapshotSnap
      <3>5. QED
        BY <3>2, <3>3, <3>4 DEF SnapshotsInv
    <2>4. CASE UNCHANGED vars
      <3>1. UNCHANGED <<files, server, snap, cut, saves, overlapped>>
        BY <2>4 DEF vars
      <3>2. FilesInv'
        BY <2>1, <3>1 DEF files, server, FilesInv
      <3>3. ScenarioInv'
        BY <2>1, <3>1, EndedScenario DEF files, server
      <3>4. SnapInv'
        BY <2>1, <3>1, GoneStays DEF SnapInv
      <3>5. QED
        BY <3>2, <3>3, <3>4 DEF SnapshotsInv
    <2>5. QED
      BY <1>2, <2>2, <2>3, <2>4 DEF Next, ServerStep
  <1>3. QED
    BY <1>1, <1>2, PTL DEF Spec

\* The storage root and the snapshot keep their types.
THEOREM SnapshotsTypeCorrect == Spec => []TypeOK
  <1>1. SnapshotsInv => TypeOK
    BY DEF SnapshotsInv, FilesInv, SnapInv, Phases, TypeOK
  <1>2. QED
    BY <1>1, SnapshotsInvariant, PTL

\* Every file a verified archive restores whole is the file there was when its
\* manifest was complete, whatever wrote the storage root meanwhile and
\* however often it was killed (security/backup.py, snapshot and verify).
THEOREM BackupIsOneMoment == Spec => []VerifiedArchiveIsOneMoment
  <1>1. SnapshotsInv => VerifiedArchiveIsOneMoment
    BY DEF SnapshotsInv, SnapInv, VerifiedArchiveIsOneMoment, Verified, Verifies, Restored
  <1>2. QED
    BY <1>1, SnapshotsInvariant, PTL

\* The file of the scenarios parses after any crash, as long as no two changes
\* ran at once (ScenarioStore.save, which writes beside the file and renames).
THEOREM ScenariosSurviveCrashes == Spec => []ScenariosAlwaysParse
  <1>1. SnapshotsInv => ScenariosAlwaysParse
    BY DEF SnapshotsInv, ScenarioInv, OneAtATime, ScenariosAlwaysParse
  <1>2. QED
    BY <1>1, SnapshotsInvariant, PTL

\* No acknowledged change of the scenarios is lost, as long as no two changes
\* ran at once: the file holds it, or an acknowledged one that loaded it.
THEOREM AcknowledgedScenariosStay == Spec => []ScenariosKeepAcknowledged
  <1>1. SnapshotsInv => ScenariosKeepAcknowledged
    BY DEF SnapshotsInv, ScenarioInv, OneAtATime, ScenariosKeepAcknowledged
  <1>2. QED
    BY <1>1, SnapshotsInvariant, PTL

=============================================================================
