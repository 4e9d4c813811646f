------------------------ MODULE PackageStoreProofs -------------------------
(***************************************************************************)
(* Proofs about `niyah pull`.  The first part holds for any number of      *)
(* overlapping processes, the second when nothing overlaps: no other pull, *)
(* and no curl child that a killed pull left behind (SingleWriter).        *)
(***************************************************************************)
EXTENDS PackageStore, TLAPS, SequenceTheorems

-----------------------------------------------------------------------------
(* Names of files.                                                         *)

\* The names of the store are told apart by their kind and their arguments.
LEMMA PathFacts ==
  /\ \A k \in Package :
       /\ CachePath(k) \in Path /\ CachePath(k)[1] = "cache" /\ CachePath(k)[2] = k
       /\ CurrentPath(k) \in Path /\ CurrentPath(k)[1] = "current" /\ CurrentPath(k)[2] = k
       /\ CurrentPart(k) \in Path /\ CurrentPart(k)[1] = "current.part"
       /\ CurrentPart(k)[2] = k
  /\ \A b \in Blob :
       /\ PartPath(b) \in Path /\ PartPath(b)[1] = "part" /\ PartPath(b)[2] = b
       /\ BlobPath(b) \in Path /\ BlobPath(b)[1] = "blob" /\ BlobPath(b)[2] = b
  /\ \A k \in Package, v \in Version :
       /\ ManifestPath(k, v) \in Path /\ ManifestPath(k, v)[1] = "manifest"
       /\ ManifestPath(k, v)[2] = k /\ ManifestPath(k, v)[3] = v
       /\ ManifestPart(k, v) \in Path /\ ManifestPart(k, v)[1] = "manifest.part"
       /\ ManifestPart(k, v)[2] = k /\ ManifestPart(k, v)[3] = v
BY DEF CachePath, CurrentPath, CurrentPart, PartPath, BlobPath, ManifestPath, ManifestPart, Path

\* Every name under blobs/, packages/ and current is one of those.
LEMMA PathForms ==
  ASSUME NEW x \in Path
  PROVE  /\ x[1] = "blob" => \E b \in Blob : x = BlobPath(b)
         /\ x[1] = "manifest" => \E k \in Package, v \in Version : x = ManifestPath(k, v)
         /\ x[1] = "current" => \E k \in Package : x = CurrentPath(k)
BY DEF Path, BlobPath, ManifestPath, CurrentPath

\* Only a linked blob has two names.
LEMMA NamesOfStaged ==
  ASSUME linked \subseteq Blob, NEW b \in Blob, NEW x \in {PartPath(b), BlobPath(b)}
  PROVE  Names(x) = IF b \in linked THEN {PartPath(b), BlobPath(b)} ELSE {x}
<1>1. \A c \in Blob : {PartPath(c), BlobPath(c)} \subseteq Path
  BY PathFacts
<1>2. \A c \in Blob : \A y : {x, y} = {PartPath(c), BlobPath(c)} => c = b
  BY PathFacts
<1> QED
  BY <1>1, <1>2 DEF Names

LEMMA NamesOfOther ==
  ASSUME linked \subseteq Blob, NEW x,
         \A b \in Blob : x # PartPath(b) /\ x # BlobPath(b)
  PROVE  Names(x) = {x} \cap Path
BY DEF Names

-----------------------------------------------------------------------------
(* Any number of processes.                                                *)

\* Where a process holds a manifest and works on one of its artifacts
Holding == Labels \ {"idle", "fetch", "fetchWrite", "parse"}

Registering == {"copy", "copyWrite", "publish", "current", "currentWrite", "select"}

\* The cache holds manifests, or a file that was just truncated
Cached == \A k \in Package : file[CachePath(k)] \in Seq(Manifest) \cup {Absent}

\* A process that holds a manifest works on one of its artifacts, another one
\* will start with the first
Busy ==
  \A p \in Proc :
    /\ pc[p] \in Holding => man[p] # <<>> /\ idx[p] \in 1 .. Len(ArtifactsOf[Held(p)])
    /\ pc[p] \notin Holding => idx[p] = 1

\* The names a file can have while it is open for writing: its staging name, the
\* name it was given by another process, or none after a second one took that
Opened ==
  \A p \in Proc :
    /\ pc[p] = "fetchWrite" => fd[p] = CachePath(job[p])
    /\ pc[p] \in {"write", "append"} =>
         fd[p] \in {PartPath(Artifact(p)), BlobPath(Artifact(p)), Orphan}
    /\ pc[p] = "copyWrite" =>
         fd[p] \in {ManifestPart(HeldName(p), HeldVersion(p)),
                    ManifestPath(HeldName(p), HeldVersion(p)), Orphan}
    /\ pc[p] = "currentWrite" =>
         fd[p] \in {CurrentPart(HeldName(p)), CurrentPath(HeldName(p)), Orphan}
    /\ pc[p] \notin {"fetchWrite", "write", "append", "copyWrite", "currentWrite"} =>
         fd[p] = NoFile

StoreInv == TypeOK /\ Cached /\ Busy /\ Opened

\* What a process holds has the types of a manifest.
LEMMA HeldFacts ==
  ASSUME StoreInv, NEW p \in Proc, pc[p] \in Holding
  PROVE  /\ Held(p) \in Manifest /\ ArtifactsOf[Held(p)] \in Seq(Blob)
         /\ Artifact(p) \in Blob /\ HeldName(p) \in Package /\ HeldVersion(p) \in Version
         /\ idx[p] \in 1 .. Len(ArtifactsOf[Held(p)])
<1>1. man[p] \in Seq(Manifest) /\ man[p] # <<>>
  BY DEF StoreInv, TypeOK, Busy
<1>2. Held(p) \in Manifest
  BY <1>1 DEF Held
<1> QED
  BY <1>2, ManifestAssumption DEF StoreInv, Busy, Artifact, HeldName, HeldVersion

LEMMA InitStep == ASSUME Init PROVE StoreInv
<1>1. registry \in [Pulled -> SUBSET Manifest] /\ sound \in BOOLEAN /\ ranges \in BOOLEAN
        /\ stray \in SUBSET Proc /\ linked \in SUBSET Blob
        /\ job \in [Proc -> Pulled]
  BY DEF Init
<1>2. file \in [Path -> Seq(Datum) \cup {Absent}] /\ Cached
  BY PathFacts DEF Init, Cached
<1>3. /\ pc \in [Proc -> Labels] /\ man \in [Proc -> Seq(Manifest)]
      /\ idx \in [Proc -> Nat \ {0}] /\ fd \in [Proc -> Path \cup {NoFile, Orphan}]
      /\ off \in [Proc -> 1 .. Chunks] /\ rc \in [Proc -> Codes]
  BY SizeAssumption DEF Init, Labels, Codes, Running
<1>4. Busy /\ Opened
  BY DEF Init, Busy, Opened, Holding
<1> QED
  BY <1>1, <1>2, <1>3, <1>4 DEF StoreInv, TypeOK

\* A step that touches neither files nor descriptors, to a place without an open
\* file.
LEMMA QuietStep ==
  ASSUME StoreInv, NEW p \in Proc, NoFiles,
         NEW label \in Labels \ {"fetchWrite", "write", "append", "copyWrite", "currentWrite"},
         pc[p] \notin {"fetchWrite", "write", "append", "copyWrite", "currentWrite"},
         Goto(p, label),
         job' \in [Proc -> Pulled], man' \in [Proc -> Seq(Manifest)],
         idx' \in [Proc -> Nat \ {0}], off' = off, rc' \in [Proc -> Codes],
         \A q \in Proc \ {p} : job'[q] = job[q] /\ man'[q] = man[q] /\ idx'[q] = idx[q],
         label \in Holding => man'[p] # <<>> /\ idx'[p] \in 1 .. Len(ArtifactsOf[man'[p][1]]),
         label \notin Holding => idx'[p] = 1
  PROVE  StoreInv'
<1>1. TypeOK' /\ Cached'
  BY DEF StoreInv, TypeOK, Cached, NoFiles, env, disk, Goto
<1>2. Busy'
  BY DEF StoreInv, TypeOK, Busy, Held, Goto, Holding
<1>3. Opened'
  BY DEF StoreInv, TypeOK, Opened, Held, Artifact, HeldName, HeldVersion, Goto, NoFiles
<1> QED
  BY <1>1, <1>2, <1>3 DEF StoreInv

\* The process ends and leaves the files as they are.
LEMMA ExitStep ==
  ASSUME StoreInv, NEW p \in Proc, NEW code \in Codes, ExitOnly(p, code)
  PROVE  StoreInv'
<1>1. TypeOK' /\ Cached'
  BY SizeAssumption, EmptySeq
     DEF StoreInv, TypeOK, Cached, ExitOnly, Exit, disk, Goto, Labels, Codes
<1>2. Busy'
  BY DEF StoreInv, TypeOK, Busy, Held, ExitOnly, Exit, Goto, Holding
<1>3. Opened'
  BY DEF StoreInv, TypeOK, Opened, Held, Artifact, HeldName, HeldVersion, ExitOnly, Exit, Goto
<1> QED
  BY <1>1, <1>2, <1>3 DEF StoreInv

-----------------------------------------------------------------------------
(* Steps that change files.                                                *)

\* Writing a file keeps the types, and changes the file's names only.
LEMMA StoredFacts ==
  ASSUME TypeOK, NEW x, NEW c \in Seq(Datum), file' = Stored(x, c)
  PROVE  /\ file' \in [Path -> Seq(Datum) \cup {Absent}]
         /\ \A y \in Path : file'[y] = IF y \in Names(x) THEN c ELSE file[y]
BY DEF Stored, TypeOK

\* Manifests, versions and chunks are data.
LEMMA Texts ==
  /\ \A s \in Seq(Manifest) : s \in Seq(Datum)
  /\ \A v \in Version : <<v>> \in Seq(Datum)
  /\ \A m \in Manifest : <<m>> \in Seq(Manifest)
  /\ <<>> \in Seq(Datum) /\ <<>> \in Seq(Manifest)
BY DEF Datum

\* A file other than a staged or installed blob has one name.
LEMMA OneName ==
  ASSUME TypeOK, NEW x \in Path, x[1] \notin {"part", "blob"}
  PROVE  Names(x) = {x}
<1>1. \A b \in Blob : x # PartPath(b) /\ x # BlobPath(b)
  BY PathFacts
<1>2. linked \subseteq Blob
  BY DEF TypeOK
<1> QED
  BY <1>1, <1>2, NamesOfOther

\* An open file without a name is written without effect on the store.
LEMMA OrphanHasNoName == ASSUME TypeOK PROVE Names(Orphan) = {}
<1>1. \A b \in Blob : Orphan # PartPath(b) /\ Orphan # BlobPath(b)
  BY PathFacts, SentinelAssumption
<1>2. linked \subseteq Blob
  BY DEF TypeOK
<1> QED
  BY <1>1, <1>2, NamesOfOther, SentinelAssumption

\* A step of one process that writes to a file keeps the invariant when that file
\* is no cache file, or gets a manifest, and the step keeps what the process and
\* its descriptor are about.
LEMMA WriteStep ==
  ASSUME StoreInv, NEW p \in Proc, NEW x, NEW c \in Seq(Datum), file' = Stored(x, c),
         UNCHANGED <<env, linked, job>>,
         NEW label \in Labels, Goto(p, label),
         man' \in [Proc -> Seq(Manifest)], idx' = idx, off' \in [Proc -> 1 .. Chunks], rc' = rc,
         fd' \in [Proc -> Path \cup {NoFile, Orphan}],
         \A q \in Proc \ {p} : man'[q] = man[q] /\ fd'[q] = fd[q],
         (\E k \in Package : CachePath(k) \in Names(x)) => c \in Seq(Manifest),
         label \in Holding => pc[p] \in Holding /\ man'[p] = man[p],
         label \notin Holding => pc[p] \notin Holding,
         label = "fetchWrite" => fd'[p] = CachePath(job[p]),
         label \in {"write", "append"} =>
           fd'[p] \in {PartPath(Artifact(p)), BlobPath(Artifact(p)), Orphan},
         label = "copyWrite" => fd'[p] = ManifestPart(HeldName(p), HeldVersion(p)),
         label = "currentWrite" => fd'[p] = CurrentPart(HeldName(p)),
         label \notin {"fetchWrite", "write", "append", "copyWrite", "currentWrite"} =>
           fd'[p] = NoFile
  PROVE  StoreInv'
<1>1. TypeOK'
  BY StoredFacts DEF StoreInv, TypeOK, env, Goto
<1>2. Cached'
  <2> SUFFICES ASSUME NEW k \in Package
               PROVE  file'[CachePath(k)] \in Seq(Manifest) \cup {Absent}
    BY DEF Cached
  <2>1. CachePath(k) \in Path /\ file[CachePath(k)] \in Seq(Manifest) \cup {Absent}
    BY PathFacts DEF StoreInv, Cached
  <2>2. file'[CachePath(k)] = IF CachePath(k) \in Names(x) THEN c ELSE file[CachePath(k)]
    BY <2>1, StoredFacts DEF StoreInv
  <2> QED
    BY <2>1, <2>2
<1>3. Busy'
  BY DEF StoreInv, TypeOK, Busy, Held, Goto
<1>4. Opened'
  <2>1. ASSUME NEW q \in Proc \ {p}
        PROVE  /\ pc'[q] = pc[q] /\ fd'[q] = fd[q] /\ Artifact(q)' = Artifact(q)
               /\ HeldName(q)' = HeldName(q) /\ HeldVersion(q)' = HeldVersion(q)
               /\ job'[q] = job[q]
    BY DEF StoreInv, TypeOK, Goto, Artifact, HeldName, HeldVersion, Held
  <2>2. /\ pc'[p] = label /\ job'[p] = job[p]
        /\ label \in Holding =>
             /\ Artifact(p)' = Artifact(p)
             /\ HeldName(p)' = HeldName(p) /\ HeldVersion(p)' = HeldVersion(p)
    BY DEF StoreInv, TypeOK, Goto, Artifact, HeldName, HeldVersion, Held
  <2> QED
    BY <2>1, <2>2 DEF StoreInv, Opened, Holding
<1> QED
  BY <1>1, <1>2, <1>3, <1>4 DEF StoreInv

\* How a name change moves the open file of a process.
Moved(q) ==
  \/ fd'[q] = fd[q]
  \/ \E b \in Blob : fd[q] = PartPath(b) /\ fd'[q] \in {BlobPath(b), Orphan}
  \/ \E k \in Package, v \in Version :
       \/ fd[q] = ManifestPart(k, v) /\ fd'[q] = ManifestPath(k, v)
       \/ fd[q] = ManifestPath(k, v) /\ fd'[q] = Orphan
  \/ \E k \in Package :
       \/ fd[q] = CurrentPart(k) /\ fd'[q] = CurrentPath(k)
       \/ fd[q] = CurrentPath(k) /\ fd'[q] = Orphan

\* Such a change leaves an open file in the hands it was opened for.
LEMMA MovedStaysOpen ==
  ASSUME StoreInv, NEW q \in Proc, Moved(q), pc'[q] = pc[q], job'[q] = job[q],
         man'[q] = man[q], idx'[q] = idx[q]
  PROVE  /\ pc[q] = "fetchWrite" => fd'[q] = CachePath(job[q])
         /\ pc[q] \in {"write", "append"} =>
              fd'[q] \in {PartPath(Artifact(q)), BlobPath(Artifact(q)), Orphan}
         /\ pc[q] = "copyWrite" =>
              fd'[q] \in {ManifestPart(HeldName(q), HeldVersion(q)),
                          ManifestPath(HeldName(q), HeldVersion(q)), Orphan}
         /\ pc[q] = "currentWrite" =>
              fd'[q] \in {CurrentPart(HeldName(q)), CurrentPath(HeldName(q)), Orphan}
         /\ pc[q] \notin {"fetchWrite", "write", "append", "copyWrite", "currentWrite"} =>
              fd'[q] = NoFile
<1>1. job[q] \in Package
  BY PulledAssumption DEF StoreInv, TypeOK
<1>2. pc[q] \in Holding =>
        Artifact(q) \in Blob /\ HeldName(q) \in Package /\ HeldVersion(q) \in Version
  BY HeldFacts
<1>3. CASE pc[q] = "fetchWrite"
  <2>1. fd[q] = CachePath(job[q])
    BY <1>3 DEF StoreInv, Opened
  <2> QED
    BY <1>1, <1>3, <2>1, PathFacts DEF Moved
<1>4. CASE pc[q] \in {"write", "append"}
  <2>1. fd[q] \in {PartPath(Artifact(q)), BlobPath(Artifact(q)), Orphan} /\ Artifact(q) \in Blob
    BY <1>2, <1>4 DEF StoreInv, Opened, Holding, Labels
  <2> QED
    BY <1>4, <2>1, PathFacts, SentinelAssumption DEF Moved
<1>5. CASE pc[q] = "copyWrite"
  <2>1. /\ HeldName(q) \in Package /\ HeldVersion(q) \in Version
        /\ fd[q] \in {ManifestPart(HeldName(q), HeldVersion(q)),
                      ManifestPath(HeldName(q), HeldVersion(q)), Orphan}
    BY <1>2, <1>5 DEF StoreInv, Opened, Holding, Labels
  <2> QED
    BY <1>5, <2>1, PathFacts, SentinelAssumption DEF Moved
<1>6. CASE pc[q] = "currentWrite"
  <2>1. /\ HeldName(q) \in Package
        /\ fd[q] \in {CurrentPart(HeldName(q)), CurrentPath(HeldName(q)), Orphan}
    BY <1>2, <1>6 DEF StoreInv, Opened, Holding, Labels
  <2> QED
    BY <1>6, <2>1, PathFacts, SentinelAssumption DEF Moved
<1>7. CASE pc[q] \notin {"fetchWrite", "write", "append", "copyWrite", "currentWrite"}
  <2>1. fd[q] = NoFile
    BY <1>7 DEF StoreInv, Opened
  <2> QED
    BY <1>7, <2>1, PathFacts, SentinelAssumption DEF Moved
<1> QED
  BY <1>3, <1>4, <1>5, <1>6, <1>7

\* A step that changes names outside of the cache, by a process without an open
\* file.
LEMMA MoveStep ==
  ASSUME StoreInv, NEW p \in Proc,
         NEW label \in Labels \ {"fetchWrite", "write", "append", "copyWrite", "currentWrite"},
         pc[p] \notin {"fetchWrite", "write", "append", "copyWrite", "currentWrite"},
         Goto(p, label), UNCHANGED <<registry, sound, ranges, job>>, stray' \in SUBSET Proc,
         file' \in [Path -> Seq(Datum) \cup {Absent}], linked' \in SUBSET Blob,
         \A k \in Package : file'[CachePath(k)] = file[CachePath(k)],
         fd' \in [Proc -> Path \cup {NoFile, Orphan}], \A q \in Proc : Moved(q),
         man' \in [Proc -> Seq(Manifest)], idx' \in [Proc -> Nat \ {0}],
         off' \in [Proc -> 1 .. Chunks], rc' \in [Proc -> Codes],
         \A q \in Proc \ {p} : man'[q] = man[q] /\ idx'[q] = idx[q],
         label \in Holding => man'[p] # <<>> /\ idx'[p] \in 1 .. Len(ArtifactsOf[man'[p][1]]),
         label \notin Holding => idx'[p] = 1
  PROVE  StoreInv'
<1>1. TypeOK' /\ Cached'
  BY DEF StoreInv, TypeOK, Cached, Goto
<1>2. Busy'
  BY DEF StoreInv, TypeOK, Busy, Held, Goto, Holding
<1>3. \A q \in Proc \ {p} : pc'[q] = pc[q] /\ job'[q] = job[q]
  BY DEF StoreInv, TypeOK, Goto
<1>4. pc'[p] = label /\ fd'[p] = NoFile
  <2>1. pc'[p] = label /\ fd[p] = NoFile
    BY DEF StoreInv, TypeOK, Goto, Opened
  <2>2. Moved(p)
    OBVIOUS
  <2> QED
    BY ONLY <2>1, <2>2, PathFacts, SentinelAssumption DEF Moved
<1>5. ASSUME NEW q \in Proc \ {p}
      PROVE  /\ Artifact(q)' = Artifact(q) /\ HeldName(q)' = HeldName(q)
             /\ HeldVersion(q)' = HeldVersion(q)
  BY DEF Artifact, HeldName, HeldVersion, Held
<1>6. Opened'
  BY <1>3, <1>4, <1>5, MovedStaysOpen DEF Opened
<1> QED
  BY <1>1, <1>2, <1>6 DEF StoreInv

-----------------------------------------------------------------------------
(* One lemma for each group of actions.                                    *)

\* A manifest that was read and parsed has artifacts.
LEMMA ParsedFacts ==
  ASSUME StoreInv, NEW k \in Package, Parses(Read(CachePath(k)))
  PROVE  /\ Read(CachePath(k)) \in Seq(Manifest) /\ Read(CachePath(k)) # <<>>
         /\ 1 \in 1 .. Len(ArtifactsOf[Read(CachePath(k))[1]])
<1> DEFINE text == Read(CachePath(k))
<1>1. text # <<>> /\ Len(ArtifactsOf[text[1]]) \in 1 .. MaxArtifacts
  BY DEF Parses
<1>2. text \in Seq(Manifest)
  BY <1>1 DEF StoreInv, Cached, Read, Exists
<1> QED
  BY <1>1, <1>2, SizeAssumption

\* The loop goes to an artifact that is there.
LEMMA AfterArtifactFacts ==
  ASSUME StoreInv, NEW p \in Proc, pc[p] \in Holding, AfterArtifact(p)
  PROVE  \E label \in {"artifact", "copy"} :
           /\ Goto(p, label)
           /\ idx' \in [Proc -> Nat \ {0}] /\ \A q \in Proc \ {p} : idx'[q] = idx[q]
           /\ idx'[p] \in 1 .. Len(ArtifactsOf[Held(p)])
<1>1. idx[p] \in 1 .. Len(ArtifactsOf[Held(p)]) /\ Len(ArtifactsOf[Held(p)]) \in Nat
        /\ idx \in [Proc -> Nat \ {0}]
  BY HeldFacts DEF StoreInv, TypeOK
<1>2. CASE idx[p] < Len(ArtifactsOf[Held(p)])
  BY <1>1, <1>2 DEF AfterArtifact
<1>3. CASE ~(idx[p] < Len(ArtifactsOf[Held(p)]))
  BY <1>1, <1>3 DEF AfterArtifact
<1> QED
  BY <1>2, <1>3

\* Steps without files.
LEMMA QuietActions ==
  ASSUME StoreInv, NEW p \in Proc,
         \/ \E k \in Pulled : StartPull(p, k)
         \/ ParseManifest(p) \/ BlobMissing(p) \/ BlobCached(p) \/ CurlFresh(p)
         \/ VerifyPart(p) \/ LinkLostRace(p) \/ RecheckBlob(p)
         \/ pc[p] = "verify" /\ Goto(p, "discard") /\ UNCHANGED <<job, man, idx, off, rc>>
              /\ NoFiles
         \/ pc[p] = "unlink" /\ AfterArtifact(p) /\ UNCHANGED <<job, man, off, rc>> /\ NoFiles
  PROVE  StoreInv'
<1>1. ASSUME NEW k \in Pulled, StartPull(p, k) PROVE StoreInv'
  <2>1. /\ NoFiles /\ Goto(p, "fetch") /\ pc[p] = "idle" /\ UNCHANGED <<man, idx, off>>
        /\ job' = [job EXCEPT ![p] = k] /\ rc' = [rc EXCEPT ![p] = Running]
    BY <1>1 DEF StartPull
  <2>2. /\ job' \in [Proc -> Pulled] /\ rc' \in [Proc -> Codes]
        /\ \A q \in Proc \ {p} : job'[q] = job[q]
        /\ man' \in [Proc -> Seq(Manifest)] /\ idx' \in [Proc -> Nat \ {0}]
    BY <2>1 DEF StoreInv, TypeOK, Codes
  <2>3. idx'[p] = 1
    BY <2>1 DEF StoreInv, Busy, Holding
  <2> QED
    BY <2>1, <2>2, <2>3, QuietStep DEF Labels, Holding
<1>2. ASSUME ParseManifest(p) PROVE StoreInv'
  <2>1. job[p] \in Package /\ man \in [Proc -> Seq(Manifest)] /\ idx[p] \in Nat
    BY PulledAssumption DEF StoreInv, TypeOK
  <2>2. /\ NoFiles /\ Goto(p, "artifact") /\ pc[p] = "parse" /\ UNCHANGED <<job, idx, off, rc>>
        /\ Parses(Read(CachePath(job[p])))
        /\ man' = [man EXCEPT ![p] = Read(CachePath(job[p]))]
    BY <1>2 DEF ParseManifest
  <2>3. /\ man' \in [Proc -> Seq(Manifest)] /\ man'[p] = Read(CachePath(job[p]))
        /\ \A q \in Proc \ {p} : man'[q] = man[q]
    BY <2>1, <2>2, ParsedFacts
  <2>4. idx[p] \in 1 .. Len(ArtifactsOf[man'[p][1]]) /\ man'[p] # <<>>
    BY <2>1, <2>2, <2>3, ParsedFacts DEF StoreInv, Busy, Holding
  <2>5. job' \in [Proc -> Pulled] /\ rc' \in [Proc -> Codes] /\ idx' \in [Proc -> Nat \ {0}]
    BY <2>2 DEF StoreInv, TypeOK
  <2> QED
    BY <2>2, <2>3, <2>4, <2>5, QuietStep DEF Labels, Holding
<1>3. ASSUME NEW label \in {"curl", "open", "link", "discard", "recheck", "unlink"},
             pc[p] \in {"artifact", "curl", "verify", "link", "recheck"},
             Goto(p, label), UNCHANGED <<job, man, idx, off, rc>>, NoFiles
      PROVE  StoreInv'
  <2>1. /\ job' \in [Proc -> Pulled] /\ rc' \in [Proc -> Codes]
        /\ idx' \in [Proc -> Nat \ {0}] /\ man' \in [Proc -> Seq(Manifest)]
    BY <1>3 DEF StoreInv, TypeOK
  <2>2. man'[p] # <<>> /\ idx'[p] \in 1 .. Len(ArtifactsOf[man'[p][1]])
    BY <1>3 DEF StoreInv, Busy, Holding, Labels, Held
  <2> QED
    BY <1>3, <2>1, <2>2, QuietStep DEF Labels, Holding
<1>4. ASSUME pc[p] \in {"artifact", "unlink"}, AfterArtifact(p),
             UNCHANGED <<job, man, off, rc>>, NoFiles
      PROVE  StoreInv'
  <2>1. PICK label \in {"artifact", "copy"} :
          /\ Goto(p, label)
          /\ idx' \in [Proc -> Nat \ {0}] /\ \A q \in Proc \ {p} : idx'[q] = idx[q]
          /\ idx'[p] \in 1 .. Len(ArtifactsOf[Held(p)])
    BY <1>4, AfterArtifactFacts DEF Holding, Labels
  <2>2. /\ job' \in [Proc -> Pulled] /\ rc' \in [Proc -> Codes]
        /\ man' \in [Proc -> Seq(Manifest)]
    BY <1>4 DEF StoreInv, TypeOK
  <2>3. man'[p] # <<>> /\ idx'[p] \in 1 .. Len(ArtifactsOf[man'[p][1]])
    BY <1>4, <2>1 DEF StoreInv, Busy, Holding, Labels, Held
  <2> QED
    BY <1>4, <2>1, <2>2, <2>3, QuietStep DEF Labels, Holding
<1>5. CASE BlobMissing(p)
  BY <1>5, <1>3 DEF BlobMissing
<1>6. CASE BlobCached(p)
  BY <1>6, <1>4 DEF BlobCached
<1>7. CASE CurlFresh(p)
  BY <1>7, <1>3 DEF CurlFresh
<1>8. CASE VerifyPart(p)
  BY <1>8, <1>3 DEF VerifyPart
<1>9. CASE LinkLostRace(p)
  BY <1>9, <1>3 DEF LinkLostRace
<1>10. CASE RecheckBlob(p)
  BY <1>10, <1>3 DEF RecheckBlob
<1> QED
  BY <1>1, <1>2, <1>3, <1>4, <1>5, <1>6, <1>7, <1>8, <1>9, <1>10

\* What a descriptor writes to is no cache file.
LEMMA WrittenIsNoCache ==
  ASSUME TypeOK, NEW x,
         \/ x = Orphan
         \/ \E b \in Blob : x \in {PartPath(b), BlobPath(b)}
         \/ x \in Path /\ x[1] \notin {"part", "blob", "cache"}
  PROVE  \A k \in Package : CachePath(k) \notin Names(x)
<1>1. linked \subseteq Blob
  BY DEF TypeOK
<1>2. CASE x = Orphan
  BY <1>2, OrphanHasNoName
<1>3. ASSUME NEW b \in Blob, x \in {PartPath(b), BlobPath(b)}
      PROVE  \A k \in Package : CachePath(k) \notin Names(x)
  <2>1. Names(x) \subseteq {PartPath(b), BlobPath(b)}
    BY <1>1, <1>3, NamesOfStaged
  <2> QED
    BY <2>1, PathFacts
<1>4. CASE x \in Path /\ x[1] \notin {"part", "blob", "cache"}
  BY <1>4, OneName, PathFacts
<1> QED
  BY <1>2, <1>3, <1>4

\* Writing a chunk into a sequence of data gives one.
LEMMA ChunkFacts ==
  ASSUME NEW s \in Seq(Datum), NEW n \in 1 .. Chunks, NEW c \in 0 .. Chunks
  PROVE  Append(s, c) \in Seq(Datum) /\ WriteAt(s, n, c) \in Seq(Datum)
<1>1. c \in Datum /\ Damaged \in Datum /\ n \in Nat /\ n >= 1
  BY SizeAssumption DEF Datum, Damaged
<1>2. Append(s, c) \in Seq(Datum)
  BY <1>1
<1> DEFINE len == IF n > Len(s) THEN n ELSE Len(s)
           at(i) == IF i = n THEN c ELSE IF i <= Len(s) THEN s[i] ELSE Damaged
<1>3. len \in Nat /\ \A i \in 1 .. len : at(i) \in Datum
  BY <1>1
<1>4. WriteAt(s, n, c) = [i \in 1 .. len |-> at(i)]
  BY DEF WriteAt
<1>5. [i \in 1 .. len |-> at(i)] \in [1 .. len -> Datum]
  BY <1>3
<1>6. \A f \in [1 .. len -> Datum] : f \in Seq(Datum)
  BY <1>3
<1> QED
  BY <1>2, <1>4, <1>5, <1>6

\* Steps that open or write a file.
LEMMA WriteActions ==
  ASSUME StoreInv, NEW p \in Proc,
         \/ FetchOpen(p) \/ FetchWrite(p) \/ CurlOpen(p) \/ CurlChunk(p)
         \/ CopyOpen(p) \/ CopyWrite(p) \/ CurrentOpen(p) \/ CurrentWrite(p)
  PROVE  StoreInv'
<1>0. /\ TypeOK /\ job[p] \in Package /\ off[p] \in 1 .. Chunks /\ Chunks \in Nat \ {0}
      /\ man \in [Proc -> Seq(Manifest)] /\ off \in [Proc -> 1 .. Chunks]
      /\ fd \in [Proc -> Path \cup {NoFile, Orphan}] /\ fd[p] \in Path \cup {NoFile, Orphan}
      /\ registry[job[p]] \subseteq Manifest /\ 1 \in 1 .. Chunks
  BY SizeAssumption, PulledAssumption DEF StoreInv, TypeOK
<1>1. CASE FetchOpen(p)
  <2>1. /\ file' = Stored(CachePath(job[p]), <<>>) /\ UNCHANGED <<env, linked, job>>
        /\ pc[p] = "fetch" /\ Goto(p, "fetchWrite") /\ UNCHANGED <<idx, off, rc>>
        /\ fd' = [fd EXCEPT ![p] = CachePath(job[p])]
        /\ \E m \in Manifest : man' = [man EXCEPT ![p] = <<m>>]
    BY <1>0, <1>1 DEF FetchOpen, OpenTruncated
  <2>2. /\ man' \in [Proc -> Seq(Manifest)] /\ \A q \in Proc \ {p} : man'[q] = man[q]
        /\ fd' \in [Proc -> Path \cup {NoFile, Orphan}] /\ fd'[p] = CachePath(job[p])
        /\ \A q \in Proc \ {p} : fd'[q] = fd[q]
    BY <1>0, <2>1, PathFacts, Texts
  <2> QED
    BY <1>0, <2>1, <2>2, WriteStep, Texts DEF Labels, Holding
<1>2. CASE FetchWrite(p)
  <2>1. /\ fd[p] = CachePath(job[p]) /\ file' = Stored(fd[p], man[p])
        /\ UNCHANGED <<env, linked, job>>
        /\ pc[p] = "fetchWrite" /\ Goto(p, "parse") /\ UNCHANGED <<idx, off, rc>>
        /\ fd' = [fd EXCEPT ![p] = NoFile] /\ man' = [man EXCEPT ![p] = <<>>]
    BY <1>2 DEF FetchWrite, WriteAndClose, StoreInv, Opened
  <2>2. /\ man' \in [Proc -> Seq(Manifest)] /\ \A q \in Proc \ {p} : man'[q] = man[q]
        /\ fd' \in [Proc -> Path \cup {NoFile, Orphan}] /\ fd'[p] = NoFile
        /\ \A q \in Proc \ {p} : fd'[q] = fd[q]
        /\ man[p] \in Seq(Manifest) /\ man[p] \in Seq(Datum)
    BY <1>0, <2>1, Texts
  <2> QED
    BY <1>0, <2>1, <2>2, WriteStep DEF Labels, Holding
<1>3. CASE CurlOpen(p)
  <2>1. /\ file' = Stored(PartPath(Artifact(p)), <<>>) /\ UNCHANGED <<env, linked, job>>
        /\ pc[p] = "open" /\ Goto(p, "write") /\ UNCHANGED <<man, idx, rc>>
        /\ fd' = [fd EXCEPT ![p] = PartPath(Artifact(p))] /\ off' = [off EXCEPT ![p] = 1]
        /\ Artifact(p) \in Blob
    BY <1>3, HeldFacts DEF CurlOpen, OpenTruncated, Holding, Labels
  <2>2. /\ off' \in [Proc -> 1 .. Chunks]
        /\ fd' \in [Proc -> Path \cup {NoFile, Orphan}] /\ fd'[p] = PartPath(Artifact(p))
        /\ \A q \in Proc \ {p} : fd'[q] = fd[q]
    BY <1>0, <2>1, PathFacts
  <2> QED
    BY <1>0, <2>1, <2>2, WriteStep, Texts DEF Labels, Holding
<1>4. CASE CurlChunk(p)
  <2>1. /\ Artifact(p) \in Blob
        /\ fd[p] \in {PartPath(Artifact(p)), BlobPath(Artifact(p)), Orphan}
        /\ pc[p] \in Holding
    BY <1>4, HeldFacts DEF CurlChunk, StoreInv, Opened, Holding, Labels
  <2>2. PICK c \in {off[p]} \cup (IF sound THEN {} ELSE {Damaged}) :
          LET old == IF fd[p] = Orphan THEN <<>> ELSE Read(fd[p])
              new == IF pc[p] = "append" THEN Append(old, c)
                                         ELSE WriteAt(old, off[p], c)
          IN file' = Stored(fd[p], new)
    BY <1>4 DEF CurlChunk
  <2> DEFINE old == IF fd[p] = Orphan THEN <<>> ELSE Read(fd[p])
             new == IF pc[p] = "append" THEN Append(old, c) ELSE WriteAt(old, off[p], c)
  <2>3. old \in Seq(Datum)
    BY <1>0, <2>1, PathFacts, Texts DEF Read, Exists, TypeOK
  <2>4. new \in Seq(Datum)
    <3>1. c \in 0 .. Chunks
      BY <1>0, <2>2 DEF Damaged
    <3> QED
      BY <1>0, <2>3, <3>1, ChunkFacts
  <2>5. \A k \in Package : CachePath(k) \notin Names(fd[p])
    BY <1>0, <2>1, WrittenIsNoCache
  <2>6. UNCHANGED <<env, linked, job>> /\ UNCHANGED <<man, idx, rc>> /\ pc[p] \in {"write", "append"}
    BY <1>4 DEF CurlChunk
  <2>7. CASE off[p] < Chunks
    <3>1. /\ off' = [off EXCEPT ![p] = off[p] + 1] /\ UNCHANGED <<pc, fd>>
          /\ Goto(p, pc[p]) /\ pc[p] \in Labels
      BY <1>4, <2>7, <1>0 DEF CurlChunk, Goto, TypeOK
    <3>2. off' \in [Proc -> 1 .. Chunks]
      BY <1>0, <2>7, <3>1
    <3> HIDE DEF new
    <3> QED
      BY <1>0, <2>1, <2>2, <2>4, <2>5, <2>6, <3>1, <3>2, WriteStep DEF new
  <2>8. CASE ~(off[p] < Chunks)
    <3>1. /\ off' = [off EXCEPT ![p] = 1] /\ Goto(p, "verify")
          /\ fd' = [fd EXCEPT ![p] = NoFile]
      BY <1>4, <2>8 DEF CurlChunk
    <3>2. /\ off' \in [Proc -> 1 .. Chunks]
          /\ fd' \in [Proc -> Path \cup {NoFile, Orphan}] /\ fd'[p] = NoFile
          /\ \A q \in Proc \ {p} : fd'[q] = fd[q]
      BY <1>0, <3>1
    <3> HIDE DEF new
    <3> QED
      BY <1>0, <2>1, <2>2, <2>4, <2>5, <2>6, <3>1, <3>2, WriteStep DEF new, Labels, Holding
  <2> QED
    BY <2>7, <2>8
<1>5. CASE CopyOpen(p)
  <2> DEFINE part == ManifestPart(HeldName(p), HeldVersion(p))
  <2>1. /\ file' = Stored(part, <<>>) /\ UNCHANGED <<env, linked, job>>
        /\ pc[p] = "copy" /\ Goto(p, "copyWrite") /\ UNCHANGED <<man, idx, off, rc>>
        /\ fd' = [fd EXCEPT ![p] = part]
        /\ HeldName(p) \in Package /\ HeldVersion(p) \in Version
    BY <1>5, HeldFacts DEF CopyOpen, OpenTruncated, Holding, Labels
  <2>2. /\ fd' \in [Proc -> Path \cup {NoFile, Orphan}] /\ fd'[p] = part
        /\ \A q \in Proc \ {p} : fd'[q] = fd[q]
    BY <1>0, <2>1, PathFacts
  <2> QED
    BY <1>0, <2>1, <2>2, WriteStep, Texts DEF Labels, Holding
<1>6. CASE CopyWrite(p)
  <2> DEFINE text == Read(CachePath(job[p]))
  <2>1. /\ file' = Stored(fd[p], text) /\ UNCHANGED <<env, linked, job>>
        /\ pc[p] = "copyWrite" /\ Goto(p, "publish") /\ UNCHANGED <<man, idx, off, rc>>
        /\ fd' = [fd EXCEPT ![p] = NoFile]
    BY <1>6 DEF CopyWrite, WriteAndClose
  <2>2. text \in Seq(Manifest) /\ text \in Seq(Datum)
    BY <1>0, Texts DEF StoreInv, Cached, Read, Exists
  <2>3. /\ fd' \in [Proc -> Path \cup {NoFile, Orphan}] /\ fd'[p] = NoFile
        /\ \A q \in Proc \ {p} : fd'[q] = fd[q]
    BY <1>0, <2>1
  <2> QED
    BY <1>0, <2>1, <2>2, <2>3, WriteStep DEF Labels, Holding
<1>7. CASE CurrentOpen(p)
  <2> DEFINE part == CurrentPart(HeldName(p))
  <2>1. /\ file' = Stored(part, <<>>) /\ UNCHANGED <<env, linked, job>>
        /\ pc[p] = "current" /\ Goto(p, "currentWrite") /\ UNCHANGED <<man, idx, off, rc>>
        /\ fd' = [fd EXCEPT ![p] = part] /\ HeldName(p) \in Package
    BY <1>7, HeldFacts DEF CurrentOpen, OpenTruncated, Holding, Labels
  <2>2. /\ fd' \in [Proc -> Path \cup {NoFile, Orphan}] /\ fd'[p] = part
        /\ \A q \in Proc \ {p} : fd'[q] = fd[q]
    BY <1>0, <2>1, PathFacts
  <2> QED
    BY <1>0, <2>1, <2>2, WriteStep, Texts DEF Labels, Holding
<1>8. CASE CurrentWrite(p)
  <2>1. /\ file' = Stored(fd[p], <<HeldVersion(p)>>) /\ UNCHANGED <<env, linked, job>>
        /\ pc[p] = "currentWrite" /\ Goto(p, "select") /\ UNCHANGED <<man, idx, off, rc>>
        /\ fd' = [fd EXCEPT ![p] = NoFile]
    BY <1>8 DEF CurrentWrite, WriteAndClose
  <2>2. /\ HeldName(p) \in Package /\ HeldVersion(p) \in Version
        /\ fd[p] \in {CurrentPart(HeldName(p)), CurrentPath(HeldName(p)), Orphan}
    BY <2>1, HeldFacts DEF StoreInv, Opened, Holding, Labels
  <2>3. <<HeldVersion(p)>> \in Seq(Datum) /\ \A k \in Package : CachePath(k) \notin Names(fd[p])
    <3>1. \/ fd[p] = Orphan
          \/ fd[p] \in Path /\ fd[p][1] \notin {"part", "blob", "cache"}
      BY <2>2, PathFacts
    <3> QED
      BY <1>0, <2>2, <3>1, WrittenIsNoCache, Texts
  <2>4. /\ fd' \in [Proc -> Path \cup {NoFile, Orphan}] /\ fd'[p] = NoFile
        /\ \A q \in Proc \ {p} : fd'[q] = fd[q]
    BY <1>0, <2>1
  <2> QED
    BY <1>0, <2>1, <2>3, <2>4, WriteStep DEF Labels, Holding
<1> QED
  BY <1>1, <1>2, <1>3, <1>4, <1>5, <1>6, <1>7, <1>8

\* curl resumes a part, or finds it complete.
LEMMA ResumeAction == ASSUME StoreInv, NEW p \in Proc, CurlResume(p) PROVE StoreInv'
<1> DEFINE part == PartPath(Artifact(p))
<1>1. /\ UNCHANGED <<env, disk, job, man, idx, rc>> /\ pc[p] = "curl"
      /\ pc[p] \in Holding /\ Artifact(p) \in Blob /\ part \in Path /\ Read(part) \in Seq(Datum)
      /\ UNCHANGED file
  <2>1. /\ UNCHANGED <<env, disk, job, man, idx, rc>> /\ pc[p] = "curl" /\ pc[p] \in Holding
        /\ UNCHANGED file
    BY DEF CurlResume, Holding, Labels, disk
  <2>2. Artifact(p) \in Blob /\ part \in Path
    BY <2>1, HeldFacts, PathFacts
  <2> QED
    BY <2>1, <2>2, Texts DEF Read, Exists, StoreInv, TypeOK
<1>2. CASE Len(Read(part)) < Chunks
  <2>1. /\ Goto(p, "append") /\ fd' = [fd EXCEPT ![p] = part]
        /\ off' = [off EXCEPT ![p] = Len(Read(part)) + 1]
    BY <1>2 DEF CurlResume
  <2>2. Len(Read(part)) + 1 \in 1 .. Chunks
    BY <1>1, <1>2, SizeAssumption
  <2>3. TypeOK' /\ Cached'
    BY <1>1, <2>1, <2>2 DEF StoreInv, TypeOK, Cached, env, disk, Goto, Labels
  <2>4. Busy'
    BY <1>1, <2>1 DEF StoreInv, TypeOK, Busy, Held, Goto, Holding, Labels
  <2>5. Opened'
    BY <1>1, <2>1 DEF StoreInv, TypeOK, Opened, Held, Artifact, HeldName, HeldVersion, Goto
  <2> QED
    BY <2>3, <2>4, <2>5 DEF StoreInv
<1>3. CASE ~(Len(Read(part)) < Chunks)
  <2>1. Goto(p, "verify") /\ NoFiles /\ off' = off
    BY <1>3, <1>1 DEF CurlResume, NoFiles, disk
  <2>2. /\ job' \in [Proc -> Pulled] /\ rc' \in [Proc -> Codes]
        /\ idx' \in [Proc -> Nat \ {0}] /\ man' \in [Proc -> Seq(Manifest)]
        /\ man'[p] # <<>> /\ idx'[p] \in 1 .. Len(ArtifactsOf[man'[p][1]])
    BY <1>1 DEF StoreInv, TypeOK, Busy, Held
  <2> QED
    BY <1>1, <2>1, <2>2, QuietStep DEF Labels, Holding
<1> QED
  BY <1>2, <1>3

\* The staging name of a blob is removed.
LEMMA RemoveFacts ==
  ASSUME StoreInv, NEW b \in Blob, RemovePart(b)
  PROVE  /\ file' \in [Path -> Seq(Datum) \cup {Absent}] /\ linked' \in SUBSET Blob
         /\ \A x \in Path : x # PartPath(b) => file'[x] = file[x]
         /\ fd' \in [Proc -> Path \cup {NoFile, Orphan}]
         /\ \A q \in Proc : Moved(q)
<1>1. /\ file' = [file EXCEPT ![PartPath(b)] = Absent] /\ linked' = linked \ {b}
      /\ fd' = [q \in Proc |-> IF fd[q] # PartPath(b) THEN fd[q]
                               ELSE IF b \in linked THEN BlobPath(b) ELSE Orphan]
  BY DEF RemovePart
<1>2. PartPath(b) \in Path /\ BlobPath(b) \in Path
  BY PathFacts
<1>3. \A q \in Proc : Moved(q)
  BY <1>1 DEF Moved
<1>4. fd' \in [Proc -> Path \cup {NoFile, Orphan}]
  BY <1>1, <1>2 DEF StoreInv, TypeOK
<1> QED
  BY <1>1, <1>2, <1>3, <1>4 DEF StoreInv, TypeOK

\* A file under packages/ is renamed.
LEMMA RenameFacts ==
  ASSUME StoreInv, NEW x \in Path, NEW y \in Path, Rename(x, y), x # y,
         \/ \E k \in Package, v \in Version : x = ManifestPart(k, v) /\ y = ManifestPath(k, v)
         \/ \E k \in Package : x = CurrentPart(k) /\ y = CurrentPath(k)
  PROVE  /\ file' \in [Path -> Seq(Datum) \cup {Absent}] /\ linked' \in SUBSET Blob
         /\ file'[x] = Absent /\ file'[y] = file[x]
         /\ \A z \in Path \ {x, y} : file'[z] = file[z]
         /\ fd' \in [Proc -> Path \cup {NoFile, Orphan}]
         /\ \A q \in Proc : Moved(q)
<1>1. /\ file' = [file EXCEPT ![y] = file[x], ![x] = Absent] /\ linked' = linked
      /\ fd' = [q \in Proc |-> IF fd[q] = x THEN y
                               ELSE IF fd[q] = y THEN Orphan ELSE fd[q]]
  BY DEF Rename
<1>2. \A q \in Proc : Moved(q)
  BY <1>1 DEF Moved
<1>3. fd' \in [Proc -> Path \cup {NoFile, Orphan}]
  BY <1>1 DEF StoreInv, TypeOK
<1> QED
  BY <1>1, <1>2, <1>3 DEF StoreInv, TypeOK

\* A verified part gets the blob's name.
LEMMA LinkFacts ==
  ASSUME StoreInv, NEW p \in Proc, LinkBlob(p)
  PROVE  /\ pc[p] = "link" /\ Artifact(p) \in Blob /\ Goto(p, "unlink")
         /\ UNCHANGED <<env, job, man, idx, fd, off, rc>>
         /\ ~Exists(BlobPath(Artifact(p)))
         /\ file' \in [Path -> Seq(Datum) \cup {Absent}] /\ linked' \in SUBSET Blob
         /\ file'[BlobPath(Artifact(p))] = file[PartPath(Artifact(p))]
         /\ \A x \in Path : x # BlobPath(Artifact(p)) => file'[x] = file[x]
         /\ Exists(BlobPath(Artifact(p)))'
<1>1. Artifact(p) \in Blob /\ pc[p] \in Holding
  BY HeldFacts DEF LinkBlob, Holding, Labels
<1>2. /\ pc[p] = "link" /\ Goto(p, "unlink") /\ UNCHANGED <<env, job, man, idx, fd, off, rc>>
      /\ ~Exists(BlobPath(Artifact(p))) /\ Exists(PartPath(Artifact(p)))
      /\ file' = [file EXCEPT ![BlobPath(Artifact(p))] = file[PartPath(Artifact(p))]]
      /\ linked' = linked \cup {Artifact(p)}
  BY DEF LinkBlob
<1>3. BlobPath(Artifact(p)) \in Path /\ PartPath(Artifact(p)) \in Path
  BY <1>1, PathFacts
<1>4. /\ file' \in [Path -> Seq(Datum) \cup {Absent}] /\ linked' \in SUBSET Blob
      /\ file'[BlobPath(Artifact(p))] = file[PartPath(Artifact(p))]
      /\ \A x \in Path : x # BlobPath(Artifact(p)) => file'[x] = file[x]
  BY <1>1, <1>2, <1>3 DEF StoreInv, TypeOK
<1>5. file'[BlobPath(Artifact(p))] # Absent
  BY <1>2, <1>4 DEF Exists
<1>6. BlobPath(Artifact(p))' = BlobPath(Artifact(p))
  BY <1>2 DEF BlobPath, Artifact, Held
<1> QED
  BY <1>1, <1>2, <1>4, <1>5, <1>6 DEF Exists

\* A rename of a registering process: which names it concerns.
LEMMA RegisterNames ==
  ASSUME StoreInv, NEW p \in Proc, pc[p] \in Holding
  PROVE  /\ HeldName(p) \in Package /\ HeldVersion(p) \in Version
         /\ ManifestPart(HeldName(p), HeldVersion(p)) \in Path
         /\ ManifestPath(HeldName(p), HeldVersion(p)) \in Path
         /\ ManifestPart(HeldName(p), HeldVersion(p)) # ManifestPath(HeldName(p), HeldVersion(p))
         /\ CurrentPart(HeldName(p)) \in Path /\ CurrentPath(HeldName(p)) \in Path
         /\ CurrentPart(HeldName(p)) # CurrentPath(HeldName(p))
BY HeldFacts, PathFacts

\* An exit resets what the process held.
LEMMA ExitFacts ==
  ASSUME StoreInv, NEW p \in Proc, NEW code \in Codes, Exit(p, code)
  PROVE  /\ Goto(p, "idle") /\ UNCHANGED <<registry, sound, ranges, job>>
         /\ stray' \in SUBSET Proc
         /\ man' \in [Proc -> Seq(Manifest)] /\ idx' \in [Proc -> Nat \ {0}]
         /\ off' \in [Proc -> 1 .. Chunks] /\ rc' \in [Proc -> Codes]
         /\ \A q \in Proc \ {p} : man'[q] = man[q] /\ idx'[q] = idx[q]
         /\ idx'[p] = 1
BY SizeAssumption, Texts DEF Exit, StoreInv, TypeOK, Codes

\* Steps that change names.
LEMMA MoveActions ==
  ASSUME StoreInv, NEW p \in Proc,
         \/ DiscardPart(p) \/ LinkBlob(p) \/ UnlinkPart(p)
         \/ PublishManifest(p) \/ SelectVersion(p)
  PROVE  StoreInv'
<1>1. CASE DiscardPart(p)
  <2>1. pc[p] = "discard" /\ RemovePart(Artifact(p)) /\ Exit(p, 5) /\ Artifact(p) \in Blob
    BY <1>1, HeldFacts DEF DiscardPart, Holding, Labels
  <2>2. \A k \in Package : file'[CachePath(k)] = file[CachePath(k)]
    BY <2>1, RemoveFacts, PathFacts
  <2>3. 5 \in Codes
    BY DEF Codes
  <2> QED
    BY <2>1, <2>2, <2>3, RemoveFacts, ExitFacts, MoveStep DEF Labels, Holding
<1>2. CASE LinkBlob(p)
  <2>1. \A k \in Package : file'[CachePath(k)] = file[CachePath(k)]
    BY <1>2, LinkFacts, PathFacts
  <2>2. /\ fd' \in [Proc -> Path \cup {NoFile, Orphan}] /\ man' \in [Proc -> Seq(Manifest)]
        /\ idx' \in [Proc -> Nat \ {0}] /\ off' \in [Proc -> 1 .. Chunks]
        /\ rc' \in [Proc -> Codes] /\ \A q \in Proc : Moved(q)
        /\ UNCHANGED <<registry, sound, ranges, job>> /\ stray' \in SUBSET Proc
    BY <1>2, LinkFacts DEF StoreInv, TypeOK, Moved, env
  <2>3. man'[p] # <<>> /\ idx'[p] \in 1 .. Len(ArtifactsOf[man'[p][1]])
    BY <1>2, LinkFacts DEF StoreInv, Busy, Holding, Labels, Held
  <2> QED
    BY <1>2, <2>1, <2>2, <2>3, LinkFacts, MoveStep DEF Labels, Holding
<1>3. CASE UnlinkPart(p)
  <2>1. /\ pc[p] = "unlink" /\ pc[p] \in Holding /\ RemovePart(Artifact(p)) /\ AfterArtifact(p)
        /\ UNCHANGED <<env, job, man, off, rc>> /\ Artifact(p) \in Blob
    BY <1>3, HeldFacts DEF UnlinkPart, Holding, Labels
  <2>2. \A k \in Package : file'[CachePath(k)] = file[CachePath(k)]
    BY <2>1, RemoveFacts, PathFacts
  <2>3. PICK label \in {"artifact", "copy"} :
          /\ Goto(p, label)
          /\ idx' \in [Proc -> Nat \ {0}] /\ \A q \in Proc \ {p} : idx'[q] = idx[q]
          /\ idx'[p] \in 1 .. Len(ArtifactsOf[Held(p)])
    BY <2>1, AfterArtifactFacts
  <2>4. /\ man' \in [Proc -> Seq(Manifest)] /\ off' \in [Proc -> 1 .. Chunks]
        /\ rc' \in [Proc -> Codes]
        /\ man'[p] # <<>> /\ idx'[p] \in 1 .. Len(ArtifactsOf[man'[p][1]])
        /\ UNCHANGED <<registry, sound, ranges, job>> /\ stray' \in SUBSET Proc
    BY <2>1, <2>3 DEF StoreInv, TypeOK, Busy, Held, env
  <2> QED
    BY <2>1, <2>2, <2>3, <2>4, RemoveFacts, MoveStep DEF Labels, Holding
<1>4. CASE PublishManifest(p)
  <2> DEFINE x == ManifestPart(HeldName(p), HeldVersion(p))
             y == ManifestPath(HeldName(p), HeldVersion(p))
  <2>1. /\ pc[p] = "publish" /\ pc[p] \in Holding /\ Rename(x, y) /\ Goto(p, "current")
        /\ UNCHANGED <<env, job, man, idx, off, rc>>
    BY <1>4 DEF PublishManifest, Holding, Labels
  <2>2. /\ file' \in [Path -> Seq(Datum) \cup {Absent}] /\ linked' \in SUBSET Blob
        /\ \A z \in Path \ {x, y} : file'[z] = file[z]
        /\ fd' \in [Proc -> Path \cup {NoFile, Orphan}] /\ \A q \in Proc : Moved(q)
    BY <2>1, RegisterNames, RenameFacts
  <2>3. \A k \in Package : file'[CachePath(k)] = file[CachePath(k)]
    BY <2>1, <2>2, RegisterNames, PathFacts
  <2>4. /\ man' \in [Proc -> Seq(Manifest)] /\ idx' \in [Proc -> Nat \ {0}]
        /\ off' \in [Proc -> 1 .. Chunks] /\ rc' \in [Proc -> Codes]
        /\ man'[p] # <<>> /\ idx'[p] \in 1 .. Len(ArtifactsOf[man'[p][1]])
        /\ UNCHANGED <<registry, sound, ranges, job>> /\ stray' \in SUBSET Proc
    BY <2>1 DEF StoreInv, TypeOK, Busy, Held, env
  <2> HIDE DEF x, y
  <2> QED
    BY <2>1, <2>2, <2>3, <2>4, MoveStep DEF Labels, Holding
<1>5. CASE SelectVersion(p)
  <2> DEFINE x == CurrentPart(HeldName(p))
             y == CurrentPath(HeldName(p))
  <2>1. pc[p] = "select" /\ pc[p] \in Holding /\ Rename(x, y) /\ Exit(p, 0)
    BY <1>5 DEF SelectVersion, Holding, Labels
  <2>2. /\ file' \in [Path -> Seq(Datum) \cup {Absent}] /\ linked' \in SUBSET Blob
        /\ \A z \in Path \ {x, y} : file'[z] = file[z]
        /\ fd' \in [Proc -> Path \cup {NoFile, Orphan}] /\ \A q \in Proc : Moved(q)
    BY <2>1, RegisterNames, RenameFacts
  <2>3. \A k \in Package : file'[CachePath(k)] = file[CachePath(k)]
    BY <2>1, <2>2, RegisterNames, PathFacts
  <2>4. 0 \in Codes
    BY DEF Codes
  <2> HIDE DEF x, y
  <2> QED
    BY <2>1, <2>2, <2>3, <2>4, ExitFacts, MoveStep DEF Labels, Holding
<1> QED
  BY <1>1, <1>2, <1>3, <1>4, <1>5

\* Steps that end a process and leave the files.
LEMMA ExitActions ==
  ASSUME StoreInv, NEW p \in Proc,
         \/ RejectManifest(p) \/ BlobRefused(p) \/ LinkNoPart(p) \/ RecheckRefused(p)
         \/ RenameNoPart(p) \/ CurlCannotResume(p) \/ StrayEnds(p)
         \/ CurlFails(p) \/ StoreFails(p) \/ Crash(p)
         \/ pc[p] \in {"artifact", "recheck"} /\ ExitOnly(p, 5)
         \/ pc[p] = "discard" /\ ExitOnly(p, 5)
  PROVE  StoreInv'
<1>1. \E code \in Codes : ExitOnly(p, code)
  BY DEF RejectManifest, BlobRefused, LinkNoPart, RecheckRefused, RenameNoPart,
         CurlCannotResume, StrayEnds, CurlFails, StoreFails, Crash, Codes, Running
<1> QED
  BY <1>1, ExitStep

\* Whatever any number of processes do, with faults, the invariant stays.
LEMMA StoreStep == ASSUME StoreInv, [Next]_vars PROVE StoreInv'
<1>1. CASE UNCHANGED vars
  BY <1>1 DEF vars, env, disk, locals, StoreInv, TypeOK, Cached, Busy, Opened, Held, Artifact,
              HeldName, HeldVersion
<1>2. ASSUME NEW p \in Proc, CrashAlone(p) PROVE StoreInv'
  <2>1. /\ UNCHANGED <<registry, sound, ranges>> /\ stray' \in SUBSET Proc
        /\ UNCHANGED <<file, linked, pc, job, man, idx, fd, off, rc>>
    BY <1>2 DEF CrashAlone, StoreInv, TypeOK, disk, locals
  <2> QED
    BY <2>1 DEF StoreInv, TypeOK, Cached, Busy, Opened, Held, Artifact, HeldName, HeldVersion
<1>3. CASE Settle
  <2>1. registry' \in [Pulled -> SUBSET Manifest]
    BY <1>3 DEF Settle
  <2>2. /\ sound' \in BOOLEAN /\ ranges' \in BOOLEAN /\ stray' = stray
        /\ UNCHANGED <<file, linked, pc, job, man, idx, fd, off, rc>>
    BY <1>3 DEF Settle, disk, locals
  <2> QED
    BY <2>1, <2>2 DEF StoreInv, TypeOK, Cached, Busy, Opened, Held, Artifact, HeldName, HeldVersion
<1>4. ASSUME NEW p \in Proc, \E k \in Pulled : StartPull(p, k) PROVE StoreInv'
  BY <1>4, QuietActions
<1>5. ASSUME NEW p \in Proc, Pull(p) PROVE StoreInv'
  BY <1>5, QuietActions, WriteActions, ResumeAction, MoveActions, ExitActions DEF Pull
<1>6. ASSUME NEW p \in Proc, Fault(p) PROVE StoreInv'
  BY <1>2, <1>6, QuietActions, ExitActions DEF Fault, ReadFails, UnlinkFails
<1> QED
  BY <1>1, <1>2, <1>3, <1>4, <1>5, <1>6 DEF Next

LEMMA StoreInvariant == Spec => []StoreInv
<1>1. Init => StoreInv
  BY InitStep
<1>2. StoreInv /\ [Next]_vars => StoreInv'
  BY StoreStep
<1> QED
  BY <1>1, <1>2, PTL DEF Spec

\* Every file, descriptor and exit code of the store keeps its type, for any
\* number of processes, packages and faults.
THEOREM StoreTypeCorrect == Spec => []TypeOK
<1>1. StoreInv => TypeOK
  BY DEF StoreInv
<1> QED
  BY <1>1, StoreInvariant, PTL

-----------------------------------------------------------------------------
(* What a step does to the files, and what it never does.                  *)

\* A curl child, and nobody else, writes to the files of a blob.
CurlWrites ==
  \E p \in Proc, c \in Seq(Datum) :
    \E x \in {PartPath(Artifact(p)), BlobPath(Artifact(p)), Orphan} :
      /\ pc[p] \in {"open", "write", "append"} /\ Artifact(p) \in Blob
      /\ pc[p] = "open" => x = PartPath(Artifact(p))
      /\ pc[p] # "open" => x = fd[p]
      /\ file' = Stored(x, c)

\* Other files that are written
OtherWrites ==
  \E x \in Path \cup {Orphan}, c \in Seq(Datum) :
    /\ x = Orphan \/ x[1] \notin {"part", "blob"}
    /\ file' = Stored(x, c)

PartRemoved ==
  \E b \in Blob : \A x \in Path : x # PartPath(b) => file'[x] = file[x]

Renamed ==
  \E x, y \in Path :
    /\ x[1] \in {"manifest.part", "current.part"} /\ y[1] \in {"manifest", "current"}
    /\ Exists(x) /\ file'[y] = file[x]
    /\ \A z \in Path \ {x, y} : file'[z] = file[z]

\* The ways in which a step changes files
LEMMA FileChanges ==
  ASSUME StoreInv, [Next]_vars
  PROVE  file' = file \/ CurlWrites \/ OtherWrites \/ PartRemoved \/ Renamed
           \/ \E p \in Proc : LinkBlob(p)
<1>0. TypeOK
  BY DEF StoreInv
<1>1. CASE UNCHANGED vars \/ Settle \/ \E p \in Proc, k \in Pulled : StartPull(p, k)
  BY <1>1 DEF vars, disk, Settle, StartPull, NoFiles
<1>2. ASSUME NEW p \in Proc, Fault(p) PROVE file' = file
  BY <1>2 DEF Fault, CurlFails, ReadFails, UnlinkFails, StoreFails, Crash, CrashAlone,
       ExitOnly, NoFiles, disk
<1>3. ASSUME NEW p \in Proc,
             \/ ParseManifest(p) \/ RejectManifest(p) \/ BlobMissing(p) \/ BlobCached(p)
             \/ BlobRefused(p) \/ CurlResume(p) \/ CurlFresh(p) \/ VerifyPart(p)
             \/ LinkNoPart(p) \/ LinkLostRace(p) \/ RecheckBlob(p) \/ RecheckRefused(p)
             \/ RenameNoPart(p) \/ CurlCannotResume(p) \/ StrayEnds(p)
      PROVE  file' = file
  BY <1>3 DEF ParseManifest, RejectManifest, BlobMissing, BlobCached, BlobRefused, CurlResume,
              CurlFresh, VerifyPart, LinkNoPart, LinkLostRace, RecheckBlob, RecheckRefused,
              RenameNoPart, CurlCannotResume, StrayEnds, ExitOnly, NoFiles, disk
<1>4. ASSUME NEW p \in Proc, CurlOpen(p) \/ CurlChunk(p) PROVE CurlWrites
  <2>1. /\ pc[p] \in {"open", "write", "append"} /\ pc[p] \in Holding
        /\ Artifact(p) \in Blob
    BY <1>4, HeldFacts DEF CurlOpen, CurlChunk, Holding, Labels
  <2>2. CASE CurlOpen(p)
    BY <2>1, <2>2, Texts DEF CurlOpen, OpenTruncated, CurlWrites
  <2>3. CASE CurlChunk(p)
    <3>1. fd[p] \in {PartPath(Artifact(p)), BlobPath(Artifact(p)), Orphan}
      BY <2>3 DEF CurlChunk, StoreInv, Opened
    <3>2. PICK c \in {off[p]} \cup (IF sound THEN {} ELSE {Damaged}) :
            LET old == IF fd[p] = Orphan THEN <<>> ELSE Read(fd[p])
                new == IF pc[p] = "append" THEN Append(old, c)
                                           ELSE WriteAt(old, off[p], c)
            IN file' = Stored(fd[p], new)
      BY <2>3 DEF CurlChunk
    <3> DEFINE old == IF fd[p] = Orphan THEN <<>> ELSE Read(fd[p])
               new == IF pc[p] = "append" THEN Append(old, c) ELSE WriteAt(old, off[p], c)
    <3>3. old \in Seq(Datum)
      BY <1>0, <2>1, <3>1, PathFacts, Texts DEF Read, Exists, TypeOK
    <3>4. c \in 0 .. Chunks /\ off[p] \in 1 .. Chunks
      BY <1>0, <3>2, SizeAssumption DEF Damaged, TypeOK
    <3>5. new \in Seq(Datum)
      BY <3>3, <3>4, ChunkFacts
    <3>6. file' = Stored(fd[p], new) /\ pc[p] # "open"
      BY <2>3, <3>2 DEF CurlChunk
    <3> HIDE DEF new
    <3> QED
      BY <2>1, <3>1, <3>5, <3>6 DEF CurlWrites
  <2> QED
    BY <1>4, <2>2, <2>3
<1>5. ASSUME NEW p \in Proc, FetchOpen(p) \/ FetchWrite(p) PROVE OtherWrites
  <2>1. /\ CachePath(job[p]) \in Path /\ CachePath(job[p])[1] = "cache"
        /\ <<>> \in Seq(Datum) /\ man[p] \in Seq(Datum)
    BY <1>0, PulledAssumption, PathFacts, Texts DEF TypeOK
  <2>2. \E c \in Seq(Datum) : file' = Stored(CachePath(job[p]), c)
    BY <1>5, <2>1 DEF FetchOpen, FetchWrite, OpenTruncated, WriteAndClose, StoreInv, Opened
  <2> QED
    BY <2>1, <2>2 DEF OtherWrites
<1>6. ASSUME NEW p \in Proc, CopyOpen(p) \/ CopyWrite(p) PROVE OtherWrites
  <2>1. pc[p] \in Holding /\ job[p] \in Package
    BY <1>0, <1>6, PulledAssumption DEF CopyOpen, CopyWrite, Holding, Labels, TypeOK
  <2>2. Read(CachePath(job[p])) \in Seq(Datum) /\ <<>> \in Seq(Datum)
    BY <2>1, Texts DEF StoreInv, Cached, Read, Exists
  <2> DEFINE names == {ManifestPart(HeldName(p), HeldVersion(p)),
                       ManifestPath(HeldName(p), HeldVersion(p)), Orphan}
  <2>3. \A x \in names : x \in Path \cup {Orphan} /\ (x = Orphan \/ x[1] \notin {"part", "blob"})
    BY <2>1, HeldFacts, PathFacts
  <2>4. \E x \in names, c \in Seq(Datum) : file' = Stored(x, c)
    BY <1>6, <2>2 DEF CopyOpen, CopyWrite, OpenTruncated, WriteAndClose, StoreInv, Opened
  <2> QED
    BY <2>3, <2>4 DEF OtherWrites
<1>7. ASSUME NEW p \in Proc, CurrentOpen(p) \/ CurrentWrite(p) PROVE OtherWrites
  <2>1. pc[p] \in Holding
    BY <1>7 DEF CurrentOpen, CurrentWrite, Holding, Labels
  <2>2. <<HeldVersion(p)>> \in Seq(Datum) /\ <<>> \in Seq(Datum)
    BY <2>1, HeldFacts, Texts
  <2> DEFINE names == {CurrentPart(HeldName(p)), CurrentPath(HeldName(p)), Orphan}
  <2>3. \A x \in names : x \in Path \cup {Orphan} /\ (x = Orphan \/ x[1] \notin {"part", "blob"})
    BY <2>1, HeldFacts, PathFacts
  <2>4. \E x \in names, c \in Seq(Datum) : file' = Stored(x, c)
    BY <1>7, <2>2 DEF CurrentOpen, CurrentWrite, OpenTruncated, WriteAndClose, StoreInv, Opened
  <2> QED
    BY <2>3, <2>4 DEF OtherWrites
<1>8. ASSUME NEW p \in Proc, DiscardPart(p) \/ UnlinkPart(p) PROVE PartRemoved
  <2>1. RemovePart(Artifact(p)) /\ Artifact(p) \in Blob
    BY <1>8, HeldFacts DEF DiscardPart, UnlinkPart, Holding, Labels
  <2> QED
    BY <2>1, RemoveFacts DEF PartRemoved
<1>9. ASSUME NEW p \in Proc, PublishManifest(p) PROVE Renamed
  <2> DEFINE x == ManifestPart(HeldName(p), HeldVersion(p))
             y == ManifestPath(HeldName(p), HeldVersion(p))
  <2>1. pc[p] \in Holding /\ Rename(x, y) /\ Exists(x)
    BY <1>9 DEF PublishManifest, Holding, Labels
  <2>2. x \in Path /\ y \in Path /\ x[1] = "manifest.part" /\ y[1] = "manifest"
    BY <2>1, HeldFacts, PathFacts
  <2>3. file'[y] = file[x] /\ \A z \in Path \ {x, y} : file'[z] = file[z]
    BY <2>1, RegisterNames, RenameFacts
  <2> HIDE DEF x, y
  <2> QED
    BY <2>1, <2>2, <2>3 DEF Renamed
<1>10. ASSUME NEW p \in Proc, SelectVersion(p) PROVE Renamed
  <2> DEFINE x == CurrentPart(HeldName(p))
             y == CurrentPath(HeldName(p))
  <2>1. pc[p] \in Holding /\ Rename(x, y) /\ Exists(x)
    BY <1>10 DEF SelectVersion, Holding, Labels
  <2>2. x \in Path /\ y \in Path /\ x[1] = "current.part" /\ y[1] = "current"
    BY <2>1, HeldFacts, PathFacts
  <2>3. file'[y] = file[x] /\ \A z \in Path \ {x, y} : file'[z] = file[z]
    BY <2>1, RegisterNames, RenameFacts
  <2> HIDE DEF x, y
  <2> QED
    BY <2>1, <2>2, <2>3 DEF Renamed
<1>11. ASSUME NEW p \in Proc, Pull(p)
       PROVE  file' = file \/ CurlWrites \/ OtherWrites \/ PartRemoved \/ Renamed \/ LinkBlob(p)
  BY <1>11, <1>3, <1>4, <1>5, <1>6, <1>7, <1>8, <1>9, <1>10 DEF Pull
<1> QED
  BY <1>1, <1>2, <1>11 DEF Next

\* What a reader can see under blobs/, packages/ and current stays there.
LEMMA VisibleStays ==
  ASSUME StoreInv, [Next]_vars, NEW x \in Path, x[1] \in {"blob", "manifest", "current"},
         file[x] # Absent
  PROVE  file'[x] # Absent
<1>0. TypeOK
  BY DEF StoreInv
<1>1. ASSUME NEW y, NEW c \in Seq(Datum), file' = Stored(y, c) PROVE file'[x] # Absent
  BY <1>0, <1>1, StoredFacts, SentinelAssumption
<1>2. CASE CurlWrites \/ OtherWrites
  BY <1>1, <1>2 DEF CurlWrites, OtherWrites
<1>3. CASE PartRemoved
  BY <1>3, PathFacts DEF PartRemoved
<1>4. CASE Renamed
  BY <1>4 DEF Renamed, Exists
<1>5. ASSUME NEW p \in Proc, LinkBlob(p) PROVE file'[x] # Absent
  BY <1>5, LinkFacts DEF Exists
<1> QED
  BY <1>2, <1>3, <1>4, <1>5, FileChanges

\* A blob, a manifest and `current` never vanish, whatever processes do and
\* whatever fails (rename and link of the store's final names).
THEOREM StoreKeepsInstalled == Spec => InstalledStays
<1>1. StoreInv /\ [Next]_vars =>
        [\A x \in Path :
           x[1] \in {"blob", "manifest", "current"} /\ Exists(x) => Exists(x)']_vars
  BY VisibleStays DEF Exists
<1> QED
  BY <1>1, StoreInvariant, PTL DEF Spec, InstalledStays

\* The content of an installed blob changes only by a write of a process that
\* opened it while it was staged.
THEOREM StoreNeverReplacesBlobs == Spec => BlobsNeverReplaced
<1> DEFINE Writer(b) ==
      \E p \in Proc : pc[p] \in {"open", "write", "append"} /\ Artifact(p) = b
<1>1. ASSUME StoreInv, [Next]_vars, NEW b \in Blob, file[BlobPath(b)] # Absent,
             file'[BlobPath(b)] # file[BlobPath(b)]
      PROVE  Writer(b)
  <2>0. BlobPath(b) \in Path /\ BlobPath(b)[1] = "blob" /\ TypeOK /\ linked \subseteq Blob
    BY <1>1, PathFacts DEF StoreInv, TypeOK
  <2>1. CASE CurlWrites
    <3>1. PICK p \in Proc, c \in Seq(Datum) :
            \E x \in {PartPath(Artifact(p)), BlobPath(Artifact(p)), Orphan} :
              /\ pc[p] \in {"open", "write", "append"} /\ Artifact(p) \in Blob
              /\ file' = Stored(x, c)
      BY <2>1 DEF CurlWrites
    <3>2. PICK x \in {PartPath(Artifact(p)), BlobPath(Artifact(p)), Orphan} :
            file' = Stored(x, c)
      BY <3>1
    <3>3. BlobPath(b) \in Names(x)
      BY <1>1, <2>0, <3>2, StoredFacts
    <3>4. x # Orphan
      BY <2>0, <3>3, OrphanHasNoName
    <3>5. Names(x) \subseteq {PartPath(Artifact(p)), BlobPath(Artifact(p))}
      BY <2>0, <3>1, <3>2, <3>4, NamesOfStaged
    <3>6. Artifact(p) = b
      BY <3>1, <3>3, <3>5, PathFacts
    <3> QED
      BY <3>1, <3>6
  <2>2. CASE OtherWrites
    <3>1. PICK x \in Path \cup {Orphan}, c \in Seq(Datum) :
            (x = Orphan \/ x[1] \notin {"part", "blob"}) /\ file' = Stored(x, c)
      BY <2>2 DEF OtherWrites
    <3>2. BlobPath(b) \in Names(x)
      BY <1>1, <2>0, <3>1, StoredFacts
    <3> QED
      BY <2>0, <3>1, <3>2, OneName, OrphanHasNoName
  <2>3. CASE PartRemoved
    BY <1>1, <2>3, PathFacts DEF PartRemoved
  <2>4. CASE Renamed
    BY <1>1, <2>0, <2>4 DEF Renamed
  <2>5. ASSUME NEW p \in Proc, LinkBlob(p) PROVE FALSE
    <3>1. /\ Artifact(p) \in Blob /\ file[BlobPath(Artifact(p))] = Absent
          /\ \A x \in Path : x # BlobPath(Artifact(p)) => file'[x] = file[x]
      BY <1>1, <2>5, LinkFacts DEF Exists
    <3> QED
      BY <1>1, <2>0, <3>1
  <2> QED
    BY <1>1, <2>1, <2>2, <2>3, <2>4, <2>5, FileChanges
<1>2. ASSUME NEW b \in Blob PROVE BlobPath(b)' = BlobPath(b)
  BY DEF BlobPath
<1>3. ASSUME StoreInv, [Next]_vars, NEW b \in Blob, Exists(BlobPath(b))
      PROVE  Exists(BlobPath(b))'
  <2>1. file[BlobPath(b)] # Absent /\ BlobPath(b) \in Path /\ BlobPath(b)[1] = "blob"
    BY <1>3, PathFacts DEF Exists
  <2> QED
    BY <1>2, <1>3, <2>1, VisibleStays DEF Exists
<1>4. StoreInv /\ [Next]_vars =>
        [\A b \in Blob : Exists(BlobPath(b)) =>
           /\ Exists(BlobPath(b))'
           /\ file'[BlobPath(b)] # file[BlobPath(b)] =>
                \E p \in Proc : pc[p] \in {"open", "write", "append"}
                              /\ Artifact(p) = b]_vars
  BY <1>1, <1>3 DEF Exists
<1> QED
  BY <1>4, StoreInvariant, PTL DEF Spec, BlobsNeverReplaced

-----------------------------------------------------------------------------
(* Registration happens only with every artifact in place.                 *)

\* How many artifacts a process has put, or found, in place
Done(p) ==
  IF pc[p] \in Registering THEN Len(ArtifactsOf[Held(p)])
  ELSE IF pc[p] = "unlink" THEN idx[p]
  ELSE idx[p] - 1

\* They are there.
Placed ==
  \A p \in Proc : pc[p] \in Holding =>
    \A n \in 1 .. Len(ArtifactsOf[Held(p)]) :
      n <= Done(p) => file[BlobPath(ArtifactsOf[Held(p)][n])] # Absent

\* The ways in which a step changes how far the process q is
StaysThere(q) ==
  pc[q] \in Holding /\ Held(q)' = Held(q) /\ Done(q)' = Done(q)
StartsOver(q) == idx'[q] = 1 /\ pc'[q] = "artifact"
PlacesOne(q) ==
  /\ pc[q] \in Holding /\ Held(q)' = Held(q) /\ idx'[q] = idx[q] /\ pc'[q] = "unlink"
  /\ Done(q) = idx[q] - 1 /\ (file'[BlobPath(Artifact(q))] # Absent)
GoesOn(q) ==
  /\ pc[q] \in {"artifact", "unlink"} /\ Held(q)' = Held(q)
  /\ pc[q] = "artifact" => file'[BlobPath(Artifact(q))] # Absent
  /\ Done(q)' = idx[q] /\ pc'[q] \in {"artifact", "copy"}

LEMMA VerifiedIsThere ==
  ASSUME NEW x, Verified(x) PROVE file[x] # Absent
<1>1. \A i \in 1 .. Chunks : i \in Datum
  BY SizeAssumption DEF Datum
<1>2. Genuine \in [1 .. Chunks -> Datum] /\ Chunks \in Nat
  BY <1>1, SizeAssumption DEF Genuine
<1>3. Genuine \in Seq(Datum)
  BY <1>2
<1> QED
  BY <1>3, SentinelAssumption DEF Verified

\* A step moves one process at most; one that holds a manifest moves like this.
LEMMA Progress ==
  ASSUME StoreInv, [Next]_vars, NEW q \in Proc
  PROVE  pc'[q] \notin Holding \/ StaysThere(q) \/ StartsOver(q) \/ PlacesOne(q) \/ GoesOn(q)
<1>0. /\ pc \in [Proc -> Labels] /\ man \in [Proc -> Seq(Manifest)]
      /\ idx \in [Proc -> Nat \ {0}] /\ idx[q] \in Nat
  BY DEF StoreInv, TypeOK
<1>1. ASSUME pc'[q] = pc[q], man'[q] = man[q], idx'[q] = idx[q]
      PROVE  pc'[q] \notin Holding \/ StaysThere(q)
  BY <1>1 DEF StaysThere, Done, Held
<1>2. CASE UNCHANGED vars \/ Settle
  BY <1>1, <1>2 DEF vars, locals, Settle
<1>3. ASSUME NEW p \in Proc, NEW k \in Pulled, StartPull(p, k)
      PROVE  pc'[q] \notin Holding \/ StaysThere(q)
  BY <1>0, <1>1, <1>3 DEF StartPull, Goto, Holding
<1>4. ASSUME NEW p \in Proc, NEW code, Exit(p, code)
      PROVE  pc'[q] \notin Holding \/ StaysThere(q)
  BY <1>0, <1>1, <1>4 DEF Exit, Goto, Holding
<1>5. ASSUME NEW p \in Proc, FetchOpen(p) \/ FetchWrite(p) \/ ParseManifest(p)
      PROVE  pc'[q] \notin Holding \/ StaysThere(q) \/ StartsOver(q)
  <2>1. pc[p] \notin Holding /\ idx[p] = 1
    BY <1>5 DEF FetchOpen, FetchWrite, ParseManifest, Holding, StoreInv, Busy
  <2> QED
    BY <1>0, <1>1, <1>5, <2>1 DEF FetchOpen, FetchWrite, ParseManifest, Goto, Holding, StartsOver
<1>6. ASSUME NEW p \in Proc, NEW label \in Holding, Goto(p, label), UNCHANGED <<man, idx>>,
             \/ /\ pc[p] \in Holding \ (Registering \cup {"unlink"})
                /\ label \notin Registering \cup {"unlink"}
             \/ pc[p] \in Registering /\ label \in Registering
      PROVE  pc'[q] \notin Holding \/ StaysThere(q)
  <2>1. CASE q = p
    BY <1>0, <1>6, <2>1 DEF Goto, StaysThere, Done, Held, Registering, Holding, Labels
  <2>2. CASE q # p
    BY <1>0, <1>1, <1>6, <2>2 DEF Goto
  <2> QED
    BY <2>1, <2>2
<1>7. ASSUME NEW p \in Proc,
             \/ BlobMissing(p) \/ CurlFresh(p) \/ CurlResume(p) \/ CurlOpen(p)
             \/ VerifyPart(p) \/ LinkLostRace(p)
             \/ pc[p] = "verify" /\ Goto(p, "discard") /\ UNCHANGED <<man, idx>>
             \/ CopyOpen(p) \/ CopyWrite(p) \/ PublishManifest(p)
             \/ CurrentOpen(p) \/ CurrentWrite(p)
      PROVE  pc'[q] \notin Holding \/ StaysThere(q)
  BY <1>7, <1>6 DEF BlobMissing, CurlFresh, CurlResume, CurlOpen, VerifyPart, LinkLostRace,
       CopyOpen, CopyWrite, PublishManifest, CurrentOpen, CurrentWrite, Holding, Labels,
       Registering
<1>8. ASSUME NEW p \in Proc, CurlChunk(p) PROVE pc'[q] \notin Holding \/ StaysThere(q)
  BY <1>8, <1>6, <1>1 DEF CurlChunk, Holding, Labels, Registering
<1>9. ASSUME NEW p \in Proc, pc[p] \in {"link", "recheck"}, Goto(p, "unlink"),
             UNCHANGED <<man, idx>>, file'[BlobPath(Artifact(p))] # Absent
      PROVE  pc'[q] \notin Holding \/ StaysThere(q) \/ PlacesOne(q)
  <2>1. CASE q = p
    BY <1>0, <1>9, <2>1 DEF Goto, PlacesOne, Done, Held, Registering, Holding, Labels
  <2>2. CASE q # p
    BY <1>0, <1>1, <1>9, <2>2 DEF Goto
  <2> QED
    BY <2>1, <2>2
<1>10. ASSUME NEW p \in Proc, LinkBlob(p)
       PROVE  pc'[q] \notin Holding \/ StaysThere(q) \/ PlacesOne(q)
  <2>1. /\ pc[p] = "link" /\ Goto(p, "unlink") /\ UNCHANGED <<man, idx>>
        /\ file'[BlobPath(Artifact(p))] = file[PartPath(Artifact(p))]
    BY <1>10, LinkFacts
  <2>2. file[PartPath(Artifact(p))] # Absent
    BY <1>10 DEF LinkBlob, Exists
  <2> QED
    BY <1>9, <2>1, <2>2
<1>11. ASSUME NEW p \in Proc, RecheckBlob(p)
       PROVE  pc'[q] \notin Holding \/ StaysThere(q) \/ PlacesOne(q)
  BY <1>9, <1>11, VerifiedIsThere DEF RecheckBlob, NoFiles, disk
<1>12. ASSUME NEW p \in Proc, AfterArtifact(p), UNCHANGED man, pc[p] \in {"artifact", "unlink"},
              pc[p] = "artifact" => file'[BlobPath(Artifact(p))] # Absent
       PROVE  pc'[q] \notin Holding \/ StaysThere(q) \/ GoesOn(q)
  <2>1. CASE q = p
    <3>1. pc[q] \in Holding /\ idx[q] \in 1 .. Len(ArtifactsOf[Held(q)])
            /\ Len(ArtifactsOf[Held(q)]) \in Nat
      BY <1>12, <2>1, HeldFacts DEF Holding, Labels
    <3>2. CASE idx[q] < Len(ArtifactsOf[Held(q)])
      BY <1>0, <1>12, <2>1, <3>1, <3>2
         DEF AfterArtifact, Goto, GoesOn, Done, Held, Registering
    <3>3. CASE ~(idx[q] < Len(ArtifactsOf[Held(q)]))
      BY <1>0, <1>12, <2>1, <3>1, <3>3
         DEF AfterArtifact, Goto, GoesOn, Done, Held, Registering
    <3> QED
      BY <3>2, <3>3
  <2>2. CASE q # p
    BY <1>0, <1>1, <1>12, <2>2 DEF Goto, AfterArtifact
  <2> QED
    BY <2>1, <2>2
<1>13. ASSUME NEW p \in Proc, BlobCached(p)
       PROVE  pc'[q] \notin Holding \/ StaysThere(q) \/ GoesOn(q)
  BY <1>12, <1>13, VerifiedIsThere DEF BlobCached, NoFiles, disk
<1>14. ASSUME NEW p \in Proc, pc[p] = "unlink", AfterArtifact(p), UNCHANGED man
       PROVE  pc'[q] \notin Holding \/ StaysThere(q) \/ GoesOn(q)
  BY <1>12, <1>14
<1>15. ASSUME NEW p \in Proc,
              \/ RejectManifest(p) \/ BlobRefused(p) \/ LinkNoPart(p) \/ RecheckRefused(p)
              \/ RenameNoPart(p) \/ CurlCannotResume(p) \/ StrayEnds(p) \/ CurlFails(p)
              \/ StoreFails(p) \/ Crash(p) \/ DiscardPart(p) \/ SelectVersion(p)
       PROVE  pc'[q] \notin Holding \/ StaysThere(q)
  BY <1>4, <1>15 DEF RejectManifest, BlobRefused, LinkNoPart, RecheckRefused, RenameNoPart,
       CurlCannotResume, StrayEnds, CurlFails, StoreFails, Crash, DiscardPart, SelectVersion, ExitOnly
<1>16. ASSUME NEW p \in Proc, Pull(p)
       PROVE  pc'[q] \notin Holding \/ StaysThere(q) \/ StartsOver(q) \/ PlacesOne(q) \/ GoesOn(q)
  BY <1>5, <1>7, <1>8, <1>10, <1>11, <1>13, <1>14, <1>15, <1>16 DEF Pull, UnlinkPart
<1>17. ASSUME NEW p \in Proc, Fault(p)
       PROVE  pc'[q] \notin Holding \/ StaysThere(q) \/ GoesOn(q)
  <2>1. ASSUME CrashAlone(p) PROVE pc'[q] \notin Holding \/ StaysThere(q)
    BY <1>1, <2>1 DEF CrashAlone, locals
  <2> QED
    BY <1>4, <1>7, <1>14, <1>15, <1>17, <2>1 DEF Fault, ReadFails, UnlinkFails, ExitOnly
<1> QED
  BY <1>2, <1>3, <1>16, <1>17 DEF Next

LEMMA PlacedStep == ASSUME StoreInv, Placed, [Next]_vars PROVE Placed'
<1> SUFFICES ASSUME NEW q \in Proc, pc'[q] \in Holding,
                    NEW n \in 1 .. Len(ArtifactsOf[Held(q)'])
             PROVE  n <= Done(q)' => file'[BlobPath(ArtifactsOf[Held(q)'][n])] # Absent
  BY DEF Placed, BlobPath
<1>1. ASSUME NEW b \in Blob, file[BlobPath(b)] # Absent PROVE file'[BlobPath(b)] # Absent
  BY <1>1, PathFacts, VisibleStays
<1>2. ASSUME pc[q] \in Holding, Held(q)' = Held(q), n <= Done(q)
      PROVE  file'[BlobPath(ArtifactsOf[Held(q)'][n])] # Absent
  <2>1. ArtifactsOf[Held(q)][n] \in Blob
    BY <1>2, HeldFacts
  <2> QED
    BY <1>1, <1>2, <2>1 DEF Placed
<1>3. CASE StaysThere(q)
  BY <1>2, <1>3 DEF StaysThere
<1>4. CASE StartsOver(q)
  BY <1>4 DEF StartsOver, Done, Registering
<1>5. CASE PlacesOne(q)
  <2>1. Done(q)' = idx[q] /\ idx[q] \in Nat
    BY <1>5 DEF PlacesOne, Done, Registering, StoreInv, TypeOK
  <2>2. CASE n = idx[q]
    BY <1>5, <2>2 DEF PlacesOne, Artifact
  <2>3. CASE n < idx[q]
    BY <1>2, <1>5, <2>1, <2>3 DEF PlacesOne
  <2> QED
    BY <2>1, <2>2, <2>3
<1>6. CASE GoesOn(q)
  <2>1. Done(q)' = idx[q] /\ idx[q] \in Nat /\ pc[q] \in Holding
    BY <1>6 DEF GoesOn, StoreInv, TypeOK, Holding, Labels
  <2>2. CASE n = idx[q] /\ pc[q] = "artifact"
    BY <1>6, <2>2 DEF GoesOn, Artifact
  <2>3. CASE n < idx[q] \/ (n = idx[q] /\ pc[q] = "unlink")
    <3>1. n <= Done(q)
      BY <1>6, <2>1, <2>3 DEF GoesOn, Done, Registering
    <3> QED
      BY <1>2, <1>6, <2>1, <3>1 DEF GoesOn
  <2> QED
    BY <1>6, <2>1, <2>2, <2>3 DEF GoesOn
<1> QED
  BY <1>3, <1>4, <1>5, <1>6, Progress

LEMMA PlacedInvariant == Spec => []Placed
<1>1. Init => Placed
  BY DEF Init, Placed, Holding
<1> QED
  BY <1>1, PlacedStep, StoreInvariant, PTL DEF Spec

\* A process that registers a package has every artifact in the store, however
\* many processes install, discard and crash beside it.
THEOREM StoreRegistersWithBlobs == Spec => []RegistersWithBlobs
<1>1. StoreInv /\ Placed => RegistersWithBlobs
  <2> SUFFICES ASSUME StoreInv, Placed, NEW p \in Proc, pc[p] \in Registering,
                      NEW n \in 1 .. Len(ArtifactsOf[Held(p)])
               PROVE  file[BlobPath(ArtifactsOf[Held(p)][n])] # Absent
    BY DEF RegistersWithBlobs, Registering, Exists
  <2>1. pc[p] \in Holding /\ Len(ArtifactsOf[Held(p)]) \in Nat
    BY HeldFacts DEF Registering, Holding, Labels
  <2> QED
    BY <2>1 DEF Placed, Done
<1> QED
  BY <1>1, PlacedInvariant, StoreInvariant, PTL

-----------------------------------------------------------------------------
(* When nothing overlaps: blobs.                                           *)

\* From the moment a blob is found missing until it is linked
Fetching == {"curl", "open", "write", "append", "verify", "discard", "link"}

\* What a process that fetches a blob relies on
Alone(p) ==
  /\ pc[p] \in Fetching => file[BlobPath(Artifact(p))] = Absent
  /\ pc[p] \in {"write", "append"} => fd[p] = PartPath(Artifact(p))
  /\ pc[p] = "link" => file[PartPath(Artifact(p))] = Genuine
  /\ pc[p] # "recheck"

\* A blob in the store is genuine, and linked only when it is there.
BlobFiles ==
  /\ \A b \in Blob : file[BlobPath(b)] \in {Absent, Genuine}
  /\ \A b \in linked : file[BlobPath(b)] # Absent

Staging == BlobFiles /\ \A p \in Proc : Alone(p)

\* Blobs change by installation only.
LEMMA OnlyLinkInstalls ==
  ASSUME StoreInv, Staging, [Next]_vars, NEW b \in Blob
  PROVE  \/ file'[BlobPath(b)] = file[BlobPath(b)]
         \/ /\ file[BlobPath(b)] = Absent /\ file'[BlobPath(b)] = Genuine
            /\ \E p \in Proc : LinkBlob(p) /\ Artifact(p) = b
<1>0. BlobPath(b) \in Path /\ BlobPath(b)[1] = "blob" /\ TypeOK /\ linked \subseteq Blob
  BY PathFacts DEF StoreInv, TypeOK
<1>1. CASE CurlWrites
  <2>1. PICK p \in Proc, c \in Seq(Datum) :
          /\ pc[p] \in {"open", "write", "append"} /\ Artifact(p) \in Blob
          /\ file' = Stored(PartPath(Artifact(p)), c)
    BY <1>1 DEF CurlWrites, Staging, Alone
  <2>2. Artifact(p) \notin linked
    BY <2>1 DEF Staging, Alone, BlobFiles, Fetching
  <2>3. Names(PartPath(Artifact(p))) = {PartPath(Artifact(p))}
    BY <1>0, <2>1, <2>2, NamesOfStaged
  <2>4. BlobPath(b) # PartPath(Artifact(p))
    BY <2>1, PathFacts
  <2> QED
    BY <1>0, <2>1, <2>3, <2>4, StoredFacts
<1>2. CASE OtherWrites
  <2>1. PICK x \in Path \cup {Orphan}, c \in Seq(Datum) :
          (x = Orphan \/ x[1] \notin {"part", "blob"}) /\ file' = Stored(x, c)
    BY <1>2 DEF OtherWrites
  <2>2. BlobPath(b) \notin Names(x)
    BY <1>0, <2>1, OneName, OrphanHasNoName
  <2> QED
    BY <1>0, <2>1, <2>2, StoredFacts
<1>3. CASE PartRemoved
  BY <1>3, PathFacts DEF PartRemoved
<1>4. CASE Renamed
  BY <1>0, <1>4 DEF Renamed
<1>5. ASSUME NEW p \in Proc, LinkBlob(p)
      PROVE  \/ file'[BlobPath(b)] = file[BlobPath(b)]
             \/ /\ file[BlobPath(b)] = Absent /\ file'[BlobPath(b)] = Genuine
                /\ Artifact(p) = b
  <2>1. CASE Artifact(p) = b
    BY <1>5, <2>1, LinkFacts DEF Exists, Staging, Alone
  <2>2. CASE Artifact(p) # b
    <3>1. BlobPath(b) # BlobPath(Artifact(p))
      BY <1>5, <2>2, LinkFacts, PathFacts
    <3> QED
      BY <1>0, <1>5, <3>1, LinkFacts
  <2> QED
    BY <2>1, <2>2
<1> QED
  BY <1>1, <1>2, <1>3, <1>4, <1>5, FileChanges

\* Which blobs have two names changes with link and unlink.
LEMMA LinkedChanges ==
  ASSUME [Next]_vars
  PROVE  linked' \subseteq linked \/ \E p \in Proc : LinkBlob(p)
<1>1. CASE UNCHANGED vars \/ Settle \/ \E p \in Proc, k \in Pulled : StartPull(p, k)
  BY <1>1 DEF vars, disk, Settle, StartPull, NoFiles
<1>2. ASSUME NEW p \in Proc, Fault(p) PROVE linked' = linked
  BY <1>2 DEF Fault, CurlFails, ReadFails, UnlinkFails, StoreFails, Crash, CrashAlone,
       ExitOnly, NoFiles, disk
<1>3. ASSUME NEW p \in Proc,
             \/ ParseManifest(p) \/ RejectManifest(p) \/ BlobMissing(p) \/ BlobCached(p)
             \/ BlobRefused(p) \/ CurlResume(p) \/ CurlFresh(p) \/ VerifyPart(p)
             \/ LinkNoPart(p) \/ LinkLostRace(p) \/ RecheckBlob(p) \/ RecheckRefused(p)
             \/ RenameNoPart(p) \/ CurlCannotResume(p) \/ StrayEnds(p)
      PROVE  linked' = linked
  BY <1>3 DEF ParseManifest, RejectManifest, BlobMissing, BlobCached, BlobRefused, CurlResume,
              CurlFresh, VerifyPart, LinkNoPart, LinkLostRace, RecheckBlob, RecheckRefused,
              RenameNoPart, CurlCannotResume, StrayEnds, ExitOnly, NoFiles, disk
<1>4. ASSUME NEW p \in Proc,
             \/ FetchOpen(p) \/ FetchWrite(p) \/ CurlOpen(p) \/ CurlChunk(p) \/ CopyOpen(p)
             \/ CopyWrite(p) \/ CurrentOpen(p) \/ CurrentWrite(p)
             \/ PublishManifest(p) \/ SelectVersion(p)
      PROVE  linked' = linked
  BY <1>4 DEF FetchOpen, FetchWrite, CurlOpen, CurlChunk, CopyOpen, CopyWrite, CurrentOpen,
              CurrentWrite, PublishManifest, SelectVersion, OpenTruncated, WriteAndClose, Rename
<1>5. ASSUME NEW p \in Proc, DiscardPart(p) \/ UnlinkPart(p) PROVE linked' \subseteq linked
  BY <1>5 DEF DiscardPart, UnlinkPart, RemovePart
<1> QED
  BY <1>1, <1>2, <1>3, <1>4, <1>5 DEF Next, Pull

LEMMA BlobFilesStep == ASSUME StoreInv, Staging, [Next]_vars PROVE BlobFiles'
<1>1. \A b \in Blob : file'[BlobPath(b)] \in {Absent, Genuine}
  BY OnlyLinkInstalls DEF Staging, BlobFiles
<1>2. ASSUME NEW b \in linked' PROVE file'[BlobPath(b)] # Absent
  <2>1. CASE b \in linked
    <3>1. b \in Blob /\ file[BlobPath(b)] # Absent
      BY <2>1 DEF Staging, BlobFiles, StoreInv, TypeOK
    <3> QED
      BY <3>1, PathFacts, VisibleStays
  <2>2. CASE b \notin linked
    <3>1. PICK p \in Proc : LinkBlob(p)
      BY <1>2, <2>2, LinkedChanges
    <3>2. b = Artifact(p) /\ file[PartPath(Artifact(p))] # Absent
      BY <1>2, <2>2, <3>1 DEF LinkBlob, Exists
    <3> QED
      BY <3>1, <3>2, LinkFacts
  <2> QED
    BY <2>1, <2>2
<1> QED
  BY <1>1, <1>2 DEF BlobFiles, BlobPath

\* The one process that fetches keeps what it relies on.
LEMMA AloneStep ==
  ASSUME SingleWriter, StoreInv, Staging, [Next]_vars, NEW p \in Proc
  PROVE  Alone(p)'
<1>0. /\ pc \in [Proc -> Labels] /\ fd \in [Proc -> Path \cup {NoFile, Orphan}]
      /\ \A q \in Proc : q = p
  BY DEF StoreInv, TypeOK, SingleWriter
<1>1. ASSUME pc[p] \in Fetching, pc'[p] \in Fetching, man'[p] = man[p], idx'[p] = idx[p]
      PROVE  Artifact(p)' = Artifact(p) /\ file'[BlobPath(Artifact(p)')] = Absent
  <2>1. Artifact(p)' = Artifact(p) /\ Artifact(p) \in Blob /\ file[BlobPath(Artifact(p))] = Absent
    BY <1>1, HeldFacts DEF Artifact, Held, Fetching, Holding, Labels, Staging, Alone
  <2>2. ASSUME NEW q \in Proc, LinkBlob(q) PROVE FALSE
    BY <1>0, <1>1, <2>2, LinkFacts DEF Goto, Fetching
  <2> QED
    BY <2>1, <2>2, OnlyLinkInstalls
<1>2. CASE UNCHANGED vars \/ Settle
  <2>1. UNCHANGED <<file, pc, man, idx, fd>>
    BY <1>2 DEF vars, disk, locals, Settle
  <2> QED
    BY <2>1 DEF Staging, Alone, Artifact, Held, PartPath, BlobPath
<1>3. ASSUME pc'[p] \notin Fetching, pc'[p] # "recheck" PROVE Alone(p)'
  BY <1>3 DEF Alone, Fetching
<1>4. ASSUME NEW k \in Pulled, StartPull(p, k) PROVE Alone(p)'
  BY <1>0, <1>3, <1>4 DEF StartPull, Goto, Fetching
<1>5. ASSUME NEW code, Exit(p, code) PROVE Alone(p)'
  BY <1>0, <1>3, <1>5 DEF Exit, Goto, Fetching
<1>6. ASSUME \/ FetchOpen(p) \/ FetchWrite(p) \/ ParseManifest(p) \/ RecheckBlob(p) \/ LinkBlob(p)
             \/ CopyOpen(p) \/ CopyWrite(p) \/ PublishManifest(p)
             \/ CurrentOpen(p) \/ CurrentWrite(p)
             \/ AfterArtifact(p)
      PROVE  Alone(p)'
  BY <1>0, <1>3, <1>6 DEF FetchOpen, FetchWrite, ParseManifest, RecheckBlob, LinkBlob, CopyOpen,
       CopyWrite, PublishManifest, CurrentOpen, CurrentWrite, AfterArtifact, Goto, Fetching
<1>7. CASE BlobMissing(p)
  <2>1. /\ file[BlobPath(Artifact(p))] = Absent /\ pc'[p] = "curl"
        /\ UNCHANGED <<man, idx, file>>
    BY <1>0, <1>7 DEF BlobMissing, Exists, Goto, NoFiles, disk
  <2> QED
    BY <2>1 DEF Alone, Artifact, Held, BlobPath
<1>8. ASSUME NEW label \in {"open", "verify", "discard"}, pc[p] \in Fetching, Goto(p, label),
             UNCHANGED <<man, idx>>
      PROVE  Alone(p)'
  <2>1. pc'[p] = label /\ file'[BlobPath(Artifact(p)')] = Absent
    BY <1>0, <1>1, <1>8 DEF Goto, Fetching
  <2> QED
    BY <2>1 DEF Alone, Fetching, BlobPath
<1>9. ASSUME pc[p] \in Fetching, pc'[p] \in {"write", "append"}, UNCHANGED <<man, idx>>,
             fd'[p] = PartPath(Artifact(p))
      PROVE  Alone(p)'
  <2>1. file'[BlobPath(Artifact(p)')] = Absent /\ Artifact(p)' = Artifact(p)
    BY <1>1, <1>9 DEF Fetching
  <2> QED
    BY <1>9, <2>1 DEF Alone, Fetching, BlobPath, PartPath
<1>10. CASE CurlFresh(p)
  BY <1>8, <1>10 DEF CurlFresh, Fetching
<1>11. CASE CurlResume(p)
  <2>1. pc[p] = "curl" /\ UNCHANGED <<man, idx>>
    BY <1>11 DEF CurlResume
  <2>2. \/ Goto(p, "verify")
        \/ Goto(p, "append") /\ fd' = [fd EXCEPT ![p] = PartPath(Artifact(p))]
    BY <1>11 DEF CurlResume
  <2> QED
    BY <1>0, <1>8, <1>9, <2>1, <2>2 DEF Goto, Fetching
<1>12. CASE CurlOpen(p)
  BY <1>0, <1>9, <1>12 DEF CurlOpen, OpenTruncated, Goto, Fetching
<1>13. CASE CurlChunk(p)
  <2>1. pc[p] \in {"write", "append"} /\ UNCHANGED <<man, idx>> /\ fd[p] = PartPath(Artifact(p))
    BY <1>13 DEF CurlChunk, Staging, Alone
  <2>2. UNCHANGED <<pc, fd>> \/ Goto(p, "verify")
    BY <1>13 DEF CurlChunk
  <2> QED
    BY <1>8, <1>9, <2>1, <2>2 DEF Fetching
<1>14. CASE VerifyPart(p)
  <2>1. pc[p] = "verify" /\ UNCHANGED <<man, idx, file>>
    BY <1>14 DEF VerifyPart, NoFiles, disk
  <2>2. CASE Verified(PartPath(Artifact(p)))
    <3>1. pc'[p] = "link" /\ file'[BlobPath(Artifact(p)')] = Absent /\ Artifact(p)' = Artifact(p)
      BY <1>0, <1>1, <1>14, <2>1, <2>2 DEF VerifyPart, Goto, Fetching
    <3> QED
      BY <2>1, <2>2, <3>1 DEF Alone, Verified, PartPath, BlobPath, Fetching
  <2>3. CASE ~Verified(PartPath(Artifact(p)))
    BY <1>8, <1>14, <2>1, <2>3 DEF VerifyPart, Fetching
  <2> QED
    BY <2>2, <2>3
<1>15. CASE LinkLostRace(p)
  BY <1>15 DEF LinkLostRace, Exists, Staging, Alone, Fetching
<1>16. CASE Pull(p)
  BY <1>5, <1>6, <1>7, <1>10, <1>11, <1>12, <1>13, <1>14, <1>15, <1>16
     DEF Pull, RejectManifest, BlobCached, BlobRefused, DiscardPart, LinkNoPart, RecheckRefused,
         UnlinkPart, SelectVersion, RenameNoPart, CurlCannotResume, StrayEnds, ExitOnly
<1>17. CASE Fault(p)
  <2>1. ASSUME CrashAlone(p) PROVE Alone(p)'
    <3>1. UNCHANGED <<file, pc, man, idx, fd>>
      BY <2>1 DEF CrashAlone, disk, locals
    <3> QED
      BY <3>1 DEF Staging, Alone, Artifact, Held, PartPath, BlobPath
  <2> QED
    BY <1>5, <1>6, <1>8, <1>17, <2>1
       DEF Fault, CurlFails, ReadFails, UnlinkFails, StoreFails, Crash, ExitOnly, Fetching
<1> QED
  BY <1>0, <1>2, <1>4, <1>16, <1>17 DEF Next

LEMMA StagingInvariant == ASSUME SingleWriter PROVE Spec => []Staging
<1>1. Init => Staging
  BY PathFacts DEF Init, Staging, BlobFiles, Alone, Fetching
<1>2. StoreInv /\ Staging /\ [Next]_vars => Staging'
  <2>1. ASSUME StoreInv, Staging, [Next]_vars PROVE Staging'
    <3>1. \A p \in Proc : Alone(p)'
      BY <2>1, AloneStep
    <3> QED
      BY <2>1, <3>1, BlobFilesStep DEF Staging
  <2> QED
    BY <2>1
<1> QED
  BY <1>1, <1>2, StoreInvariant, PTL DEF Spec

\* When nothing overlaps, a blob's name always leads to the bytes its hash
\* names, across failed, damaged and interrupted downloads, and across killed
\* pulls whose curl child wrote on before the next pull started.
THEOREM StoreBlobsGenuine == ASSUME SingleWriter PROVE Spec => []BlobsGenuine
<1>1. Staging => BlobsGenuine
  BY DEF Staging, BlobFiles, BlobsGenuine, Exists, Verified
<1> QED
  BY <1>1, StagingInvariant, PTL

-----------------------------------------------------------------------------
(* When nothing overlaps: manifests and `current`.                         *)

\* A file with one manifest in it
OneManifest == {<<m>> : m \in Manifest}

\* The manifest at the name of version v of package k is that version's, and its
\* blobs are there.
ShelfOf(k, v) ==
  file[ManifestPath(k, v)] # Absent =>
    \E m \in Manifest :
      /\ file[ManifestPath(k, v)] = <<m>> /\ NameOf[m] = k /\ VersionOf[m] = v
      /\ Len(ArtifactsOf[m]) \in 1 .. MaxArtifacts
      /\ \A n \in 1 .. Len(ArtifactsOf[m]) : file[BlobPath(ArtifactsOf[m][n])] = Genuine

\* `current` names an installed version.
CurrentOf(k) ==
  file[CurrentPath(k)] # Absent =>
    \E v \in Version :
      file[CurrentPath(k)] = <<v>> /\ (file[ManifestPath(k, v)] # Absent)

CacheOf(k) == file[CachePath(k)] \in {Absent, <<>>} \cup OneManifest

Shelved ==
  /\ \A k \in Package, v \in Version : ShelfOf(k, v)
  /\ \A k \in Package : CurrentOf(k) /\ CacheOf(k)

\* What a process that registers a package relies on: the cache still holds what
\* it parsed, and its own .part file what it wrote
Registers(p) ==
  /\ pc[p] = "fetchWrite" => man[p] \in OneManifest
  /\ pc[p] \in Holding =>
       /\ man[p] = file[CachePath(job[p])] /\ HeldName(p) = job[p]
       /\ Len(ArtifactsOf[Held(p)]) \in 1 .. MaxArtifacts
  /\ pc[p] = "copyWrite" => fd[p] = ManifestPart(HeldName(p), HeldVersion(p))
  /\ pc[p] = "currentWrite" => fd[p] = CurrentPart(HeldName(p))
  /\ pc[p] = "publish" => file[ManifestPart(HeldName(p), HeldVersion(p))] = man[p]
  /\ pc[p] = "select" => file[CurrentPart(HeldName(p))] = <<HeldVersion(p)>>
  /\ pc[p] \in {"current", "currentWrite", "select"} =>
       file[ManifestPath(HeldName(p), HeldVersion(p))] # Absent

Shelf == Shelved /\ \A p \in Proc : Registers(p)

\* Genuine blobs stay.
LEMMA GenuineStays ==
  ASSUME StoreInv, Staging, [Next]_vars, NEW b \in Blob, file[BlobPath(b)] = Genuine
  PROVE  file'[BlobPath(b)] = Genuine
<1>1. file[BlobPath(b)] # Absent
  BY VerifiedIsThere DEF Verified
<1> QED
  BY <1>1, OnlyLinkInstalls

\* A step that leaves a package's files alone leaves its shelf in order.
LEMMA ShelfKept ==
  ASSUME StoreInv, Staging, [Next]_vars, NEW k \in Package, NEW v \in Version,
         ShelfOf(k, v), file'[ManifestPath(k, v)] = file[ManifestPath(k, v)]
  PROVE  ShelfOf(k, v)'
<1>1. CASE file[ManifestPath(k, v)] = Absent
  BY <1>1 DEF ShelfOf, ManifestPath
<1>2. CASE file[ManifestPath(k, v)] # Absent
  <2>1. PICK m \in Manifest :
          /\ file[ManifestPath(k, v)] = <<m>> /\ NameOf[m] = k /\ VersionOf[m] = v
          /\ Len(ArtifactsOf[m]) \in 1 .. MaxArtifacts
          /\ \A n \in 1 .. Len(ArtifactsOf[m]) : file[BlobPath(ArtifactsOf[m][n])] = Genuine
    BY <1>2 DEF ShelfOf
  <2>2. ASSUME NEW n \in 1 .. Len(ArtifactsOf[m])
        PROVE  file'[BlobPath(ArtifactsOf[m][n])] = Genuine
    <3>1. ArtifactsOf[m][n] \in Blob
      BY ManifestAssumption
    <3> QED
      BY <2>1, <3>1, GenuineStays
  <2> QED
    BY <2>1, <2>2 DEF ShelfOf, ManifestPath, BlobPath
<1> QED
  BY <1>1, <1>2

LEMMA CurrentKept ==
  ASSUME StoreInv, [Next]_vars, NEW k \in Package, CurrentOf(k),
         file'[CurrentPath(k)] = file[CurrentPath(k)]
  PROVE  CurrentOf(k)'
<1>1. \A v \in Version : file[ManifestPath(k, v)] # Absent => file'[ManifestPath(k, v)] # Absent
  BY PathFacts, VisibleStays
<1> QED
  BY <1>1 DEF CurrentOf, CurrentPath, ManifestPath

\* The files outside of blobs/ that a step leaves alone
Kept(x) == file'[x] = file[x]

LEMMA ShelvedKept ==
  ASSUME StoreInv, Staging, Shelved, [Next]_vars,
         \A k \in Package : Kept(CachePath(k)) /\ Kept(CurrentPath(k)),
         \A k \in Package, v \in Version : Kept(ManifestPath(k, v))
  PROVE  Shelved'
<1>1. \A k \in Package, v \in Version : ShelfOf(k, v)'
  BY ShelfKept DEF Shelved, Kept
<1>2. \A k \in Package : CurrentOf(k)'
  BY CurrentKept DEF Shelved, Kept
<1>3. \A k \in Package : CacheOf(k)'
  BY DEF Shelved, CacheOf, Kept, CachePath, OneManifest
<1> QED
  BY <1>1, <1>2, <1>3 DEF Shelved

\* A write to a file that has one name
LEMMA WritesOne ==
  ASSUME TypeOK, NEW x \in Path, x[1] \notin {"part", "blob"}, NEW c \in Seq(Datum),
         file' = Stored(x, c)
  PROVE  file'[x] = c /\ \A y \in Path : y # x => Kept(y)
BY StoredFacts, OneName DEF Kept

\* A step that touches no file but blobs
LEMMA BlobStepsKeep ==
  ASSUME StoreInv, Staging, NEW p \in Proc,
         \/ file' = file
         \/ CurlOpen(p) \/ CurlChunk(p) \/ DiscardPart(p) \/ LinkBlob(p) \/ UnlinkPart(p)
  PROVE  \A x \in Path : x[1] \notin {"part", "blob"} => Kept(x)
<1>0. TypeOK /\ linked \subseteq Blob
  BY DEF StoreInv, TypeOK
<1>1. CASE file' = file
  BY <1>1 DEF Kept
<1>2. CASE CurlOpen(p) \/ CurlChunk(p)
  <2>1. Artifact(p) \in Blob /\ pc[p] \in {"open", "write", "append"}
    BY <1>2, HeldFacts DEF CurlOpen, CurlChunk, Holding, Labels
  <2>2. \A x \in Path : x[1] \notin {"part", "blob"} => x \notin Names(PartPath(Artifact(p)))
    BY <1>0, <2>1, NamesOfStaged, PathFacts
  <2>3. \E c : file' = Stored(PartPath(Artifact(p)), c)
    BY <1>2 DEF CurlOpen, CurlChunk, OpenTruncated, Staging, Alone
  <2> QED
    BY <2>2, <2>3 DEF Stored, Kept
<1>3. CASE DiscardPart(p) \/ UnlinkPart(p)
  <2>1. Artifact(p) \in Blob /\ RemovePart(Artifact(p))
    BY <1>3, HeldFacts DEF DiscardPart, UnlinkPart, Holding, Labels
  <2> QED
    BY <2>1, RemoveFacts, PathFacts DEF Kept
<1>4. CASE LinkBlob(p)
  <2>1. \A x \in Path : x # BlobPath(Artifact(p)) => file'[x] = file[x]
    BY <1>4, LinkFacts
  <2>2. BlobPath(Artifact(p))[1] = "blob"
    BY <1>4, LinkFacts, PathFacts
  <2> QED
    BY <2>1, <2>2 DEF Kept
<1> QED
  BY <1>1, <1>2, <1>3, <1>4

\* The names of a registering process, while it holds its manifest
LEMMA HeldStays ==
  ASSUME NEW p, man'[p] = man[p]
  PROVE  Held(p)' = Held(p) /\ HeldName(p)' = HeldName(p) /\ HeldVersion(p)' = HeldVersion(p)
BY DEF Held, HeldName, HeldVersion

\* Where a process holds a manifest but registers nothing yet, or just starts to
Loading == Holding \ {"copyWrite", "publish", "current", "currentWrite", "select"}

LEMMA RegistersKept ==
  ASSUME StoreInv, Shelf, NEW p \in Proc, pc[p] \in Holding, pc'[p] \in Loading,
         job'[p] = job[p], man'[p] = man[p], \A k \in Package : Kept(CachePath(k))
  PROVE  Registers(p)'
<1>1. job[p] \in Package
  BY PulledAssumption DEF StoreInv, TypeOK
<1>2. /\ man'[p] = file'[CachePath(job'[p])] /\ HeldName(p)' = job'[p]
      /\ Len(ArtifactsOf[Held(p)']) \in 1 .. MaxArtifacts
  BY <1>1, HeldStays DEF Shelf, Registers, Kept
<1> QED
  BY <1>2 DEF Registers, Loading, Holding, CachePath

\* A process that holds nothing and is not about to fill the cache relies on nothing.
LEMMA RegistersNothing ==
  ASSUME NEW p, pc'[p] \in {"idle", "fetch", "parse"} PROVE Registers(p)'
BY DEF Registers, Holding

\* A step that leaves the process and the files alone keeps what it relies on.
LEMMA NoChangeKeepsRegisters ==
  ASSUME Shelf, NEW p \in Proc, UNCHANGED <<file, pc, job, man, fd>>
  PROVE  Registers(p)'
BY DEF Shelf, Registers, Held, HeldName, HeldVersion, CachePath, CurrentPart, ManifestPath,
       ManifestPart, OneManifest

\* Steps before registration, and steps that end a process
LEMMA ShelfQuietStep ==
  ASSUME StoreInv, Staging, Shelf, [Next]_vars, NEW p \in Proc,
         \/ ParseManifest(p) \/ RejectManifest(p) \/ BlobMissing(p) \/ BlobCached(p)
         \/ BlobRefused(p) \/ CurlResume(p) \/ CurlFresh(p) \/ CurlOpen(p) \/ CurlChunk(p)
         \/ VerifyPart(p) \/ DiscardPart(p) \/ LinkBlob(p) \/ LinkNoPart(p) \/ LinkLostRace(p)
         \/ RecheckBlob(p) \/ RecheckRefused(p) \/ UnlinkPart(p) \/ RenameNoPart(p)
         \/ CurlCannotResume(p) \/ StrayEnds(p) \/ Fault(p)
         \/ \E k \in Pulled : StartPull(p, k)
  PROVE  Shelved' /\ Registers(p)'
<1>0. /\ pc \in [Proc -> Labels] /\ job[p] \in Package /\ man \in [Proc -> Seq(Manifest)]
  BY PulledAssumption DEF StoreInv, TypeOK
<1>1. \/ file' = file
      \/ CurlOpen(p) \/ CurlChunk(p) \/ DiscardPart(p) \/ LinkBlob(p) \/ UnlinkPart(p)
  BY DEF ParseManifest, RejectManifest, BlobMissing, BlobCached, BlobRefused, CurlResume,
         CurlFresh, VerifyPart, LinkNoPart, LinkLostRace, RecheckBlob, RecheckRefused,
         RenameNoPart, CurlCannotResume, StrayEnds, StartPull, ExitOnly, NoFiles, disk,
         Fault, CurlFails, ReadFails, UnlinkFails, StoreFails, Crash, CrashAlone
<1>2. /\ \A k \in Package : Kept(CachePath(k)) /\ Kept(CurrentPath(k))
      /\ \A k \in Package, v \in Version : Kept(ManifestPath(k, v))
  BY <1>1, BlobStepsKeep, PathFacts
<1>3. Shelved'
  BY <1>2, ShelvedKept DEF Shelf
<1>4. ASSUME NEW code, Exit(p, code) PROVE Registers(p)'
  BY <1>0, <1>4, RegistersNothing DEF Exit, Goto
<1>5. ASSUME NEW k \in Pulled, StartPull(p, k) PROVE Registers(p)'
  BY <1>0, <1>5, RegistersNothing DEF StartPull, Goto
<1>6. ASSUME NEW label \in Loading, Goto(p, label), pc[p] \in Holding, UNCHANGED <<job, man>>
      PROVE  Registers(p)'
  BY <1>0, <1>2, <1>6, RegistersKept DEF Goto
<1>7. ASSUME AfterArtifact(p), pc[p] \in Holding, UNCHANGED <<job, man>> PROVE Registers(p)'
  BY <1>6, <1>7 DEF AfterArtifact, Loading, Holding, Labels
<1>8. ASSUME ParseManifest(p) PROVE Registers(p)'
  <2> DEFINE text == Read(CachePath(job[p]))
  <2>1. /\ Parses(text) /\ NameOf[text[1]] = job[p] /\ pc'[p] = "artifact" /\ man'[p] = text
        /\ job' = job /\ file' = file
    BY <1>0, <1>8 DEF ParseManifest, Goto, NoFiles, disk
  <2>2. text = file[CachePath(job[p])]
    BY <2>1 DEF Parses, Read, Exists
  <2> HIDE DEF text
  <2>3. Held(p)' = text[1] /\ HeldName(p)' = job[p]
    BY <2>1 DEF Held, HeldName
  <2>4. man'[p] = file'[CachePath(job[p])]
    BY <2>1, <2>2
  <2> QED
    BY <2>1, <2>3, <2>4 DEF Registers, Parses, CachePath
<1>9. ASSUME \/ BlobMissing(p) \/ CurlFresh(p) \/ CurlOpen(p) \/ VerifyPart(p) \/ LinkBlob(p)
             \/ LinkLostRace(p) \/ RecheckBlob(p)
      PROVE  Registers(p)'
  BY <1>6, <1>9 DEF BlobMissing, CurlFresh, CurlOpen, VerifyPart, LinkBlob, LinkLostRace,
       RecheckBlob, Loading, Holding, Labels
<1>10. ASSUME CurlResume(p) PROVE Registers(p)'
  BY <1>6, <1>10 DEF CurlResume, Loading, Holding, Labels
<1>11. ASSUME CurlChunk(p) PROVE Registers(p)'
  <2>1. pc[p] \in {"write", "append"} /\ UNCHANGED <<job, man>>
    BY <1>11 DEF CurlChunk
  <2>2. Goto(p, pc[p]) \/ Goto(p, "verify")
    BY <1>0, <1>11 DEF CurlChunk, Goto
  <2> QED
    BY <1>6, <2>1, <2>2 DEF Loading, Holding, Labels
<1>12. ASSUME BlobCached(p) \/ UnlinkPart(p) PROVE Registers(p)'
  BY <1>7, <1>12 DEF BlobCached, UnlinkPart, Holding, Labels
<1>13. ASSUME \/ RejectManifest(p) \/ BlobRefused(p) \/ DiscardPart(p) \/ LinkNoPart(p)
              \/ RecheckRefused(p) \/ RenameNoPart(p) \/ CurlCannotResume(p) \/ StrayEnds(p)
       PROVE  Registers(p)'
  BY <1>4, <1>13 DEF RejectManifest, BlobRefused, DiscardPart, LinkNoPart, RecheckRefused,
       RenameNoPart, CurlCannotResume, StrayEnds, ExitOnly
<1>14. ASSUME Fault(p) PROVE Registers(p)'
  <2>1. ASSUME CrashAlone(p) PROVE Registers(p)'
    BY <2>1, NoChangeKeepsRegisters DEF CrashAlone, disk, locals
  <2> QED
    BY <1>4, <1>6, <1>7, <1>14, <2>1 DEF Fault, CurlFails, ReadFails, UnlinkFails, StoreFails,
         Crash, ExitOnly, Loading, Holding, Labels
<1> QED
  BY <1>3, <1>5, <1>8, <1>9, <1>10, <1>11, <1>12, <1>13, <1>14

\* A write to the cache
LEMMA CacheWriteStep ==
  ASSUME StoreInv, Staging, Shelf, [Next]_vars, NEW p \in Proc, FetchOpen(p) \/ FetchWrite(p)
  PROVE  Shelved' /\ Registers(p)'
<1>0. /\ TypeOK /\ pc \in [Proc -> Labels] /\ job[p] \in Package /\ man \in [Proc -> Seq(Manifest)]
      /\ registry[job[p]] \subseteq Manifest /\ man[p] \in Seq(Manifest)
  BY PulledAssumption DEF StoreInv, TypeOK
<1> DEFINE x == CachePath(job[p])
<1>1. PICK c \in {<<>>} \cup OneManifest : file' = Stored(x, c)
  <2>1. CASE FetchOpen(p)
    BY <2>1 DEF FetchOpen, OpenTruncated
  <2>2. CASE FetchWrite(p)
    BY <2>2 DEF FetchWrite, WriteAndClose, StoreInv, Opened, Shelf, Registers
  <2> QED
    BY <2>1, <2>2
<1>2. c \in Seq(Datum) /\ x \in Path /\ x[1] = "cache"
  <2>1. \A m \in Manifest : <<m>> \in Seq(Datum)
    BY Texts
  <2>2. c \in Seq(Datum)
    BY <2>1, Texts DEF OneManifest
  <2> QED
    BY <1>0, <2>2, PathFacts
<1>3. file'[x] = c /\ \A y \in Path : y # x => Kept(y)
  BY <1>0, <1>1, <1>2, WritesOne
<1>4. /\ \A k \in Package : Kept(CurrentPath(k))
      /\ \A k \in Package, v \in Version : Kept(ManifestPath(k, v))
  BY <1>2, <1>3, PathFacts
<1>5. \A k \in Package : CacheOf(k)'
  <2> SUFFICES ASSUME NEW k \in Package
               PROVE  file'[CachePath(k)] \in {Absent, <<>>} \cup OneManifest
    BY DEF CacheOf, CachePath, OneManifest
  <2>1. CachePath(k) \in Path
    BY PathFacts
  <2> HIDE DEF x
  <2> QED
    BY <1>1, <1>3, <2>1 DEF Shelf, Shelved, CacheOf, Kept
<1>6. Shelved'
  <2>1. \A k \in Package, v \in Version : ShelfOf(k, v)'
    BY <1>4, ShelfKept DEF Shelf, Shelved, Kept
  <2>2. \A k \in Package : CurrentOf(k)'
    BY <1>4, CurrentKept DEF Shelf, Shelved, Kept
  <2> QED
    BY <1>5, <2>1, <2>2 DEF Shelved
<1>7. Registers(p)'
  <2>1. ASSUME FetchOpen(p) PROVE Registers(p)'
    <3>1. pc'[p] = "fetchWrite" /\ \E m \in Manifest : man'[p] = <<m>>
      BY <1>0, <2>1 DEF FetchOpen, Goto
    <3> QED
      BY <1>0, <3>1 DEF Registers, Holding, OneManifest
  <2>2. ASSUME FetchWrite(p) PROVE Registers(p)'
    BY <1>0, <2>2, RegistersNothing DEF FetchWrite, Goto
  <2> QED
    BY <2>1, <2>2
<1> QED
  BY <1>6, <1>7

\* The staging file of a manifest is opened and written.
LEMMA CopyStep ==
  ASSUME StoreInv, Staging, Shelf, [Next]_vars, NEW p \in Proc, CopyOpen(p) \/ CopyWrite(p)
  PROVE  Shelved' /\ Registers(p)'
<1>0. /\ TypeOK /\ pc \in [Proc -> Labels] /\ job[p] \in Package /\ pc[p] \in Holding
      /\ man[p] = file[CachePath(job[p])] /\ HeldName(p) = job[p]
      /\ Len(ArtifactsOf[Held(p)]) \in 1 .. MaxArtifacts
      /\ UNCHANGED <<job, man>>
  BY PulledAssumption
     DEF StoreInv, TypeOK, CopyOpen, CopyWrite, Holding, Labels, Shelf, Registers
<1> DEFINE x == ManifestPart(HeldName(p), HeldVersion(p))
<1>1. x \in Path /\ x[1] = "manifest.part"
  BY <1>0, HeldFacts, PathFacts
<1>2. man[p] \in Seq(Datum) /\ <<>> \in Seq(Datum) /\ Read(CachePath(job[p])) = man[p]
  <2>1. man[p] \in Seq(Datum)
    BY Texts DEF StoreInv, TypeOK
  <2> QED
    BY <1>0, <2>1, SentinelAssumption, Texts DEF Read, Exists
<1>3. PICK c \in Seq(Datum) :
        /\ file' = Stored(x, c)
        /\ CopyWrite(p) => c = man[p]
  <2>1. CASE CopyOpen(p)
    BY <1>2, <2>1 DEF CopyOpen, OpenTruncated, CopyWrite
  <2>2. CASE CopyWrite(p)
    <3>1. fd[p] = x
      BY <2>2 DEF CopyWrite, Shelf, Registers
    <3> QED
      BY <1>2, <2>2, <3>1 DEF CopyWrite, WriteAndClose
  <2> QED
    BY <2>1, <2>2
<1>4. file'[x] = c /\ \A y \in Path : y # x => Kept(y)
  BY <1>0, <1>1, <1>3, WritesOne
<1>5. /\ \A k \in Package : Kept(CachePath(k)) /\ Kept(CurrentPath(k))
      /\ \A k \in Package, v \in Version : Kept(ManifestPath(k, v))
  BY <1>1, <1>4, PathFacts
<1>6. Shelved'
  BY <1>5, ShelvedKept DEF Shelf
<1>7. HeldName(p)' = HeldName(p) /\ HeldVersion(p)' = HeldVersion(p) /\ Held(p)' = Held(p)
  BY <1>0, HeldStays
<1>8. man'[p] = file'[CachePath(job'[p])] /\ HeldName(p)' = job'[p]
  BY <1>0, <1>5, <1>7 DEF Kept
<1>9. ASSUME CopyOpen(p) PROVE Registers(p)'
  <2>1. pc'[p] = "copyWrite" /\ fd'[p] = x
    BY <1>0, <1>9 DEF CopyOpen, OpenTruncated, Goto, StoreInv, TypeOK
  <2> QED
    BY <1>0, <1>7, <1>8, <2>1 DEF Registers, CachePath, ManifestPart
<1>10. ASSUME CopyWrite(p) PROVE Registers(p)'
  <2>1. pc'[p] = "publish" /\ file'[x] = man'[p]
    BY <1>0, <1>3, <1>4, <1>10 DEF CopyWrite, Goto
  <2> QED
    BY <1>0, <1>7, <1>8, <2>1 DEF Registers, CachePath, ManifestPart
<1> QED
  BY <1>6, <1>9, <1>10

\* The staging file of `current` is opened and written.
LEMMA CurrentStep ==
  ASSUME StoreInv, Staging, Shelf, [Next]_vars, NEW p \in Proc, CurrentOpen(p) \/ CurrentWrite(p)
  PROVE  Shelved' /\ Registers(p)'
<1>0. /\ TypeOK /\ pc \in [Proc -> Labels] /\ job[p] \in Package /\ pc[p] \in Holding
      /\ man[p] = file[CachePath(job[p])] /\ HeldName(p) = job[p]
      /\ Len(ArtifactsOf[Held(p)]) \in 1 .. MaxArtifacts
      /\ file[ManifestPath(HeldName(p), HeldVersion(p))] # Absent
      /\ UNCHANGED <<job, man>>
  BY PulledAssumption
     DEF StoreInv, TypeOK, CurrentOpen, CurrentWrite, Holding, Labels, Shelf, Registers
<1> DEFINE x == CurrentPart(HeldName(p))
<1>1. /\ x \in Path /\ x[1] = "current.part"
      /\ ManifestPath(HeldName(p), HeldVersion(p)) \in Path
      /\ ManifestPath(HeldName(p), HeldVersion(p))[1] = "manifest"
  BY <1>0, HeldFacts, PathFacts
<1>2. <<HeldVersion(p)>> \in Seq(Datum) /\ <<>> \in Seq(Datum)
  BY <1>0, HeldFacts, Texts
<1>3. PICK c \in Seq(Datum) :
        /\ file' = Stored(x, c)
        /\ CurrentWrite(p) => c = <<HeldVersion(p)>>
  <2>1. CASE CurrentOpen(p)
    BY <1>2, <2>1 DEF CurrentOpen, OpenTruncated, CurrentWrite
  <2>2. CASE CurrentWrite(p)
    <3>1. fd[p] = x
      BY <2>2 DEF CurrentWrite, Shelf, Registers
    <3> QED
      BY <1>2, <2>2, <3>1 DEF CurrentWrite, WriteAndClose
  <2> QED
    BY <2>1, <2>2
<1>4. file'[x] = c /\ \A y \in Path : y # x => Kept(y)
  BY <1>0, <1>1, <1>3, WritesOne
<1>5. /\ \A k \in Package : Kept(CachePath(k)) /\ Kept(CurrentPath(k))
      /\ \A k \in Package, v \in Version : Kept(ManifestPath(k, v))
      /\ Kept(ManifestPath(HeldName(p), HeldVersion(p)))
  BY <1>1, <1>4, PathFacts
<1>6. Shelved'
  BY <1>5, ShelvedKept DEF Shelf
<1>7. HeldName(p)' = HeldName(p) /\ HeldVersion(p)' = HeldVersion(p) /\ Held(p)' = Held(p)
  BY <1>0, HeldStays
<1>8. /\ man'[p] = file'[CachePath(job'[p])] /\ HeldName(p)' = job'[p]
      /\ file'[ManifestPath(HeldName(p), HeldVersion(p))] # Absent
  BY <1>0, <1>5, <1>7 DEF Kept
<1>9. ASSUME CurrentOpen(p) PROVE Registers(p)'
  <2>1. pc'[p] = "currentWrite" /\ fd'[p] = x
    BY <1>0, <1>9 DEF CurrentOpen, OpenTruncated, Goto, StoreInv, TypeOK
  <2> QED
    BY <1>0, <1>7, <1>8, <2>1 DEF Registers, CachePath, ManifestPath, CurrentPart
<1>10. ASSUME CurrentWrite(p) PROVE Registers(p)'
  <2>1. pc'[p] = "select" /\ file'[x] = <<HeldVersion(p)>>
    BY <1>0, <1>3, <1>4, <1>10 DEF CurrentWrite, Goto
  <2> QED
    BY <1>0, <1>7, <1>8, <2>1 DEF Registers, CachePath, ManifestPath, CurrentPart
<1> QED
  BY <1>6, <1>9, <1>10

\* The manifest is renamed into place, with its blobs.
LEMMA PublishStep ==
  ASSUME StoreInv, Staging, Placed, Shelf, [Next]_vars, NEW p \in Proc, PublishManifest(p)
  PROVE  Shelved' /\ Registers(p)'
<1> DEFINE x == ManifestPart(HeldName(p), HeldVersion(p))
           y == ManifestPath(HeldName(p), HeldVersion(p))
<1>0. /\ pc[p] = "publish" /\ pc[p] \in Holding /\ pc'[p] = "current"
      /\ UNCHANGED <<job, man>> /\ Rename(x, y) /\ file[x] # Absent
      /\ job[p] \in Package /\ man[p] = file[CachePath(job[p])] /\ HeldName(p) = job[p]
      /\ Len(ArtifactsOf[Held(p)]) \in 1 .. MaxArtifacts
      /\ file[x] = man[p]
  BY PulledAssumption
     DEF PublishManifest, Holding, Labels, StoreInv, TypeOK, Shelf, Registers, Goto, Exists
<1>1. /\ Held(p) \in Manifest /\ HeldName(p) \in Package /\ HeldVersion(p) \in Version
      /\ x \in Path /\ y \in Path /\ x # y /\ x[1] = "manifest.part" /\ y[1] = "manifest"
  BY <1>0, HeldFacts, RegisterNames, PathFacts
<1>2. file'[y] = man[p] /\ \A z \in Path \ {x, y} : Kept(z)
  BY <1>0, <1>1, RegisterNames, RenameFacts DEF Kept
<1>3. man[p] = <<Held(p)>>
  <2>1. man[p] \in OneManifest
    <3>1. man[p] # <<>>
      BY <1>0 DEF StoreInv, Busy
    <3> QED
      BY <1>0, <3>1 DEF Shelf, Shelved, CacheOf
  <2> QED
    BY <2>1 DEF OneManifest, Held
<1>4. \A k \in Package : Kept(CachePath(k)) /\ Kept(CurrentPath(k))
  BY <1>1, <1>2, PathFacts
<1>5. ASSUME NEW k \in Package, NEW v \in Version PROVE ShelfOf(k, v)'
  <2>1. CASE ManifestPath(k, v) = y
    <3>1. k = HeldName(p) /\ v = HeldVersion(p)
      BY <1>1, <2>1, PathFacts
    <3>2. ASSUME NEW n \in 1 .. Len(ArtifactsOf[Held(p)])
          PROVE  file'[BlobPath(ArtifactsOf[Held(p)][n])] = Genuine
      <4>1. ArtifactsOf[Held(p)][n] \in Blob /\ n <= Done(p)
        BY <1>0, <1>1, ManifestAssumption DEF Done, Registering
      <4>2. file[BlobPath(ArtifactsOf[Held(p)][n])] = Genuine
        BY <1>0, <4>1 DEF Placed, Staging, BlobFiles
      <4> QED
        BY <4>1, <4>2, GenuineStays
    <3>3. file'[ManifestPath(k, v)] = <<Held(p)>>
      BY <1>2, <1>3, <2>1
    <3> QED
      BY <1>0, <1>1, <3>1, <3>2, <3>3 DEF ShelfOf, ManifestPath, BlobPath, HeldName, HeldVersion
  <2>2. CASE ManifestPath(k, v) # y
    <3>1. Kept(ManifestPath(k, v))
      BY <1>1, <1>2, <2>2, PathFacts
    <3> QED
      BY <3>1, ShelfKept DEF Shelf, Shelved, Kept
  <2> QED
    BY <2>1, <2>2
<1>6. Shelved'
  <2>1. \A k \in Package : CurrentOf(k)'
    BY <1>4, CurrentKept DEF Shelf, Shelved, Kept
  <2>2. \A k \in Package : CacheOf(k)'
    BY <1>4 DEF Shelf, Shelved, CacheOf, Kept, CachePath, OneManifest
  <2> QED
    BY <1>5, <2>1, <2>2 DEF Shelved
<1>7. Registers(p)'
  <2>1. HeldName(p)' = HeldName(p) /\ HeldVersion(p)' = HeldVersion(p) /\ Held(p)' = Held(p)
    BY <1>0, HeldStays
  <2>2. man'[p] = file'[CachePath(job'[p])] /\ HeldName(p)' = job'[p]
    BY <1>0, <1>4, <2>1 DEF Kept
  <2>3. file'[y] # Absent
    BY <1>0, <1>2
  <2> QED
    BY <1>0, <2>1, <2>2, <2>3 DEF Registers, CachePath, ManifestPath
<1> QED
  BY <1>6, <1>7

\* `current` is renamed into place.
LEMMA SelectStep ==
  ASSUME StoreInv, Staging, Shelf, [Next]_vars, NEW p \in Proc, SelectVersion(p)
  PROVE  Shelved' /\ Registers(p)'
<1> DEFINE x == CurrentPart(HeldName(p))
           y == CurrentPath(HeldName(p))
<1>0. /\ pc[p] = "select" /\ pc[p] \in Holding /\ pc'[p] = "idle" /\ Rename(x, y)
      /\ file[x] = <<HeldVersion(p)>>
      /\ file[ManifestPath(HeldName(p), HeldVersion(p))] # Absent
  BY DEF SelectVersion, Holding, Labels, StoreInv, TypeOK, Shelf, Registers, Goto, Exit
<1>1. /\ HeldName(p) \in Package /\ HeldVersion(p) \in Version
      /\ x \in Path /\ y \in Path /\ x # y /\ x[1] = "current.part" /\ y[1] = "current"
  BY <1>0, HeldFacts, RegisterNames, PathFacts
<1>2. file'[y] = <<HeldVersion(p)>> /\ \A z \in Path \ {x, y} : Kept(z)
  BY <1>0, <1>1, RegisterNames, RenameFacts DEF Kept
<1>3. /\ \A k \in Package : Kept(CachePath(k))
      /\ \A k \in Package, v \in Version : Kept(ManifestPath(k, v))
  BY <1>1, <1>2, PathFacts
<1>4. ASSUME NEW k \in Package PROVE CurrentOf(k)'
  <2>1. CASE CurrentPath(k) = y
    <3>1. k = HeldName(p)
      BY <1>1, <2>1, PathFacts
    <3>2. /\ file'[CurrentPath(k)] = <<HeldVersion(p)>>
          /\ file'[ManifestPath(k, HeldVersion(p))] # Absent
      BY <1>0, <1>1, <1>2, <1>3, <2>1, <3>1 DEF Kept
    <3> QED
      BY <1>1, <3>2 DEF CurrentOf, CurrentPath, ManifestPath
  <2>2. CASE CurrentPath(k) # y
    <3>1. Kept(CurrentPath(k))
      BY <1>1, <1>2, <2>2, PathFacts
    <3> QED
      BY <3>1, CurrentKept DEF Shelf, Shelved, Kept
  <2> QED
    BY <2>1, <2>2
<1>5. Shelved'
  <2>1. \A k \in Package, v \in Version : ShelfOf(k, v)'
    BY <1>3, ShelfKept DEF Shelf, Shelved, Kept
  <2>2. \A k \in Package : CacheOf(k)'
    BY <1>3 DEF Shelf, Shelved, CacheOf, Kept, CachePath, OneManifest
  <2> QED
    BY <1>4, <2>1, <2>2 DEF Shelved
<1>6. Registers(p)'
  BY <1>0, RegistersNothing
<1> QED
  BY <1>5, <1>6

LEMMA ShelfStep ==
  ASSUME SingleWriter, StoreInv, Staging, Placed, Shelf, [Next]_vars PROVE Shelf'
<1>1. \A p, q \in Proc : p = q
  BY DEF SingleWriter
<1>2. CASE UNCHANGED vars \/ Settle
  <2>1. UNCHANGED <<file, pc, job, man, fd>>
    BY <1>2 DEF vars, disk, locals, Settle
  <2> QED
    BY <2>1 DEF Shelf, Shelved, ShelfOf, CurrentOf, CacheOf, Registers, Held, HeldName,
         HeldVersion, CachePath, CurrentPath, CurrentPart, ManifestPath, ManifestPart, BlobPath,
         OneManifest
<1>3. ASSUME NEW p \in Proc, Pull(p) \/ Fault(p) \/ \E k \in Pulled : StartPull(p, k)
      PROVE  Shelved' /\ Registers(p)'
  BY <1>3, ShelfQuietStep, CacheWriteStep, CopyStep, CurrentStep, PublishStep, SelectStep DEF Pull
<1>4. ASSUME NEW p \in Proc, Pull(p) \/ Fault(p) \/ \E k \in Pulled : StartPull(p, k)
      PROVE  Shelf'
  <2>1. \A q \in Proc : Registers(q)'
    BY <1>1, <1>3, <1>4
  <2> QED
    BY <1>3, <1>4, <2>1 DEF Shelf
<1> QED
  BY <1>2, <1>4 DEF Next

LEMMA ShelfInvariant == ASSUME SingleWriter PROVE Spec => []Shelf
<1>1. Init => Shelf
  <2>1. ASSUME Init PROVE Shelved
    BY <2>1, PathFacts DEF Init, Shelved, ShelfOf, CurrentOf, CacheOf
  <2>2. ASSUME Init PROVE \A p \in Proc : Registers(p)
    BY <2>2 DEF Init, Registers, Holding
  <2> QED
    BY <2>1, <2>2 DEF Shelf
<1>2. StoreInv /\ Staging /\ Placed /\ Shelf /\ [Next]_vars => Shelf'
  BY ShelfStep
<1> QED
  BY <1>1, <1>2, StoreInvariant, StagingInvariant, PlacedInvariant, PTL DEF Spec

\* When nothing overlaps, an installed manifest is the one of its version and
\* all its blobs are in the store with the right bytes, at any moment: after a
\* kill between any two steps of a pull too, and while its curl child lives on.
THEOREM StoreInstalledComplete == ASSUME SingleWriter PROVE Spec => []InstalledComplete
<1>1. Shelf => InstalledComplete
  <2> SUFFICES ASSUME Shelf, NEW k \in Package, NEW v \in Version,
                      file[ManifestPath(k, v)] # Absent
               PROVE  Complete(k, v)
    BY DEF InstalledComplete, Exists
  <2>1. PICK m \in Manifest :
          /\ file[ManifestPath(k, v)] = <<m>> /\ NameOf[m] = k /\ VersionOf[m] = v
          /\ Len(ArtifactsOf[m]) \in 1 .. MaxArtifacts
          /\ \A n \in 1 .. Len(ArtifactsOf[m]) : file[BlobPath(ArtifactsOf[m][n])] = Genuine
    BY DEF Shelf, Shelved, ShelfOf
  <2>2. Read(ManifestPath(k, v)) = <<m>>
    BY <2>1 DEF Read, Exists
  <2> QED
    BY <2>1, <2>2 DEF Complete, Parses, Verified
<1> QED
  BY <1>1, ShelfInvariant, PTL

\* When nothing overlaps, `current` names a version whose manifest is there.
THEOREM StoreCurrentInstalled == ASSUME SingleWriter PROVE Spec => []CurrentInstalled
<1>1. Shelf => CurrentInstalled
  BY DEF Shelf, Shelved, CurrentOf, CurrentInstalled, Exists, Read
<1> QED
  BY <1>1, ShelfInvariant, PTL

-----------------------------------------------------------------------------
(* When nothing overlaps, pulls keep the store's promise.                  *)

\* What is written on the way to a registration is a file nobody reads: the
\* cache, or a .part.
LEMMA StagedWrites ==
  ASSUME StoreInv, Shelf, NEW p \in Proc,
         \/ FetchOpen(p) \/ FetchWrite(p) \/ CopyOpen(p) \/ CopyWrite(p)
         \/ CurrentOpen(p) \/ CurrentWrite(p)
  PROVE  \E x \in Path :
           x[1] \in {"cache", "manifest.part", "current.part"} /\ \E c : file' = Stored(x, c)
<1>1. CASE FetchOpen(p) \/ FetchWrite(p)
  <2>1. \E c : file' = Stored(CachePath(job[p]), c)
    BY <1>1 DEF FetchOpen, FetchWrite, OpenTruncated, WriteAndClose, StoreInv, Opened
  <2>2. CachePath(job[p]) \in Path /\ CachePath(job[p])[1] = "cache"
    BY PulledAssumption, PathFacts DEF StoreInv, TypeOK
  <2> QED
    BY <2>1, <2>2
<1>2. CASE CopyOpen(p) \/ CopyWrite(p)
  <2> DEFINE x == ManifestPart(HeldName(p), HeldVersion(p))
  <2>1. \E c : file' = Stored(x, c)
    BY <1>2 DEF CopyOpen, CopyWrite, OpenTruncated, WriteAndClose, Shelf, Registers
  <2>2. pc[p] \in Holding
    BY <1>2 DEF CopyOpen, CopyWrite, Holding, Labels
  <2>3. x \in Path /\ x[1] = "manifest.part"
    BY <2>2, HeldFacts, PathFacts
  <2> HIDE DEF x
  <2> QED
    BY <2>1, <2>3
<1>3. CASE CurrentOpen(p) \/ CurrentWrite(p)
  <2> DEFINE x == CurrentPart(HeldName(p))
  <2>1. \E c : file' = Stored(x, c)
    BY <1>3 DEF CurrentOpen, CurrentWrite, OpenTruncated, WriteAndClose, Shelf, Registers
  <2>2. pc[p] \in Holding
    BY <1>3 DEF CurrentOpen, CurrentWrite, Holding, Labels
  <2>3. x \in Path /\ x[1] = "current.part"
    BY <2>2, HeldFacts, PathFacts
  <2> HIDE DEF x
  <2> QED
    BY <2>1, <2>3
<1> QED
  BY <1>1, <1>2, <1>3

\* A reader's files change only by a publication or a selection.
LEMMA ReadersFiles ==
  ASSUME StoreInv, Staging, Shelf, [Next]_vars,
         \A p \in Proc : ~PublishManifest(p) /\ ~SelectVersion(p)
  PROVE  /\ \A k \in Package : Kept(CurrentPath(k))
         /\ \A k \in Package, v \in Version : Kept(ManifestPath(k, v))
<1>1. ASSUME \A x \in Path : x[1] \notin {"part", "blob"} => Kept(x)
      PROVE  /\ \A k \in Package : Kept(CurrentPath(k))
             /\ \A k \in Package, v \in Version : Kept(ManifestPath(k, v))
  BY <1>1, PathFacts
<1>2. CASE file' = file
  BY <1>2 DEF Kept
<1>3. ASSUME NEW p \in Proc,
             \/ CurlOpen(p) \/ CurlChunk(p) \/ DiscardPart(p) \/ LinkBlob(p) \/ UnlinkPart(p)
      PROVE  \A x \in Path : x[1] \notin {"part", "blob"} => Kept(x)
  BY <1>3, BlobStepsKeep
<1>4. ASSUME NEW p \in Proc,
             \/ FetchOpen(p) \/ FetchWrite(p) \/ CopyOpen(p) \/ CopyWrite(p)
             \/ CurrentOpen(p) \/ CurrentWrite(p)
      PROVE  /\ \A k \in Package : Kept(CurrentPath(k))
             /\ \A k \in Package, v \in Version : Kept(ManifestPath(k, v))
  <2>1. PICK x \in Path :
          x[1] \in {"cache", "manifest.part", "current.part"} /\ \E c : file' = Stored(x, c)
    BY <1>4, StagedWrites
  <2>2. Names(x) = {x}
    BY <2>1, OneName DEF StoreInv
  <2>3. \A y \in Path : y # x => Kept(y)
    BY <2>1, <2>2 DEF Stored, Kept
  <2> QED
    BY <2>1, <2>3, PathFacts
<1>5. CASE UNCHANGED vars \/ Settle \/ \E p \in Proc, k \in Pulled : StartPull(p, k)
  BY <1>2, <1>5 DEF vars, disk, Settle, StartPull, NoFiles
<1>6. ASSUME NEW p \in Proc,
             \/ Fault(p)
             \/ ParseManifest(p) \/ RejectManifest(p) \/ BlobMissing(p) \/ BlobCached(p)
             \/ BlobRefused(p) \/ CurlResume(p) \/ CurlFresh(p) \/ VerifyPart(p)
             \/ LinkNoPart(p) \/ LinkLostRace(p) \/ RecheckBlob(p) \/ RecheckRefused(p)
             \/ RenameNoPart(p) \/ CurlCannotResume(p) \/ StrayEnds(p)
      PROVE  file' = file
  BY <1>6 DEF ParseManifest, RejectManifest, BlobMissing, BlobCached, BlobRefused, CurlResume,
              CurlFresh, VerifyPart, LinkNoPart, LinkLostRace, RecheckBlob, RecheckRefused,
              RenameNoPart, CurlCannotResume, StrayEnds, ExitOnly, NoFiles, disk,
              Fault, CurlFails, ReadFails, UnlinkFails, StoreFails, Crash, CrashAlone
<1> QED
  BY <1>1, <1>2, <1>3, <1>4, <1>5, <1>6 DEF Next, Pull

\* What a reader sees of the store, as the promise names it
GoodBlobs == {b \in Blob : Verified(BlobPath(b))}
Shelves == [k \in Package |-> [v \in Version |-> Read(ManifestPath(k, v))]]
Choices == [k \in Package |-> Read(CurrentPath(k))]

LEMMA KeptIsRead ==
  /\ (\A k \in Package, v \in Version : Kept(ManifestPath(k, v))) => Shelves' = Shelves
  /\ (\A k \in Package : Kept(CurrentPath(k))) => Choices' = Choices
BY DEF Kept, Shelves, Choices, Read, Exists, ManifestPath, CurrentPath

\* The set of good blobs grows by the one that is linked, and stays otherwise.
LEMMA GoodBlobsStep ==
  ASSUME SingleWriter, StoreInv, Staging, [Next]_vars
  PROVE  \/ GoodBlobs' = GoodBlobs /\ \A p \in Proc : ~LinkBlob(p)
         \/ \E p \in Proc : /\ LinkBlob(p) /\ Artifact(p) \in Blob \ GoodBlobs
                            /\ GoodBlobs' = GoodBlobs \cup {Artifact(p)}
<1>1. CASE \A p \in Proc : ~LinkBlob(p)
  <2>1. \A b \in Blob : file'[BlobPath(b)] = file[BlobPath(b)]
    BY <1>1, OnlyLinkInstalls
  <2> QED
    BY <1>1, <2>1 DEF GoodBlobs, Verified, BlobPath
<1>2. ASSUME NEW p \in Proc, LinkBlob(p)
      PROVE  /\ Artifact(p) \in Blob \ GoodBlobs
             /\ GoodBlobs' = GoodBlobs \cup {Artifact(p)}
  <2>1. /\ Artifact(p) \in Blob /\ file[BlobPath(Artifact(p))] = Absent
        /\ file'[BlobPath(Artifact(p))] = Genuine
    BY <1>2, LinkFacts DEF Staging, Alone, Exists
  <2>2. \A b \in Blob : b # Artifact(p) => file'[BlobPath(b)] = file[BlobPath(b)]
    BY <1>2, OnlyLinkInstalls DEF SingleWriter
  <2>3. Absent # Genuine
    BY <2>1, VerifiedIsThere DEF Verified
  <2>4. Artifact(p) \notin GoodBlobs
    BY <2>1, <2>3 DEF GoodBlobs, Verified
  <2>5. GoodBlobs = {b \in Blob : file[BlobPath(b)] = Genuine}
        /\ GoodBlobs' = {b \in Blob : file'[BlobPath(b)] = Genuine}
    BY DEF GoodBlobs, Verified, BlobPath
  <2> QED
    BY <2>1, <2>2, <2>4, <2>5
<1> QED
  BY <1>1, <1>2

\* One manifest is put on the shelf.
LEMMA ShelvesWith ==
  ASSUME NEW m \in Manifest, file'[ManifestPath(NameOf[m], VersionOf[m])] = <<m>>,
         \A k \in Package, v \in Version :
           (k # NameOf[m] \/ v # VersionOf[m]) => Kept(ManifestPath(k, v))
  PROVE  Shelves' = [Shelves EXCEPT ![NameOf[m]][VersionOf[m]] = <<m>>]
<1>1. Absent # <<m>> /\ NameOf[m] \in Package /\ VersionOf[m] \in Version
  BY SentinelAssumption, Texts, ManifestAssumption
<1>2. Read(ManifestPath(NameOf[m], VersionOf[m]))' = <<m>>
  BY <1>1 DEF Read, Exists, ManifestPath
<1>3. \A k \in Package, v \in Version :
        (k # NameOf[m] \/ v # VersionOf[m]) =>
          Read(ManifestPath(k, v))' = Read(ManifestPath(k, v))
  BY DEF Kept, Read, Exists, ManifestPath
<1> QED
  BY <1>1, <1>2, <1>3 DEF Shelves

\* Every step of the store is a step of its promise, or none.
LEMMA PromiseStep ==
  ASSUME SingleWriter, StoreInv, Staging, Placed, Shelf, [Next]_vars
  PROVE  [Promise!Next]_(Promise!vars)
<1> DEFINE Goal ==
      \/ \/ \E b \in Blob \ GoodBlobs : GoodBlobs' = GoodBlobs \cup {b}
            /\ Shelves' = Shelves /\ Choices' = Choices
         \/ /\ \E m \in Manifest :
                 /\ ArtifactsOf[m] # <<>>
                 /\ \A n \in 1 .. Len(ArtifactsOf[m]) : ArtifactsOf[m][n] \in GoodBlobs
                 /\ Shelves' = [Shelves EXCEPT ![NameOf[m]][VersionOf[m]] = <<m>>]
            /\ GoodBlobs' = GoodBlobs /\ Choices' = Choices
         \/ /\ \E k \in Package, v \in Version :
                 /\ Shelves[k][v] # <<>>
                 /\ Choices' = [Choices EXCEPT ![k] = <<v>>]
            /\ GoodBlobs' = GoodBlobs /\ Shelves' = Shelves
      \/ GoodBlobs' = GoodBlobs /\ Shelves' = Shelves /\ Choices' = Choices
<1>1. ASSUME NEW p \in Proc, PublishManifest(p) PROVE Goal
  <2> DEFINE x == ManifestPart(HeldName(p), HeldVersion(p))
             y == ManifestPath(HeldName(p), HeldVersion(p))
             m == Held(p)
  <2>1. /\ pc[p] = "publish" /\ pc[p] \in Holding /\ Rename(x, y)
        /\ Len(ArtifactsOf[m]) \in 1 .. MaxArtifacts /\ file[x] = man[p]
        /\ man[p] = file[CachePath(job[p])] /\ job[p] \in Package
    BY <1>1, PulledAssumption
       DEF PublishManifest, Holding, Labels, Shelf, Registers, StoreInv, TypeOK
  <2>2. /\ m \in Manifest /\ NameOf[m] \in Package /\ VersionOf[m] \in Version
        /\ ArtifactsOf[m] \in Seq(Blob)
        /\ HeldName(p) = NameOf[m] /\ HeldVersion(p) = VersionOf[m]
    BY <2>1, HeldFacts DEF HeldName, HeldVersion
  <2>3. man[p] = <<m>>
    <3>1. man[p] # <<>> /\ man[p] \in Seq(Manifest)
      BY <2>1 DEF StoreInv, Busy, TypeOK
    <3>2. man[p] \in OneManifest
      BY <2>1, <3>1, SentinelAssumption, Texts DEF Shelf, Shelved, CacheOf
    <3> QED
      BY <3>2 DEF OneManifest, Held
  <2>4. file'[y] = <<m>> /\ \A z \in Path \ {x, y} : Kept(z)
    BY <2>1, <2>3, RegisterNames, RenameFacts DEF Kept
  <2>5. /\ \A k \in Package : Kept(CurrentPath(k))
        /\ \A k \in Package, v \in Version :
             (k # NameOf[m] \/ v # VersionOf[m]) => Kept(ManifestPath(k, v))
    BY <2>1, <2>2, <2>4, RegisterNames, PathFacts
  <2>6. Choices' = Choices
    BY <2>5, KeptIsRead
  <2>7. Shelves' = [Shelves EXCEPT ![NameOf[m]][VersionOf[m]] = <<m>>]
    <3>1. file'[ManifestPath(NameOf[m], VersionOf[m])] = <<m>>
      BY <2>2, <2>4
    <3> HIDE DEF m
    <3> QED
      BY <2>2, <2>5, <3>1, ShelvesWith
  <2>8. ASSUME NEW n \in 1 .. Len(ArtifactsOf[m]) PROVE ArtifactsOf[m][n] \in GoodBlobs
    <3>1. ArtifactsOf[m][n] \in Blob /\ n <= Done(p)
      BY <2>1, <2>2 DEF Done, Registering
    <3> QED
      BY <2>1, <3>1 DEF Placed, Staging, BlobFiles, GoodBlobs, Verified
  <2>9. ArtifactsOf[m] # <<>>
    BY <2>1
  <2>10. GoodBlobs' = GoodBlobs
    <3>1. ASSUME NEW q \in Proc, LinkBlob(q) PROVE FALSE
      BY <2>1, <3>1 DEF LinkBlob, SingleWriter
    <3> QED
      BY <3>1, GoodBlobsStep
  <2> HIDE DEF m
  <2> QED
    BY <2>2, <2>6, <2>7, <2>8, <2>9, <2>10
<1>2. ASSUME NEW p \in Proc, SelectVersion(p) PROVE Goal
  <2> DEFINE x == CurrentPart(HeldName(p))
             y == CurrentPath(HeldName(p))
             k == HeldName(p)
             v == HeldVersion(p)
  <2>1. /\ pc[p] = "select" /\ pc[p] \in Holding /\ Rename(x, y)
        /\ file[x] = <<v>> /\ file[ManifestPath(k, v)] # Absent
    BY <1>2 DEF SelectVersion, Holding, Labels, Shelf, Registers
  <2>2. k \in Package /\ v \in Version
    BY <2>1, HeldFacts
  <2>3. file'[y] = <<v>> /\ \A z \in Path \ {x, y} : Kept(z)
    BY <2>1, RegisterNames, RenameFacts DEF Kept
  <2>4. /\ \A j \in Package : j # k => Kept(CurrentPath(j))
        /\ \A j \in Package, w \in Version : Kept(ManifestPath(j, w))
    BY <2>1, <2>2, <2>3, RegisterNames, PathFacts
  <2>5. Shelves' = Shelves
    BY <2>4, KeptIsRead
  <2>6. Shelves[k][v] # <<>>
    BY <2>1, <2>2 DEF Shelf, Shelved, ShelfOf, Shelves, Read, Exists
  <2>7. Choices' = [Choices EXCEPT ![k] = <<v>>]
    <3>1. Absent # <<v>>
      BY <2>2, SentinelAssumption, Texts
    <3>2. file'[CurrentPath(k)] = <<v>>
      BY <2>3
    <3> HIDE DEF k, v
    <3>3. \A j \in Package :
            Read(CurrentPath(j))' = IF j = k THEN <<v>> ELSE Read(CurrentPath(j))
      BY <2>4, <3>1, <3>2 DEF Kept, Read, Exists, CurrentPath
    <3> QED
      BY <2>2, <3>3 DEF Choices
  <2>8. GoodBlobs' = GoodBlobs
    <3>1. ASSUME NEW q \in Proc, LinkBlob(q) PROVE FALSE
      BY <2>1, <3>1 DEF LinkBlob, SingleWriter
    <3> QED
      BY <3>1, GoodBlobsStep
  <2> HIDE DEF k, v
  <2> QED
    BY <2>2, <2>5, <2>6, <2>7, <2>8
<1>3. ASSUME \A p \in Proc : ~PublishManifest(p) /\ ~SelectVersion(p) PROVE Goal
  <2>1. Shelves' = Shelves /\ Choices' = Choices
    BY <1>3, ReadersFiles, KeptIsRead
  <2> QED
    BY <2>1, GoodBlobsStep
<1>4. Goal
  BY <1>1, <1>2, <1>3
<1> QED
  BY <1>4 DEF Promise!Next, Promise!AddBlob, Promise!Install, Promise!Choose, Promise!vars,
              GoodBlobs, Shelves, Choices

\* When nothing overlaps, pulls implement the abstract store, with the kills and
\* failures between and within them.
THEOREM StoreKeepsPromise == ASSUME SingleWriter PROVE Spec => KeepsPromise
<1>1. Init => Promise!Init
  <2> SUFFICES ASSUME Init PROVE Promise!Init
    OBVIOUS
  <2>1. \A x \in Path : file[x] = Absent
    BY DEF Init
  <2>2. \A b \in Blob : ~Verified(BlobPath(b))
    <3>1. \A b \in Blob : file[BlobPath(b)] = Absent
      BY <2>1, PathFacts
    <3> QED
      BY <3>1, VerifiedIsThere
  <2>3. /\ \A k \in Package, v \in Version : Read(ManifestPath(k, v)) = <<>>
        /\ \A k \in Package : Read(CurrentPath(k)) = <<>>
    BY <2>1, PathFacts DEF Read, Exists
  <2> QED
    BY <2>2, <2>3 DEF Promise!Init
<1>2. StoreInv /\ Staging /\ Placed /\ Shelf /\ [Next]_vars => [Promise!Next]_(Promise!vars)
  BY PromiseStep
<1> QED
  BY <1>1, <1>2, StoreInvariant, StagingInvariant, PlacedInvariant, ShelfInvariant, PTL
     DEF Spec, KeepsPromise, Promise!Spec

\* A chosen and installed version is what inspect finds healthy.
ChosenIsHealthy(k, v) ==
  file[CurrentPath(k)] = <<v>> /\ (file[ManifestPath(k, v)] # Absent) => Inspect(k) = 0
ChosenAreHealthy == \A k \in Package, v \in Version : ChosenIsHealthy(k, v)

LEMMA HealthyShelf == Shelved => ChosenAreHealthy
<1> SUFFICES ASSUME Shelved, NEW k \in Package, NEW v \in Version,
                    file[CurrentPath(k)] = <<v>>, file[ManifestPath(k, v)] # Absent
             PROVE  Inspect(k) = 0
  BY DEF ChosenAreHealthy, ChosenIsHealthy
<1>1. Absent # <<v>>
  BY SentinelAssumption, Texts
<1>2. PICK m \in Manifest :
        /\ file[ManifestPath(k, v)] = <<m>> /\ NameOf[m] = k /\ VersionOf[m] = v
        /\ Len(ArtifactsOf[m]) \in 1 .. MaxArtifacts
        /\ \A n \in 1 .. Len(ArtifactsOf[m]) : file[BlobPath(ArtifactsOf[m][n])] = Genuine
  BY DEF Shelved, ShelfOf
<1>3. Read(CurrentPath(k)) = <<v>> /\ Read(ManifestPath(k, v)) = <<m>>
  BY <1>1, <1>2 DEF Read, Exists
<1>4. Parses(<<m>>)
  BY <1>2 DEF Parses
<1> QED
  BY <1>2, <1>3, <1>4 DEF Inspect, Verified

\* When nothing overlaps, a pull that returns 0 leaves a package that inspect
\* finds healthy.
THEOREM StoreSuccessIsHealthy == ASSUME SingleWriter PROVE Spec => SuccessIsHealthy
<1>1. ASSUME StoreInv, Staging, Placed, Shelf, [Next]_vars, NEW p \in Proc, SelectVersion(p)
      PROVE  Inspect(job[p])' = 0
  <2> DEFINE k == HeldName(p)
             v == HeldVersion(p)
  <2>1. /\ pc[p] \in Holding /\ Rename(CurrentPart(k), CurrentPath(k)) /\ job' = job
        /\ file[CurrentPart(k)] = <<v>> /\ file[ManifestPath(k, v)] # Absent /\ k = job[p]
    BY <1>1 DEF SelectVersion, Exit, Holding, Labels, Shelf, Registers
  <2>2. k \in Package /\ v \in Version /\ Absent # <<v>>
    BY <1>1, <2>1, HeldFacts, SentinelAssumption, Texts
  <2>3. file'[CurrentPath(k)] = <<v>>
    BY <1>1, <2>1, RegisterNames, RenameFacts
  <2>4. file'[ManifestPath(k, v)] # Absent
    BY <1>1, <2>1, <2>2, PathFacts, VisibleStays
  <2>5. Shelved'
    BY <1>1, SelectStep
  <2> HIDE DEF k, v
  <2>6. ChosenAreHealthy'
    BY HealthyShelf, <2>5, PTL
  <2>7. ASSUME job'[p] = k PROVE Inspect(job[p])' = 0
    BY <2>2, <2>3, <2>4, <2>6, <2>7
       DEF ChosenAreHealthy, ChosenIsHealthy, CurrentPath, ManifestPath, Inspect, Read, Exists, Verified, Parses
  <2> QED
    BY <2>1, <2>7 DEF k
<1>2. StoreInv /\ Staging /\ Placed /\ Shelf /\ [Next]_vars =>
        [\A p \in Proc : SelectVersion(p) => Inspect(job[p])' = 0]_vars
  BY <1>1
<1> QED
  BY <1>2, StoreInvariant, StagingInvariant, PlacedInvariant, ShelfInvariant, PTL
     DEF Spec, SuccessIsHealthy

=============================================================================
