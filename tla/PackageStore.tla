---------------------------- MODULE PackageStore ----------------------------
(***************************************************************************)
(* The local package store of `niyah pull` (native/niyah_cli.c).           *)
(*                                                                         *)
(* The store is a directory tree shared by every niyah process of a user:  *)
(*                                                                         *)
(*   cache/<package>.manifest                the last manifest fetched     *)
(*   blobs/<sha256>.part, blobs/<sha256>     staged and installed blobs    *)
(*   packages/<package>/<version>/manifest.niyah(.part)                    *)
(*   packages/<package>/current(.part)       the selected version          *)
(*                                                                         *)
(* The program takes no lock, so what a process does between two system    *)
(* calls interleaves with every other process.  The code links, renames,   *)
(* truncates and appends, so a file may have two names and an open         *)
(* descriptor may write to a file whose name has changed since.  curl is a *)
(* plain child process: it lives on when only its niyah is killed.         *)
(***************************************************************************)
EXTENDS Naturals, Sequences

CONSTANTS
  Proc,         \* processes running `niyah pull`
  Package,      \* valid package names
  Pulled,       \* the packages that users pull
  Version,      \* valid version strings
  Blob,         \* SHA-256 values that artifacts are addressed by
  Manifest,     \* complete manifest files the registry may serve
  NameOf,       \* [Manifest -> Package], the "name" line
  VersionOf,    \* [Manifest -> Version], the "version" line
  ArtifactsOf,  \* [Manifest -> Seq(Blob)], the "artifact" lines
  MaxArtifacts, \* NIYAH_MAX_ARTIFACTS
  Chunks,       \* pieces in which curl receives an artifact
  Absent,       \* no file of that name
  NoFile,       \* a process with no open file
  Orphan        \* an open file whose last name is gone

ASSUME ManifestAssumption ==
  /\ NameOf \in [Manifest -> Package]
  /\ VersionOf \in [Manifest -> Version]
  /\ ArtifactsOf \in [Manifest -> Seq(Blob)]
ASSUME PulledAssumption == Pulled \subseteq Package
ASSUME SizeAssumption == Chunks \in Nat \ {0} /\ MaxArtifacts \in Nat

VARIABLES
  registry,  \* the manifests the registry may serve for each package
  sound,     \* from now on network, disk and processes do not fail
  ranges,    \* the artifact servers answer range requests; before `sound`
             \* a server that does not is one of the failures of CurlFails
  stray,     \* processes that were killed and whose curl child lives on
  file,      \* the content each name leads to
  linked,    \* blobs whose staging name and final name are one file
  pc,        \* where each process is in pull_package
  job,       \* its argument: the package it pulls
  man,       \* the manifest it holds: curl's response, then the parsed file
  idx,       \* the artifact it works on
  fd,        \* the file it, or its curl child, has open for writing
  off,       \* the next chunk its curl child will receive
  rc         \* its exit code

env    == <<registry, sound, ranges, stray>>
disk   == <<file, linked>>
locals == <<pc, job, man, idx, fd, off, rc>>
vars   == <<env, disk, locals>>

-----------------------------------------------------------------------------
(* Names and contents.  A file's content is a sequence: the chunks of an   *)
(* artifact, or one manifest, or one version; <<>> is a file just opened   *)
(* for writing, which parse_manifest and read_current_version refuse.      *)

CachePath(k)       == <<"cache", k>>
PartPath(b)        == <<"part", b>>
BlobPath(b)        == <<"blob", b>>
ManifestPath(k, v) == <<"manifest", k, v>>
ManifestPart(k, v) == <<"manifest.part", k, v>>
CurrentPath(k)     == <<"current", k>>
CurrentPart(k)     == <<"current.part", k>>

Path ==
  ({"cache", "current", "current.part"} \X Package)
    \cup ({"part", "blob"} \X Blob)
    \cup ({"manifest", "manifest.part"} \X Package \X Version)

Damaged == 0        \* a chunk whose bytes are wrong, or a hole
Datum   == (0 .. Chunks) \cup Manifest \cup Version

\* No content is the absence of a file, and no name that of an open file without one
ASSUME SentinelAssumption ==
  Absent \notin Seq(Datum) /\ NoFile \notin Path /\ Orphan \notin Path /\ NoFile # Orphan

Genuine == [i \in 1 .. Chunks |-> i]  \* the content a blob's hash names

Exists(x) == file[x] # Absent
Read(x)   == IF Exists(x) THEN file[x] ELSE <<>>

\* verify_file: the file is there and hashes to the expected value
Verified(x) == file[x] = Genuine

\* the names of the file that x names
Names(x) ==
  {y \in Path : y = x \/ \E b \in linked : {x, y} = {PartPath(b), BlobPath(b)}}

\* the store after the file named x gets content c
Stored(x, c) == [y \in Path |-> IF y \in Names(x) THEN c ELSE file[y]]

\* write(2) at position n of a content s: a gap reads back as zeroes
WriteAt(s, n, c) ==
  [i \in 1 .. (IF n > Len(s) THEN n ELSE Len(s)) |->
     IF i = n THEN c ELSE IF i <= Len(s) THEN s[i] ELSE Damaged]

\* fopen(x, "wb") creates the file or truncates it
OpenTruncated(p, x) ==
  /\ fd' = [fd EXCEPT ![p] = x]
  /\ file' = Stored(x, <<>>)
  /\ UNCHANGED linked

\* fwrite of a small text, flushed by fclose
WriteAndClose(p, text) ==
  /\ fd' = [fd EXCEPT ![p] = NoFile]
  /\ file' = Stored(fd[p], text)
  /\ UNCHANGED linked

\* unlink or remove of a staged blob; processes that have it open keep it
RemovePart(b) ==
  /\ file' = [file EXCEPT ![PartPath(b)] = Absent]
  /\ linked' = linked \ {b}
  /\ fd' = [q \in Proc |-> IF fd[q] # PartPath(b) THEN fd[q]
                          ELSE IF b \in linked THEN BlobPath(b) ELSE Orphan]

\* rename(x, y): open files follow the name x; the old y loses its name
Rename(x, y) ==
  /\ file' = [file EXCEPT ![y] = file[x], ![x] = Absent]
  /\ fd' = [q \in Proc |-> IF fd[q] = x THEN y
                          ELSE IF fd[q] = y THEN Orphan ELSE fd[q]]
  /\ UNCHANGED linked

-----------------------------------------------------------------------------
(* parse_manifest, and what the process reads from the manifest it holds.  *)

Parses(text) ==
  /\ text # <<>>
  /\ Len(ArtifactsOf[text[1]]) \in 1 .. MaxArtifacts

Held(p)     == man[p][1]
Artifact(p) == ArtifactsOf[Held(p)][idx[p]]
HeldName(p)    == NameOf[Held(p)]
HeldVersion(p) == VersionOf[Held(p)]

Running == 255   \* no exit code yet, or none because the process was killed
Codes   == {Running, 0, 3, 4, 5, 6}

Goto(p, label) == pc' = [pc EXCEPT ![p] = label]

\* The process ends with this exit code, or a stray curl ends unnoticed.
Exit(p, code) ==
  /\ Goto(p, "idle")
  /\ rc' = [rc EXCEPT ![p] = IF p \in stray THEN Running ELSE code]
  /\ stray' = stray \ {p}
  /\ man' = [man EXCEPT ![p] = <<>>]
  /\ idx' = [idx EXCEPT ![p] = 1]
  /\ off' = [off EXCEPT ![p] = 1]
  /\ UNCHANGED <<registry, sound, ranges, job>>

\* An exit that leaves the files as they are; an open one is closed.
ExitOnly(p, code) ==
  /\ Exit(p, code)
  /\ fd' = [fd EXCEPT ![p] = NoFile]
  /\ UNCHANGED disk

\* A step of the process that touches neither files nor descriptors.
NoFiles == UNCHANGED <<env, disk, fd>>

StartPull(p, k) ==
  /\ pc[p] = "idle"
  /\ job' = [job EXCEPT ![p] = k]
  /\ rc' = [rc EXCEPT ![p] = Running]
  /\ Goto(p, "fetch")
  /\ UNCHANGED <<man, idx, off>>
  /\ NoFiles

\* curl opens the cache file when the response arrives, then fills it.
FetchOpen(p) ==
  /\ pc[p] = "fetch"
  /\ OpenTruncated(p, CachePath(job[p]))
  /\ \E m \in registry[job[p]] : man' = [man EXCEPT ![p] = <<m>>]
  /\ Goto(p, "fetchWrite")
  /\ UNCHANGED <<env, job, idx, off, rc>>

FetchWrite(p) ==
  /\ pc[p] = "fetchWrite"
  /\ WriteAndClose(p, man[p])
  /\ man' = [man EXCEPT ![p] = <<>>]
  /\ Goto(p, "parse")
  /\ UNCHANGED <<env, job, idx, off, rc>>

ParseManifestAnyName(p) ==  \* mutant: the name comparison is dropped
  LET text == Read(CachePath(job[p])) IN
  /\ pc[p] = "parse" /\ p \notin stray
  /\ Parses(text)
  /\ man' = [man EXCEPT ![p] = text]
  /\ Goto(p, "artifact")
  /\ UNCHANGED <<job, idx, off, rc>>
  /\ NoFiles

\* Read the cache file back; it may be another process's by now.
ParseManifest(p) ==
  LET text == Read(CachePath(job[p])) IN
  /\ pc[p] = "parse" /\ p \notin stray
  /\ Parses(text) /\ NameOf[text[1]] = job[p]
  /\ man' = [man EXCEPT ![p] = text]
  /\ Goto(p, "artifact")
  /\ UNCHANGED <<job, idx, off, rc>>
  /\ NoFiles

RejectManifest(p) ==
  LET text == Read(CachePath(job[p])) IN
  /\ pc[p] = "parse" /\ p \notin stray
  /\ ~(Parses(text) /\ NameOf[text[1]] = job[p])
  /\ ExitOnly(p, 4)

-----------------------------------------------------------------------------
(* The artifact loop.                                                      *)

AfterArtifactShort(p) ==  \* mutant: the loop stops one artifact early
  IF idx[p] + 1 < Len(ArtifactsOf[Held(p)])
  THEN Goto(p, "artifact") /\ idx' = [idx EXCEPT ![p] = @ + 1]
  ELSE Goto(p, "copy") /\ UNCHANGED idx

AfterArtifactSelect(p) ==  \* mutant: `current` is written before the manifest
  IF idx[p] < Len(ArtifactsOf[Held(p)])
  THEN Goto(p, "artifact") /\ idx' = [idx EXCEPT ![p] = @ + 1]
  ELSE Goto(p, "current") /\ UNCHANGED idx

\* After an artifact: the next one, or registration once all are in place.
AfterArtifact(p) ==
  IF idx[p] < Len(ArtifactsOf[Held(p)])
  THEN Goto(p, "artifact") /\ idx' = [idx EXCEPT ![p] = @ + 1]
  ELSE Goto(p, "copy") /\ UNCHANGED idx

BlobMissing(p) ==
  /\ pc[p] = "artifact"
  /\ ~Exists(BlobPath(Artifact(p)))
  /\ Goto(p, "curl")
  /\ UNCHANGED <<job, man, idx, off, rc>>
  /\ NoFiles

BlobCached(p) ==
  /\ pc[p] = "artifact"
  /\ Verified(BlobPath(Artifact(p)))
  /\ AfterArtifact(p)
  /\ UNCHANGED <<job, man, off, rc>>
  /\ NoFiles

BlobRefusedDeleting(p) ==  \* mutant: a bad blob is deleted to heal the store
  /\ pc[p] = "artifact"
  /\ Exists(BlobPath(Artifact(p))) /\ ~Verified(BlobPath(Artifact(p)))
  /\ Exit(p, 5)
  /\ file' = [file EXCEPT ![BlobPath(Artifact(p))] = Absent]
  /\ UNCHANGED <<linked, fd>>

BlobRefused(p) ==
  /\ pc[p] = "artifact"
  /\ Exists(BlobPath(Artifact(p))) /\ ~Verified(BlobPath(Artifact(p)))
  /\ ExitOnly(p, 5)

CurlResumeFull(p) ==  \* mutant: off by one, a complete part is resumed too
  LET part == PartPath(Artifact(p)) IN
  /\ pc[p] = "curl"
  /\ Read(part) # <<>>
  /\ IF Len(Read(part)) <= Chunks
     THEN /\ ranges
          /\ Goto(p, "append")
          /\ fd' = [fd EXCEPT ![p] = part]
          /\ off' = [off EXCEPT ![p] = Len(Read(part)) + 1]
     ELSE Goto(p, "verify") /\ UNCHANGED <<fd, off>>
  /\ UNCHANGED <<env, disk, job, man, idx, rc>>

\* curl --continue-at -: a part with bytes in it is resumed, appending from
\* its length on (a full-length one leaves nothing to fetch); otherwise the
\* file is opened, and truncated, when the first bytes arrive.
CurlResume(p) ==
  LET part == PartPath(Artifact(p)) IN
  /\ pc[p] = "curl"
  /\ Read(part) # <<>>
  /\ IF Len(Read(part)) < Chunks
     THEN /\ ranges
          /\ Goto(p, "append")
          /\ fd' = [fd EXCEPT ![p] = part]
          /\ off' = [off EXCEPT ![p] = Len(Read(part)) + 1]
     ELSE Goto(p, "verify") /\ UNCHANGED <<fd, off>>
  /\ UNCHANGED <<env, disk, job, man, idx, rc>>

\* curl refuses to resume from a server that sends the whole artifact, each
\* time it is asked again
Unresumable(b) ==
  ~ranges /\ Read(PartPath(b)) # <<>> /\ Len(Read(PartPath(b))) < Chunks

CurlCannotResume(p) ==
  /\ pc[p] = "curl"
  /\ Unresumable(Artifact(p))
  /\ ExitOnly(p, 3)

CurlFresh(p) ==
  /\ pc[p] = "curl"
  /\ Read(PartPath(Artifact(p))) = <<>>
  /\ Goto(p, "open")
  /\ UNCHANGED <<job, man, idx, off, rc>>
  /\ NoFiles

CurlOpen(p) ==
  /\ pc[p] = "open"
  /\ OpenTruncated(p, PartPath(Artifact(p)))
  /\ off' = [off EXCEPT ![p] = 1]
  /\ Goto(p, "write")
  /\ UNCHANGED <<env, job, man, idx, rc>>

\* A chunk arrives, as the publisher hashed it or not; the last one closes
\* the file and curl returns 0.
CurlChunk(p) ==
  /\ pc[p] \in {"write", "append"}
  /\ \E c \in {off[p]} \cup (IF sound THEN {} ELSE {Damaged}) :
       LET old == IF fd[p] = Orphan THEN <<>> ELSE Read(fd[p])
           new == IF pc[p] = "append" THEN Append(old, c)
                                      ELSE WriteAt(old, off[p], c)
       IN file' = Stored(fd[p], new)
  /\ IF off[p] < Chunks
     THEN off' = [off EXCEPT ![p] = @ + 1] /\ UNCHANGED <<pc, fd>>
     ELSE /\ off' = [off EXCEPT ![p] = 1]
          /\ fd' = [fd EXCEPT ![p] = NoFile]
          /\ Goto(p, "verify")
  /\ UNCHANGED <<env, linked, job, man, idx, rc>>

\* Nobody waits for a curl whose niyah was killed.
StrayEnds(p) ==
  /\ p \in stray
  /\ pc[p] \in {"parse", "verify"}
  /\ ExitOnly(p, Running)

VerifyPartTrusting(p) ==  \* mutant: curl's exit code is trusted
  /\ pc[p] = "verify" /\ p \notin stray
  /\ Goto(p, "link")
  /\ UNCHANGED <<job, man, idx, off, rc>>
  /\ NoFiles

VerifyPart(p) ==
  /\ pc[p] = "verify" /\ p \notin stray
  /\ Goto(p, IF Verified(PartPath(Artifact(p))) THEN "link" ELSE "discard")
  /\ UNCHANGED <<job, man, idx, off, rc>>
  /\ NoFiles

DiscardPartKept(p) ==  \* mutant: a part that fails verification stays
  /\ pc[p] = "discard"
  /\ ExitOnly(p, 5)

\* remove(part_path): whatever has that name now
DiscardPart(p) ==
  /\ pc[p] = "discard"
  /\ RemovePart(Artifact(p))
  /\ Exit(p, 5)

LinkBlobReplacing(p) ==  \* mutant: rename(2) semantics, the last one wins
  /\ pc[p] = "link"
  /\ Exists(PartPath(Artifact(p)))
  /\ file' = [file EXCEPT ![BlobPath(Artifact(p))] = file[PartPath(Artifact(p))]]
  /\ linked' = linked \cup {Artifact(p)}
  /\ Goto(p, "unlink")
  /\ UNCHANGED <<env, job, man, idx, fd, off, rc>>

\* install_verified_blob_no_replace: link(2) never replaces a name
LinkBlob(p) ==
  LET part == PartPath(Artifact(p))
      blob == BlobPath(Artifact(p))
  IN
  /\ pc[p] = "link"
  /\ Exists(part) /\ ~Exists(blob)
  /\ file' = [file EXCEPT ![blob] = file[part]]
  /\ linked' = linked \cup {Artifact(p)}
  /\ Goto(p, "unlink")
  /\ UNCHANGED <<env, job, man, idx, fd, off, rc>>

LinkNoPart(p) ==
  /\ pc[p] = "link"
  /\ ~Exists(PartPath(Artifact(p)))
  /\ ExitOnly(p, 6)

LinkLostRace(p) ==
  /\ pc[p] = "link"
  /\ Exists(PartPath(Artifact(p))) /\ Exists(BlobPath(Artifact(p)))
  /\ Goto(p, "recheck")
  /\ UNCHANGED <<job, man, idx, off, rc>>
  /\ NoFiles

RecheckBlob(p) ==
  /\ pc[p] = "recheck"
  /\ Verified(BlobPath(Artifact(p)))
  /\ Goto(p, "unlink")
  /\ UNCHANGED <<job, man, idx, off, rc>>
  /\ NoFiles

RecheckRefused(p) ==
  /\ pc[p] = "recheck"
  /\ ~Verified(BlobPath(Artifact(p)))
  /\ ExitOnly(p, 5)

UnlinkPart(p) ==
  /\ pc[p] = "unlink"
  /\ RemovePart(Artifact(p))
  /\ AfterArtifact(p)
  /\ UNCHANGED <<env, job, man, off, rc>>

-----------------------------------------------------------------------------
(* Registration: the cached manifest is copied beside the package and      *)
(* renamed into place, then the version is written to `current`.           *)

CopyOpen(p) ==
  /\ pc[p] = "copy"
  /\ OpenTruncated(p, ManifestPart(HeldName(p), HeldVersion(p)))
  /\ Goto(p, "copyWrite")
  /\ UNCHANGED <<env, job, man, idx, off, rc>>

\* copy_file reads the shared cache file, not the manifest it parsed.
CopyWrite(p) ==
  /\ pc[p] = "copyWrite"
  /\ WriteAndClose(p, Read(CachePath(job[p])))
  /\ Goto(p, "publish")
  /\ UNCHANGED <<env, job, man, idx, off, rc>>

PublishManifest(p) ==
  LET part == ManifestPart(HeldName(p), HeldVersion(p)) IN
  /\ pc[p] = "publish"
  /\ Exists(part)
  /\ Rename(part, ManifestPath(HeldName(p), HeldVersion(p)))
  /\ Goto(p, "current")
  /\ UNCHANGED <<env, job, man, idx, off, rc>>

CurrentOpen(p) ==
  /\ pc[p] = "current"
  /\ OpenTruncated(p, CurrentPart(HeldName(p)))
  /\ Goto(p, "currentWrite")
  /\ UNCHANGED <<env, job, man, idx, off, rc>>

CurrentWrite(p) ==
  /\ pc[p] = "currentWrite"
  /\ WriteAndClose(p, <<HeldVersion(p)>>)
  /\ Goto(p, "select")
  /\ UNCHANGED <<env, job, man, idx, off, rc>>

SelectVersion(p) ==
  /\ pc[p] = "select"
  /\ Exists(CurrentPart(HeldName(p)))
  /\ Rename(CurrentPart(HeldName(p)), CurrentPath(HeldName(p)))
  /\ Exit(p, 0)

\* rename(2) fails: another process renamed the shared .part first
RenameNoPart(p) ==
  /\ \/ pc[p] = "publish" /\ ~Exists(ManifestPart(HeldName(p), HeldVersion(p)))
     \/ pc[p] = "select" /\ ~Exists(CurrentPart(HeldName(p)))
  /\ ExitOnly(p, 6)

-----------------------------------------------------------------------------
(* Faults and the outside world.                                           *)

\* where a process waits for its curl child
Curling == {"fetch", "fetchWrite", "curl", "open", "write", "append"}

\* curl fails at any point of a transfer; what it wrote stays.
CurlFails(p) ==
  /\ ~sound
  /\ pc[p] \in Curling
  /\ ExitOnly(p, 3)

\* verify_file cannot read the file: the same to its callers as a mismatch
ReadFails(p) ==
  /\ ~sound
  /\ \/ /\ pc[p] = "verify" /\ p \notin stray /\ Goto(p, "discard")
        /\ UNCHANGED <<job, man, idx, off, rc>> /\ NoFiles
     \/ /\ pc[p] \in {"artifact", "recheck"} /\ Exists(BlobPath(Artifact(p)))
        /\ ExitOnly(p, 5)

\* unlink(2) fails: an installed blob keeps its staging name, and the pull
\* goes on; a bad part stays where it is
UnlinkFails(p) ==
  /\ ~sound
  /\ \/ /\ pc[p] = "unlink" /\ AfterArtifact(p)
        /\ UNCHANGED <<job, man, off, rc>> /\ NoFiles
     \/ pc[p] = "discard" /\ ExitOnly(p, 5)

\* a mkdir, open, write or rename of the store fails
StoreFails(p) ==
  /\ ~sound
  /\ pc[p] \in {"link", "copy", "copyWrite", "publish",
                "current", "currentWrite", "select"}
  /\ ExitOnly(p, 6)

\* the process is killed between two steps, and its curl child with it (the
\* machine stops, a signal reaches both): no exit code is reported
Crash(p) ==
  /\ ~sound
  /\ pc[p] # "idle"
  /\ ExitOnly(p, Running)

\* only niyah is killed, in waitpid: its curl child goes on writing
CrashAlone(p) ==
  /\ ~sound
  /\ pc[p] \in Curling /\ p \notin stray
  /\ stray' = stray \cup {p}
  /\ UNCHANGED <<registry, sound, ranges, disk, locals>>

\* From now on nothing fails, and nothing new is published.  That faults end
\* during a pull is the case that its last steps met none.
Settle ==
  /\ ~sound /\ \A p \in Proc : pc[p] = "idle"
  /\ sound' = TRUE
  /\ registry' \in [Pulled -> {{m} : m \in Manifest}]
  /\ ranges' \in BOOLEAN
  /\ UNCHANGED <<stray, disk, locals>>

Init ==
  /\ registry = [k \in Pulled |-> Manifest]
  /\ sound = FALSE
  /\ ranges = TRUE
  /\ stray = {}
  /\ file = [x \in Path |-> Absent]
  /\ linked = {}
  /\ pc = [p \in Proc |-> "idle"]
  /\ job \in [Proc -> Pulled]
  /\ man = [p \in Proc |-> <<>>]
  /\ idx = [p \in Proc |-> 1]
  /\ fd = [p \in Proc |-> NoFile]
  /\ off = [p \in Proc |-> 1]
  /\ rc = [p \in Proc |-> Running]

\* the steps of pull_package itself, its curl children included
Pull(p) ==
  \/ FetchOpen(p) \/ FetchWrite(p) \/ ParseManifest(p) \/ RejectManifest(p)
  \/ BlobMissing(p) \/ BlobCached(p) \/ BlobRefused(p)
  \/ CurlResume(p) \/ CurlCannotResume(p) \/ CurlFresh(p) \/ CurlOpen(p)
  \/ CurlChunk(p) \/ StrayEnds(p) \/ VerifyPart(p) \/ DiscardPart(p)
  \/ LinkBlob(p) \/ LinkNoPart(p) \/ LinkLostRace(p)
  \/ RecheckBlob(p) \/ RecheckRefused(p) \/ UnlinkPart(p)
  \/ CopyOpen(p) \/ CopyWrite(p) \/ PublishManifest(p)
  \/ CurrentOpen(p) \/ CurrentWrite(p) \/ SelectVersion(p) \/ RenameNoPart(p)

Fault(p) ==
  \/ CurlFails(p) \/ ReadFails(p) \/ UnlinkFails(p) \/ StoreFails(p)
  \/ Crash(p) \/ CrashAlone(p)

Next ==
  \/ \E p \in Proc, k \in Pulled : StartPull(p, k)
  \/ \E p \in Proc : Pull(p) \/ Fault(p)
  \/ Settle

Spec == Init /\ [][Next]_vars

\* A started program runs on, and its users keep pulling every package.
LiveSpec ==
  /\ Spec
  /\ \A p \in Proc : WF_vars(Pull(p))
  /\ \A k \in Pulled : SF_vars(\E p \in Proc : StartPull(p, k))

\* No two niyah processes run at once.
PullsApart ==
  \A p, q \in Proc \ stray : pc[p] # "idle" /\ pc[q] # "idle" => p = q

\* Pulls one at a time: a new one may still meet the curl child of one that
\* was killed.
SerialNext ==
  \/ \E p \in Proc, k \in Pulled : StartPull(p, k) /\ PullsApart'
  \/ \E p \in Proc : Pull(p) \/ Fault(p)
  \/ Settle

SerialSpec == Init /\ [][SerialNext]_vars

-----------------------------------------------------------------------------
(* Properties                                                              *)

Labels == {"idle", "fetch", "fetchWrite", "parse", "artifact", "curl", "open",
           "write", "append", "verify", "discard", "link", "recheck",
           "unlink", "copy", "copyWrite", "publish", "current",
           "currentWrite", "select"}

\* Every variable has its type.
TypeOK ==
  /\ registry \in [Pulled -> SUBSET Manifest]
  /\ sound \in BOOLEAN /\ ranges \in BOOLEAN
  /\ stray \in SUBSET Proc
  /\ file \in [Path -> Seq(Datum) \cup {Absent}]
  /\ linked \in SUBSET Blob
  /\ pc \in [Proc -> Labels]
  /\ job \in [Proc -> Pulled]
  /\ man \in [Proc -> Seq(Manifest)]
  /\ idx \in [Proc -> Nat \ {0}]
  /\ fd \in [Proc -> Path \cup {NoFile, Orphan}]
  /\ off \in [Proc -> 1 .. Chunks]
  /\ rc \in [Proc -> Codes]

\* Nothing overlaps: no pull starts while another one, or the curl child that
\* a killed one left behind, still runs.  niyah ensures neither; it is a
\* hypothesis of what follows, and SerialSpec shows that keeping the niyah
\* processes apart is not enough.  Which pull comes after which, where one is
\* killed and what its curl writes afterwards stays open: with one process
\* the next StartPull is the next invocation.
SingleWriter == \A p, q \in Proc : p = q

\* A blob's name always leads to the bytes its hash names
\* (install_verified_blob_no_replace installs only verified files).
BlobsGenuine == \A b \in Blob : Exists(BlobPath(b)) => Verified(BlobPath(b))

\* The manifest under packages/<k>/<v> is the manifest of version v of k,
\* and every artifact it lists is in the store with the right bytes: at any
\* moment, so also after a crash between any two steps of a pull.
Complete(k, v) ==
  LET text == Read(ManifestPath(k, v)) IN
  /\ Parses(text)
  /\ NameOf[text[1]] = k /\ VersionOf[text[1]] = v
  /\ \A n \in 1 .. Len(ArtifactsOf[text[1]]) :
       Verified(BlobPath(ArtifactsOf[text[1]][n]))

InstalledComplete ==
  \A k \in Package, v \in Version : Exists(ManifestPath(k, v)) => Complete(k, v)

\* `current` names a version whose manifest is installed, so `niyah list`,
\* `inspect` and `run` never meet a version that is not there.
CurrentInstalled ==
  \A k \in Package :
    Exists(CurrentPath(k)) =>
      \E v \in Version :
        Read(CurrentPath(k)) = <<v>> /\ Exists(ManifestPath(k, v))

\* What `niyah inspect k` returns when nothing else runs (inspect_package).
Inspect(k) ==
  LET chosen == Read(CurrentPath(k))
      text   == Read(ManifestPath(k, chosen[1]))
  IN
  IF chosen = <<>> THEN 7
  ELSE IF ~(/\ Parses(text)
            /\ NameOf[text[1]] = k /\ VersionOf[text[1]] = chosen[1])
  THEN 4
  ELSE IF \A n \in 1 .. Len(ArtifactsOf[text[1]]) :
            Verified(BlobPath(ArtifactsOf[text[1]][n]))
  THEN 0 ELSE 5

\* A pull that returns 0 leaves a package `niyah inspect` finds healthy.
SuccessIsHealthy ==
  [][\A p \in Proc : SelectVersion(p) => Inspect(job[p])' = 0]_vars

\* A partial part of an artifact whose server does not answer range requests
\* stays for good: no step of niyah removes it.
Wedged(m) ==
  \E n \in 1 .. Len(ArtifactsOf[m]) :
    Unresumable(ArtifactsOf[m][n]) /\ ~Exists(BlobPath(ArtifactsOf[m][n]))

\* No crash, failed transfer, damaged download or other leftover wedges the
\* store: once the faults stop, pulling again installs the version the
\* registry serves, and it stays healthy.
Recovers ==
  \A k \in Pulled :
    LET served == CHOOSE m \in registry[k] : TRUE IN
    (sound /\ ~Wedged(served) /\ Parses(<<served>>) /\ NameOf[served] = k)
      ~> [](/\ Inspect(k) = 0
            /\ Read(CurrentPath(k)) = <<VersionOf[served]>>)

\* What the store promises its readers, whatever steps bring it about.
Promise == INSTANCE AbstractStore WITH
  blobs  <- {b \in Blob : Verified(BlobPath(b))},
  shelf  <- [k \in Package |-> [v \in Version |-> Read(ManifestPath(k, v))]],
  chosen <- [k \in Package |-> Read(CurrentPath(k))]

\* Pulls that nothing overlaps, crashes included, implement that promise.
KeepsPromise == Promise!Spec

\* A process that registers a package has every artifact in the store: no
\* other process can take one away again.
RegistersWithBlobs ==
  \A p \in Proc :
    pc[p] \in {"copy", "copyWrite", "publish", "current", "currentWrite", "select"}
      => \A n \in 1 .. Len(ArtifactsOf[Held(p)]) :
           Exists(BlobPath(ArtifactsOf[Held(p)][n]))

\* What is installed stays visible: a blob, a manifest and `current` are
\* never absent again, not even between two steps of their replacement.
InstalledStays ==
  [][\A x \in Path :
       x[1] \in {"blob", "manifest", "current"} /\ Exists(x) => Exists(x)']_vars

\* A file under blobs/ is never replaced and never removed, whatever
\* processes race to install it: its content changes only by a write of a
\* curl child that opened it while it was still being staged.
BlobsNeverReplaced ==
  [][\A b \in Blob : Exists(BlobPath(b)) =>
       /\ Exists(BlobPath(b))'
       /\ file'[BlobPath(b)] # file[BlobPath(b)] =>
            \E p \in Proc : pc[p] \in {"open", "write", "append"}
                          /\ Artifact(p) = b]_vars

=============================================================================
