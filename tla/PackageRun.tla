----------------------------- MODULE PackageRun -----------------------------
(***************************************************************************)
(* `niyah run <package> --prompt TEXT [--proof PATH]`                      *)
(* (run_package in native/niyah_dispatch.c): read `current` and the        *)
(* installed manifest, verify the base and adapter artifacts, run the      *)
(* model process, and leave a proof receipt that is never overwritten.     *)
(*                                                                         *)
(* The store is the one AbstractStore promises, which pulls that nothing   *)
(* overlaps implement (PackageStore!KeepsPromise); its steps interleave    *)
(* with those of any number of runs.                                       *)
(***************************************************************************)
EXTENDS AbstractStore

CONSTANTS
  Runner,       \* slots for processes running `niyah run`
  Pid,          \* process identifiers, reused when a process has ended
  Target,       \* paths given to --proof
  NoTarget,     \* no --proof option
  Prompt, Output,
  ChildCode,    \* exit codes of the model process other than 0
  BaseOf,       \* [Manifest -> Blob or NoRole], artifact of role "base"
  AdapterOf,    \* the same for role "adapter"
  NoRole,
  Absent,       \* no file at this path
  Partial,      \* a temporary receipt not completely written
  Foreign       \* a file some other program put at a --proof path

ASSUME RoleAssumption ==
  /\ BaseOf \in [Manifest -> Blob \cup {NoRole}]
  /\ AdapterOf \in [Manifest -> Blob \cup {NoRole}]
  /\ NoRole \notin Blob
  /\ \A m \in Manifest :
       \A b \in {BaseOf[m], AdapterOf[m]} \ {NoRole} :
         \E n \in 1 .. Len(ArtifactsOf[m]) : ArtifactsOf[m][n] = b
ASSUME CodeAssumption == ChildCode \subseteq Nat \ {0}

VARIABLES
  pc,       \* where each run is
  args,     \* its package, prompt and proof target
  pid,      \* its process identifier
  ver,      \* the version it read from `current`
  man,      \* the manifest it parsed
  out,      \* the output its child printed, as hashed
  rc,       \* its exit code
  proof,    \* --proof path -> receipt
  temp,     \* <path>.tmp.<pid> -> receipt being written
  witnessed \* history: runs whose verified model exited 0, fully captured

store == <<blobs, shelf, chosen>>
files == <<proof, temp>>
runs  == <<pc, args, pid, ver, man, out, rc>>
runVars == <<store, files, runs, witnessed>>

-----------------------------------------------------------------------------

Running == 255   \* no exit code yet, or none because the process was killed

\* What a receipt commits to: prompt, output and the execution contract.
Receipt == [prompt : Prompt, output : Output, manifest : Manifest]

ASSUME SentinelAssumption ==
  /\ NoTarget \notin Target
  /\ Absent \notin Receipt

MyReceiptVersion(r) ==  \* mutant: the contract names the version string only
  [prompt |-> args[r].prompt, output |-> out[r][1], manifest |-> ver[r][1]]

MyReceipt(r) ==
  [prompt |-> args[r].prompt, output |-> out[r][1], manifest |-> man[r][1]]

MyTemp(r) == <<args[r].target, pid[r]>>

\* remove or unlink of the temporary file, whose result is not looked at
TempRemoved(r) == temp' \in {temp, [temp EXCEPT ![MyTemp(r)] = Absent]}

Goto(r, label) == pc' = [pc EXCEPT ![r] = label]

Exit(r, code) ==
  /\ Goto(r, "idle")
  /\ rc' = [rc EXCEPT ![r] = code]
  /\ ver' = [ver EXCEPT ![r] = <<>>]
  /\ man' = [man EXCEPT ![r] = <<>>]
  /\ out' = [out EXCEPT ![r] = <<>>]
  /\ UNCHANGED <<args, pid, store>>

BadArguments(r) ==
  /\ pc[r] = "idle"
  /\ Exit(r, 2)
  /\ UNCHANGED <<files, witnessed>>

StartRun(r) ==
  /\ pc[r] = "idle"
  /\ \E k \in Package, t \in Target \cup {NoTarget}, q \in Prompt :
       /\ args' = [args EXCEPT ![r] = [package |-> k, target |-> t, prompt |-> q]]
       /\ Goto(r, IF t = NoTarget THEN "current" ELSE "target")
  /\ \E n \in Pid :
       /\ \A s \in Runner \ {r} : pc[s] # "idle" => pid[s] # n
       /\ pid' = [pid EXCEPT ![r] = n]
  /\ rc' = [rc EXCEPT ![r] = Running]
  /\ UNCHANGED <<store, files, ver, man, out, witnessed>>

\* proof_path_state: an existing file is refused before anything runs.
TargetFree(r) ==
  /\ pc[r] = "target"
  /\ proof[args[r].target] = Absent
  /\ Goto(r, "current")
  /\ UNCHANGED <<store, files, args, pid, ver, man, out, rc, witnessed>>

TargetTaken(r) ==
  /\ pc[r] = "target"
  /\ proof[args[r].target] # Absent
  /\ Exit(r, 6)
  /\ UNCHANGED <<files, witnessed>>

ReadCurrent(r) ==
  /\ pc[r] = "current"
  /\ chosen[args[r].package] # <<>>
  /\ ver' = [ver EXCEPT ![r] = chosen[args[r].package]]
  /\ Goto(r, "manifest")
  /\ UNCHANGED <<store, files, args, pid, man, out, rc, witnessed>>

NotInstalled(r) ==
  /\ pc[r] = "current"
  /\ chosen[args[r].package] = <<>>
  /\ Exit(r, 7)
  /\ UNCHANGED <<files, witnessed>>

\* The manifest of the version read before; `current` may have moved on.
Runnable(r, text) ==
  /\ text # <<>>
  /\ ArtifactsOf[text[1]] # <<>>
  /\ NameOf[text[1]] = args[r].package
  /\ VersionOf[text[1]] = ver[r][1]
  /\ BaseOf[text[1]] # NoRole /\ AdapterOf[text[1]] # NoRole

ReadManifest(r) ==
  LET text == shelf[args[r].package][ver[r][1]] IN
  /\ pc[r] = "manifest"
  /\ Runnable(r, text)
  /\ man' = [man EXCEPT ![r] = text]
  /\ Goto(r, "verify")
  /\ UNCHANGED <<store, files, args, pid, ver, out, rc, witnessed>>

BadManifest(r) ==
  /\ pc[r] = "manifest"
  /\ ~Runnable(r, shelf[args[r].package][ver[r][1]])
  /\ Exit(r, 4)
  /\ UNCHANGED <<files, witnessed>>

ArtifactsVerified(r) ==
  BaseOf[man[r][1]] \in blobs /\ AdapterOf[man[r][1]] \in blobs

VerifyArtifacts(r) ==
  /\ pc[r] = "verify"
  /\ ArtifactsVerified(r)
  /\ Goto(r, "child")
  /\ UNCHANGED <<store, files, args, pid, ver, man, out, rc, witnessed>>

\* An artifact does not verify.  The store keeps every blob genuine, so this
\* is a file damaged from outside, or one that cannot be read.
RefuseToRun(r) ==
  /\ pc[r] = "verify"
  /\ Exit(r, 5)
  /\ UNCHANGED <<files, witnessed>>

\* A file cannot be examined or read: each check then fails as it would.
ReadFails(r) ==
  /\ \E x \in {<<"target", 6>>, <<"current", 7>>, <<"manifest", 4>>} :
       pc[r] = x[1] /\ Exit(r, x[2])
  /\ UNCHANGED <<files, witnessed>>

-----------------------------------------------------------------------------
(* The model process, and the receipt.                                     *)

\* The child exits 0; its output was read, hashed and passed on entirely.
ChildSucceeds(r) ==
  /\ pc[r] = "child"
  /\ \E o \in Output :
       IF args[r].target = NoTarget
       THEN Exit(r, 0) /\ UNCHANGED witnessed
       ELSE /\ out' = [out EXCEPT ![r] = <<o>>]
            /\ witnessed' = witnessed \cup
                 {[prompt |-> args[r].prompt, output |-> o,
                   manifest |-> man[r][1]]}
            /\ Goto(r, "create")
            /\ UNCHANGED <<store, args, pid, ver, man, rc>>
  /\ UNCHANGED files

CaptureIgnored(r) ==  \* mutant: capture_ok is not tested
  /\ pc[r] = "child"
  /\ args[r].target # NoTarget
  /\ \E o \in Output : out' = [out EXCEPT ![r] = <<o>>]
  /\ Goto(r, "create")
  /\ UNCHANGED <<store, files, args, pid, ver, man, rc, witnessed>>

\* The child exits 0 but its output stream broke (capture_ok is 0).
CaptureBroken(r) ==
  /\ pc[r] = "child"
  /\ args[r].target # NoTarget
  /\ Exit(r, 6)
  /\ UNCHANGED <<files, witnessed>>

ChildFails(r) ==
  /\ pc[r] = "child"
  /\ \E c \in ChildCode : Exit(r, c)
  /\ UNCHANGED <<files, witnessed>>

\* fopen(<path>.tmp.<pid>, "wbx") creates the file only if there is none
CreateTemp(r) ==
  /\ pc[r] = "create"
  /\ temp[MyTemp(r)] = Absent
  /\ temp' = [temp EXCEPT ![MyTemp(r)] = Partial]
  /\ Goto(r, "write")
  /\ UNCHANGED <<store, proof, args, pid, ver, man, out, rc, witnessed>>

\* ... and fails when the name exists, or for any other reason
TempRefused(r) ==
  /\ pc[r] = "create"
  /\ Exit(r, 6)
  /\ UNCHANGED <<files, witnessed>>

WriteTemp(r) ==
  /\ pc[r] = "write"
  /\ temp' = [temp EXCEPT ![MyTemp(r)] = MyReceipt(r)]
  /\ Goto(r, "link")
  /\ UNCHANGED <<store, proof, args, pid, ver, man, out, rc, witnessed>>

\* The write fails: the temporary file is removed.
WriteFails(r) ==
  /\ pc[r] = "write"
  /\ TempRemoved(r)
  /\ Exit(r, 6)
  /\ UNCHANGED <<proof, witnessed>>

LinkProofReplacing(r) ==  \* mutant: rename(2) instead of link(2)
  /\ pc[r] = "link"
  /\ proof' = [proof EXCEPT ![args[r].target] = temp[MyTemp(r)]]
  /\ Goto(r, "unlink")
  /\ UNCHANGED <<store, temp, args, pid, ver, man, out, rc, witnessed>>

\* link(2) never replaces a name
LinkProof(r) ==
  /\ pc[r] = "link"
  /\ proof[args[r].target] = Absent
  /\ proof' = [proof EXCEPT ![args[r].target] = temp[MyTemp(r)]]
  /\ Goto(r, "unlink")
  /\ UNCHANGED <<store, temp, args, pid, ver, man, out, rc, witnessed>>

LinkFailsQuietly(r) ==  \* mutant: an existing receipt counts as success
  /\ pc[r] = "link"
  /\ TempRemoved(r)
  /\ Exit(r, 0)
  /\ UNCHANGED <<proof, witnessed>>

\* The target exists by now, or link(2) fails otherwise.
LinkFails(r) ==
  /\ pc[r] = "link"
  /\ TempRemoved(r)
  /\ Exit(r, 6)
  /\ UNCHANGED <<proof, witnessed>>

UnlinkTemp(r) ==
  /\ pc[r] = "unlink"
  /\ TempRemoved(r)
  /\ Exit(r, 0)
  /\ UNCHANGED <<proof, witnessed>>

\* The process is killed: what it left on disk stays, its pid is free again.
Crash(r) ==
  /\ pc[r] # "idle"
  /\ Exit(r, Running)
  /\ UNCHANGED <<files, witnessed>>

\* Some other program creates a file at a --proof path.
OtherProgram ==
  /\ \E t \in Target :
       /\ proof[t] = Absent
       /\ proof' = [proof EXCEPT ![t] = Foreign]
  /\ UNCHANGED <<store, temp, runs, witnessed>>

\* a pull, by the steps the store promises
StoreStep == Next /\ UNCHANGED <<files, runs, witnessed>>

RunInit ==
  /\ Init
  /\ pc = [r \in Runner |-> "idle"]
  /\ args \in [Runner -> [package : Package, target : {NoTarget}, prompt : Prompt]]
  /\ pid \in [Runner -> Pid]
  /\ ver = [r \in Runner |-> <<>>]
  /\ man = [r \in Runner |-> <<>>]
  /\ out = [r \in Runner |-> <<>>]
  /\ rc = [r \in Runner |-> Running]
  /\ proof = [t \in Target |-> Absent]
  /\ temp = [x \in Target \X Pid |-> Absent]
  /\ witnessed = {}

Step(r) ==
  \/ BadArguments(r) \/ StartRun(r) \/ TargetFree(r) \/ TargetTaken(r)
  \/ ReadCurrent(r) \/ NotInstalled(r) \/ ReadManifest(r) \/ BadManifest(r)
  \/ VerifyArtifacts(r) \/ RefuseToRun(r) \/ ReadFails(r)
  \/ ChildSucceeds(r) \/ CaptureBroken(r) \/ ChildFails(r)
  \/ CreateTemp(r) \/ TempRefused(r) \/ WriteTemp(r) \/ WriteFails(r)
  \/ LinkProof(r) \/ LinkFails(r) \/ UnlinkTemp(r) \/ Crash(r)

RunNext == (\E r \in Runner : Step(r)) \/ OtherProgram \/ StoreStep

RunSpec == RunInit /\ [][RunNext]_runVars

-----------------------------------------------------------------------------
(* Properties                                                              *)

Labels == {"idle", "target", "current", "manifest", "verify", "child",
           "create", "write", "link", "unlink"}

\* Every variable has its type.
RunTypeOK ==
  /\ blobs \in SUBSET Blob
  /\ shelf \in [Package -> [Version -> Seq(Manifest)]]
  /\ chosen \in [Package -> Seq(Version)]
  /\ pc \in [Runner -> Labels]
  /\ args \in [Runner -> [package : Package, target : Target \cup {NoTarget},
                          prompt : Prompt]]
  /\ pid \in [Runner -> Pid]
  /\ ver \in [Runner -> Seq(Version)]
  /\ man \in [Runner -> Seq(Manifest)]
  /\ out \in [Runner -> Seq(Output)]
  /\ rc \in [Runner -> Nat]
  /\ proof \in [Target -> Receipt \cup {Absent, Partial, Foreign}]
  /\ temp \in [Target \X Pid -> Receipt \cup {Absent, Partial}]
  /\ witnessed \in SUBSET Receipt

\* A receipt at a --proof path is complete and records a run that really
\* happened: its model exited 0, all its output was captured, and both
\* artifacts named by its contract had been verified.  It holds after any
\* crash, and when two processes race for one path or reuse a pid.
ReceiptsTruthful ==
  \A t \in Target : proof[t] \in witnessed \cup {Absent, Foreign}

\* A file at a --proof path is never overwritten or removed
\* ("refusing to overwrite existing proof").
ReceiptsPermanent ==
  [][\A t \in Target : proof[t] # Absent => proof'[t] = proof[t]]_runVars

\* A run with --proof that returns 0 leaves its own receipt at its path.
SuccessMeansReceipt ==
  [][\A r \in Runner :
       pc[r] # "idle" /\ pc'[r] = "idle" /\ rc'[r] = 0
         /\ args[r].target # NoTarget
       => proof'[args[r].target] = MyReceipt(r)]_runVars

\* While a run's model is at work, its artifacts are genuine and are those
\* of one published manifest of the package it was asked to run, whatever
\* is pulled meanwhile.
ChildRunsVerified ==
  \A r \in Runner :
    pc[r] \in {"child", "create", "write", "link", "unlink"} =>
      /\ NameOf[man[r][1]] = args[r].package
      /\ {BaseOf[man[r][1]], AdapterOf[man[r][1]]} \subseteq blobs

\* An installed package stays runnable while newer versions are pulled: a
\* run is refused only when nothing was ever chosen, or when the manifest it
\* read has no base or no adapter artifact.
InstalledStaysRunnable ==
  \A r \in Runner :
    /\ pc[r] = "verify" => ArtifactsVerified(r)
    /\ pc[r] = "manifest" =>
         LET text == shelf[args[r].package][ver[r][1]] IN
         /\ text # <<>>
         /\ NameOf[text[1]] = args[r].package
         /\ VersionOf[text[1]] = ver[r][1]

=============================================================================
