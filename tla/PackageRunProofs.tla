-------------------------- MODULE PackageRunProofs --------------------------
(***************************************************************************)
(* Proofs about `niyah run` for any number of runs, packages, targets and  *)
(* process identifiers: the invariant below is inductive, and the proof    *)
(* receipts are truthful and permanent.                                    *)
(***************************************************************************)
EXTENDS PackageRun, TLAPS, SequenceTheorems

\* From here on a run that keeps a receipt has seen its child succeed.
AfterChild == {"create", "write", "link", "unlink"}

\* No two live processes have one identifier, hence one temporary name.
PidsDiffer ==
  \A r, s \in Runner :
    r # s /\ pc[r] # "idle" /\ pc[s] # "idle" => pid[r] # pid[s]

\* What a run holds at each place.
Holding ==
  \A r \in Runner :
    /\ pc[r] = "manifest" => ver[r] # <<>>
    /\ pc[r] \in AfterChild \cup {"verify", "child"} => man[r] # <<>>
    /\ pc[r] \in AfterChild => out[r] # <<>>
    /\ pc[r] \in AfterChild \cup {"target"} => args[r].target \in Target

\* A run past its child carries a receipt the child has earned, and has
\* written exactly that receipt when it comes to link it.
Earned ==
  \A r \in Runner :
    /\ pc[r] \in AfterChild => MyReceipt(r) \in witnessed
    /\ pc[r] = "link" => temp[MyTemp(r)] = MyReceipt(r)
    /\ pc[r] = "unlink" => proof[args[r].target] = MyReceipt(r)

\* Types, and what each place relies on.
Typed == RunTypeOK /\ Holding

-----------------------------------------------------------------------------

\* The first element of a non-empty sequence has the type of its elements.
LEMMA HeadType ==
  ASSUME NEW S, NEW s \in Seq(S), s # <<>>
  PROVE  s[1] \in S
BY EmptySeq

\* Before any run starts every variable has its type.
LEMMA TypedInit == RunInit => Typed
BY DEF RunInit, Init, Typed, RunTypeOK, Holding, AfterChild, Labels, Running

\* Every way a run ends keeps the types, whatever it did to the files.
LEMMA ExitTyped ==
  ASSUME Typed, NEW r \in Runner, NEW code \in Nat, Exit(r, code),
         proof' \in [Target -> Receipt \cup {Absent, Partial, Foreign}],
         temp' \in [Target \X Pid -> Receipt \cup {Absent, Partial}],
         witnessed' \in SUBSET Receipt
  PROVE  Typed'
BY DEF Typed, RunTypeOK, Holding, AfterChild, Labels, Goto, Exit, store

\* A run past its child has a receipt to write and a name to write it to.
LEMMA ReceiptTyped ==
  ASSUME Typed, NEW r \in Runner, pc[r] \in AfterChild
  PROVE  /\ MyReceipt(r) \in Receipt
         /\ args[r].target \in Target
         /\ MyTemp(r) \in Target \X Pid
<1>1. man[r][1] \in Manifest
  BY HeadType DEF Typed, RunTypeOK, Holding
<1>2. out[r][1] \in Output
  BY HeadType DEF Typed, RunTypeOK, Holding
<1> QED
  BY <1>1, <1>2 DEF Typed, RunTypeOK, Holding, MyReceipt, MyTemp, Receipt

\* A step of a run keeps the types.
LEMMA TypedStep ==
  ASSUME Typed, NEW r \in Runner, Step(r)
  PROVE  Typed'
<1>1. CASE BadArguments(r)
  BY <1>1, ExitTyped DEF BadArguments, Typed, RunTypeOK, files, Running
<1>2. CASE StartRun(r)
  BY <1>2 DEF StartRun, Typed, RunTypeOK, Holding, AfterChild, Labels, Goto, store, files, Running
<1>3. CASE TargetFree(r)
  BY <1>3 DEF TargetFree, Typed, RunTypeOK, Holding, AfterChild, Labels, Goto, store, files
<1>4. CASE TargetTaken(r)
  BY <1>4, ExitTyped DEF TargetTaken, Typed, RunTypeOK, files, Running
<1>5. CASE ReadCurrent(r)
  BY <1>5 DEF ReadCurrent, Typed, RunTypeOK, Holding, AfterChild, Labels, Goto, store, files
<1>6. CASE NotInstalled(r)
  BY <1>6, ExitTyped DEF NotInstalled, Typed, RunTypeOK, files, Running
<1>7. CASE ReadManifest(r)
  <2>1. ver[r][1] \in Version
    BY <1>7, HeadType DEF ReadManifest, Typed, RunTypeOK, Holding
  <2> QED
    BY <1>7, <2>1 DEF ReadManifest, Runnable, Typed, RunTypeOK, Holding, AfterChild, Labels, Goto, store, files
<1>8. CASE BadManifest(r)
  BY <1>8, ExitTyped DEF BadManifest, Typed, RunTypeOK, files, Running
<1>9. CASE VerifyArtifacts(r)
  BY <1>9 DEF VerifyArtifacts, Typed, RunTypeOK, Holding, AfterChild, Labels, Goto, store, files
<1>10. CASE RefuseToRun(r)
  BY <1>10, ExitTyped DEF RefuseToRun, ReadFails, Typed, RunTypeOK, files, Running
<1>11. CASE ChildSucceeds(r)
  <2>1. man[r][1] \in Manifest
    BY <1>11, HeadType DEF ChildSucceeds, Typed, RunTypeOK, Holding, AfterChild
  <2>2. PICK o \in Output :
          IF args[r].target = NoTarget
          THEN Exit(r, 0) /\ UNCHANGED witnessed
          ELSE /\ out' = [out EXCEPT ![r] = <<o>>]
               /\ witnessed' = witnessed \cup
                    {[prompt |-> args[r].prompt, output |-> o,
                      manifest |-> man[r][1]]}
               /\ Goto(r, "create")
               /\ UNCHANGED <<store, args, pid, ver, man, rc>>
    BY <1>11 DEF ChildSucceeds
  <2>3. CASE args[r].target = NoTarget
    BY <1>11, <2>2, <2>3, ExitTyped DEF ChildSucceeds, Typed, RunTypeOK, files
  <2>4. CASE args[r].target # NoTarget
    <3>1. witnessed' \in SUBSET Receipt
      BY <2>1, <2>2, <2>4 DEF Typed, RunTypeOK, Receipt
    <3>2. out' \in [Runner -> Seq(Output)] /\ out'[r] # <<>>
      <4>1. <<o>> \in Seq(Output) /\ <<o>> # <<>>
        OBVIOUS
      <4> QED
        BY <2>2, <2>4, <4>1 DEF Typed, RunTypeOK
    <3>3. args[r].target \in Target
      BY <2>4 DEF Typed, RunTypeOK
    <3>4. \A s \in Runner \ {r} : out'[s] = out[s]
      BY <2>2, <2>4 DEF Typed, RunTypeOK
    <3> QED
      BY <1>11, <2>2, <2>4, <3>1, <3>2, <3>3, <3>4 DEF ChildSucceeds, Typed, RunTypeOK, Holding, AfterChild, Labels, Goto, store, files
  <2> QED
    BY <2>3, <2>4
<1>12. CASE CaptureBroken(r)
  BY <1>12, ExitTyped DEF CaptureBroken, Typed, RunTypeOK, files, Running
<1>13. CASE ChildFails(r)
  BY <1>13, ExitTyped, CodeAssumption DEF ChildFails, Typed, RunTypeOK, files
<1>14. CASE CreateTemp(r)
  BY <1>14, ReceiptTyped DEF CreateTemp, Typed, RunTypeOK, Holding, AfterChild, Labels, Goto, store, files
<1>15. CASE TempRefused(r)
  BY <1>15, ExitTyped DEF TempRefused, Typed, RunTypeOK, files, Running
<1>16. CASE WriteTemp(r)
  BY <1>16, ReceiptTyped DEF WriteTemp, Typed, RunTypeOK, Holding, AfterChild, Labels, Goto, store, files
<1>17. CASE WriteFails(r)
  BY <1>17, ExitTyped, ReceiptTyped DEF WriteFails, TempRemoved, Typed, RunTypeOK, files, AfterChild
<1>18. CASE LinkProof(r)
  BY <1>18, ReceiptTyped DEF LinkProof, Typed, RunTypeOK, Holding, AfterChild, Labels, Goto, store, files
<1>19. CASE LinkFails(r)
  BY <1>19, ExitTyped, ReceiptTyped DEF LinkFails, TempRemoved, Typed, RunTypeOK, files, AfterChild
<1>20. CASE UnlinkTemp(r)
  BY <1>20, ExitTyped, ReceiptTyped DEF UnlinkTemp, TempRemoved, Typed, RunTypeOK, files, AfterChild
<1>22. CASE ReadFails(r)
  <2>1. PICK code \in Nat : Exit(r, code)
    BY <1>22 DEF ReadFails
  <2> QED
    BY <1>22, <2>1, ExitTyped DEF ReadFails, Typed, RunTypeOK, files
<1>21. CASE Crash(r)
  BY <1>21, ExitTyped DEF Crash, Typed, RunTypeOK, files, Running
<1> QED
  BY <1>1, <1>2, <1>3, <1>4, <1>5, <1>6, <1>7, <1>8, <1>9, <1>10, <1>11, <1>12, <1>13, <1>14, <1>15, <1>16, <1>17, <1>18, <1>19, <1>20, <1>21, <1>22 DEF Step

\* So do the store and other programs.
LEMMA TypedOutside ==
  ASSUME Typed, OtherProgram \/ StoreStep \/ UNCHANGED runVars
  PROVE  Typed'
<1>1. CASE OtherProgram
  BY <1>1 DEF OtherProgram, Typed, RunTypeOK, Holding, store, runs
<1>2. CASE StoreStep
  <2>1. /\ blobs' \in SUBSET Blob
        /\ shelf' \in [Package -> [Version -> Seq(Manifest)]]
        /\ chosen' \in [Package -> Seq(Version)]
    <3>1. CASE AddBlob
      BY <3>1 DEF AddBlob, Typed, RunTypeOK
    <3>2. CASE Install
      <4>1. PICK m \in Manifest :
              shelf' = [shelf EXCEPT ![NameOf[m]][VersionOf[m]] = <<m>>]
        BY <3>2 DEF Install
      <4>2. /\ NameOf[m] \in Package /\ VersionOf[m] \in Version
            /\ <<m>> \in Seq(Manifest)
        BY ManifestAssumption
      <4> QED
        BY <3>2, <4>1, <4>2 DEF Install, Typed, RunTypeOK
    <3>3. CASE Choose
      BY <3>3 DEF Choose, Typed, RunTypeOK
    <3> QED
      BY <1>2, <3>1, <3>2, <3>3 DEF StoreStep, Next
  <2> QED
    BY <1>2, <2>1 DEF StoreStep, Typed, RunTypeOK, Holding, files, runs
<1>3. CASE UNCHANGED runVars
  BY <1>3 DEF Typed, RunTypeOK, Holding, runVars, store, files, runs
<1> QED
  BY <1>1, <1>2, <1>3

\* The types, and what a run holds at each place, are invariant.
LEMMA TypedAlways == RunSpec => []Typed
<1>1. Typed /\ [RunNext]_runVars => Typed'
  BY TypedStep, TypedOutside DEF RunNext
<1> QED
  BY <1>1, TypedInit, PTL DEF RunSpec

\* Every variable of a run has its type, for any number of runs.
THEOREM RunTypeCorrect == RunSpec => []RunTypeOK
<1>1. Typed => RunTypeOK
  BY DEF Typed
<1> QED
  BY <1>1, TypedAlways, PTL

-----------------------------------------------------------------------------
(* The receipts.                                                           *)

\* The inductive invariant of the receipts.
RunInv == Typed /\ PidsDiffer /\ Earned /\ ReceiptsTruthful

\* What a step of run r leaves alone: the other runs, every temporary
\* receipt but its own, every receipt in place, and history.
StepFrame(r) ==
  /\ witnessed \subseteq witnessed'
  /\ \A t \in Target : proof[t] # Absent => proof'[t] = proof[t]
  /\ \A x \in Target \X Pid : x # MyTemp(r) => temp'[x] = temp[x]
  /\ \A s \in Runner \ {r} :
       /\ pc'[s] = pc[s] /\ pid'[s] = pid[s] /\ args'[s] = args[s]
       /\ man'[s] = man[s] /\ out'[s] = out[s]

\* No step of a run touches another run, another temporary name or a
\* receipt in place.
LEMMA Framed ==
  ASSUME Typed, NEW r \in Runner, Step(r)
  PROVE  StepFrame(r)
<1> USE DEF Typed, RunTypeOK, StepFrame, Goto, Exit, files
<1>1. CASE BadArguments(r)
  BY <1>1 DEF BadArguments
<1>2. CASE StartRun(r)
  BY <1>2 DEF StartRun
<1>3. CASE TargetFree(r)
  BY <1>3 DEF TargetFree
<1>4. CASE TargetTaken(r)
  BY <1>4 DEF TargetTaken
<1>5. CASE ReadCurrent(r)
  BY <1>5 DEF ReadCurrent
<1>6. CASE NotInstalled(r)
  BY <1>6 DEF NotInstalled
<1>7. CASE ReadManifest(r)
  BY <1>7 DEF ReadManifest
<1>8. CASE BadManifest(r)
  BY <1>8 DEF BadManifest
<1>9. CASE VerifyArtifacts(r)
  BY <1>9 DEF VerifyArtifacts
<1>10. CASE RefuseToRun(r)
  BY <1>10 DEF RefuseToRun
<1>11. CASE ChildSucceeds(r)
  BY <1>11 DEF ChildSucceeds
<1>12. CASE CaptureBroken(r)
  BY <1>12 DEF CaptureBroken
<1>13. CASE ChildFails(r)
  BY <1>13 DEF ChildFails
<1>14. CASE CreateTemp(r)
  BY <1>14 DEF CreateTemp
<1>15. CASE TempRefused(r)
  BY <1>15 DEF TempRefused
<1>16. CASE WriteTemp(r)
  BY <1>16 DEF WriteTemp
<1>17. CASE WriteFails(r)
  BY <1>17 DEF WriteFails, TempRemoved
<1>18. CASE LinkProof(r)
  BY <1>18 DEF LinkProof
<1>19. CASE LinkFails(r)
  BY <1>19 DEF LinkFails, TempRemoved
<1>20. CASE UnlinkTemp(r)
  BY <1>20 DEF UnlinkTemp, TempRemoved
<1>22. CASE ReadFails(r)
  BY <1>22 DEF ReadFails
<1>21. CASE Crash(r)
  BY <1>21 DEF Crash
<1> QED
  BY <1>1, <1>2, <1>3, <1>4, <1>5, <1>6, <1>7, <1>8, <1>9, <1>10, <1>11, <1>12, <1>13, <1>14, <1>15, <1>16, <1>17, <1>18, <1>19, <1>20, <1>21, <1>22 DEF Step

\* What run r itself holds after its step is still earned.
EarnedBy(r) ==
  /\ pc[r] \in AfterChild => MyReceipt(r) \in witnessed
  /\ pc[r] = "link" => temp[MyTemp(r)] = MyReceipt(r)
  /\ pc[r] = "unlink" => proof[args[r].target] = MyReceipt(r)

\* A step of run r keeps what r itself has earned.
LEMMA OwnReceipt ==
  ASSUME Typed, NEW r \in Runner, EarnedBy(r), Step(r)
  PROVE  EarnedBy(r)'
<1> USE DEF Typed, RunTypeOK, EarnedBy, AfterChild, Goto, Exit
<1>1. CASE BadArguments(r)
  BY <1>1 DEF BadArguments
<1>2. CASE StartRun(r)
  BY <1>2 DEF StartRun
<1>3. CASE TargetFree(r)
  BY <1>3 DEF TargetFree
<1>4. CASE TargetTaken(r)
  BY <1>4 DEF TargetTaken
<1>5. CASE ReadCurrent(r)
  BY <1>5 DEF ReadCurrent
<1>6. CASE NotInstalled(r)
  BY <1>6 DEF NotInstalled
<1>7. CASE ReadManifest(r)
  BY <1>7 DEF ReadManifest
<1>8. CASE BadManifest(r)
  BY <1>8 DEF BadManifest
<1>9. CASE VerifyArtifacts(r)
  BY <1>9 DEF VerifyArtifacts
<1>10. CASE RefuseToRun(r)
  BY <1>10 DEF RefuseToRun
<1>11. CASE ChildSucceeds(r)
  <2>1. CASE args[r].target = NoTarget
    BY <1>11, <2>1 DEF ChildSucceeds
  <2>2. CASE args[r].target # NoTarget
    BY <1>11, <2>2 DEF ChildSucceeds, MyReceipt
  <2> QED
    BY <2>1, <2>2
<1>12. CASE CaptureBroken(r)
  BY <1>12 DEF CaptureBroken
<1>13. CASE ChildFails(r)
  BY <1>13 DEF ChildFails
<1>14. CASE CreateTemp(r)
  BY <1>14, ReceiptTyped DEF CreateTemp, MyReceipt, MyTemp
<1>15. CASE TempRefused(r)
  BY <1>15 DEF TempRefused
<1>16. CASE WriteTemp(r)
  BY <1>16, ReceiptTyped DEF WriteTemp, MyReceipt, MyTemp
<1>17. CASE WriteFails(r)
  BY <1>17 DEF WriteFails, TempRemoved
<1>18. CASE LinkProof(r)
  BY <1>18, ReceiptTyped DEF LinkProof, MyReceipt, MyTemp
<1>19. CASE LinkFails(r)
  BY <1>19 DEF LinkFails, TempRemoved
<1>20. CASE UnlinkTemp(r)
  BY <1>20 DEF UnlinkTemp, TempRemoved
<1>22. CASE ReadFails(r)
  BY <1>22 DEF ReadFails
<1>21. CASE Crash(r)
  BY <1>21 DEF Crash
<1> QED
  BY <1>1, <1>2, <1>3, <1>4, <1>5, <1>6, <1>7, <1>8, <1>9, <1>10, <1>11, <1>12, <1>13, <1>14, <1>15, <1>16, <1>17, <1>18, <1>19, <1>20, <1>21, <1>22 DEF Step

\* A step of run r keeps what every other run has earned: it uses another
\* temporary name, and a receipt in place is not touched.
LEMMA OtherReceipts ==
  ASSUME RunInv, NEW r \in Runner, Step(r), NEW s \in Runner \ {r}
  PROVE  EarnedBy(s)'
<1>1. StepFrame(r) /\ EarnedBy(s)
  BY Framed DEF RunInv, Earned, EarnedBy
<1>2. /\ MyReceipt(s)' = MyReceipt(s)
      /\ MyTemp(s)' = MyTemp(s)
      /\ pc'[s] = pc[s] /\ args'[s] = args[s]
  BY <1>1 DEF StepFrame, MyReceipt, MyTemp
<1>3. CASE pc[s] \notin AfterChild
  BY <1>2, <1>3 DEF EarnedBy, AfterChild
<1>4. CASE pc[s] \in AfterChild
  <2>1. /\ MyReceipt(s) \in Receipt /\ args[s].target \in Target
        /\ MyTemp(s) \in Target \X Pid
    BY <1>4, ReceiptTyped DEF RunInv
  <2>2. MyReceipt(s)' \in witnessed'
    BY <1>1, <1>2, <1>4 DEF StepFrame, EarnedBy
  <2>3. pc[s] = "unlink" => proof'[args[s].target] = MyReceipt(s)
    BY <1>1, <2>1, SentinelAssumption DEF StepFrame, EarnedBy
  <2>4. pc[s] = "link" => temp'[MyTemp(s)] = MyReceipt(s)
    <3>1. pc[r] # "idle" => MyTemp(s) # MyTemp(r)
      BY <1>4 DEF RunInv, PidsDiffer, MyTemp, AfterChild
    <3>2. pc[r] = "idle" => UNCHANGED temp
      BY DEF Step, BadArguments, StartRun, TargetFree, TargetTaken,
             ReadCurrent, NotInstalled, ReadManifest, BadManifest,
             VerifyArtifacts, RefuseToRun, ReadFails, ChildSucceeds, CaptureBroken,
             ChildFails, CreateTemp, TempRefused, WriteTemp, WriteFails,
             LinkProof, LinkFails, UnlinkTemp, Crash, files
    <3> QED
      BY <1>1, <2>1, <3>1, <3>2 DEF StepFrame, EarnedBy
  <2> QED
    BY <1>2, <2>2, <2>3, <2>4 DEF EarnedBy
<1> QED
  BY <1>3, <1>4

\* Identifiers stay distinct: only StartRun picks one, among the free ones.
LEMMA PidsStep ==
  ASSUME Typed, PidsDiffer, NEW r \in Runner, Step(r)
  PROVE  PidsDiffer'
<1>1. StepFrame(r)
  BY Framed
<1>2. CASE StartRun(r)
  BY <1>2 DEF StartRun, PidsDiffer, Typed, RunTypeOK, Goto
<1>3. CASE ~StartRun(r)
  <2>1. pid' = pid /\ (pc'[r] # "idle" => pc[r] # "idle")
    BY <1>3 DEF Step, BadArguments, TargetFree, TargetTaken, ReadCurrent,
                NotInstalled, ReadManifest, BadManifest, VerifyArtifacts,
                RefuseToRun, ReadFails, ChildSucceeds, CaptureBroken, ChildFails,
                CreateTemp, TempRefused, WriteTemp, WriteFails, LinkProof,
                LinkFails, UnlinkTemp, Crash, Exit, Goto, Typed, RunTypeOK
  <2> QED
    BY <1>1, <2>1 DEF StepFrame, PidsDiffer
<1> QED
  BY <1>2, <1>3

\* Only LinkProof puts a receipt in place, and it is the run's own.
LEMMA TruthfulStep ==
  ASSUME RunInv, NEW r \in Runner, Step(r)
  PROVE  ReceiptsTruthful'
<1>1. witnessed \subseteq witnessed'
  BY Framed DEF RunInv, StepFrame
<1>2. CASE LinkProof(r)
  BY <1>1, <1>2, ReceiptTyped
     DEF LinkProof, RunInv, Typed, RunTypeOK, Earned, AfterChild,
         ReceiptsTruthful
<1>3. CASE ~LinkProof(r)
  <2>1. UNCHANGED proof
    BY <1>3 DEF Step, BadArguments, StartRun, TargetFree, TargetTaken,
                ReadCurrent, NotInstalled, ReadManifest, BadManifest,
                VerifyArtifacts, RefuseToRun, ReadFails, ChildSucceeds, CaptureBroken,
                ChildFails, CreateTemp, TempRefused, WriteTemp, WriteFails,
                LinkFails, UnlinkTemp, Crash, files
  <2> QED
    BY <1>1, <2>1 DEF RunInv, ReceiptsTruthful
<1> QED
  BY <1>2, <1>3

\* The invariant of the receipts is inductive: every step of a run, of the
\* store or of another program preserves it.
LEMMA RunInvStep == RunInv /\ [RunNext]_runVars => RunInv'
<1> SUFFICES ASSUME RunInv, [RunNext]_runVars
             PROVE  RunInv'
  OBVIOUS
<1>1. ASSUME NEW r \in Runner, Step(r)
      PROVE  RunInv'
  <2>1. Typed' /\ PidsDiffer' /\ ReceiptsTruthful'
    BY <1>1, TypedStep, PidsStep, TruthfulStep DEF RunInv
  <2>2. \A s \in Runner : EarnedBy(s)'
    BY <1>1, OwnReceipt, OtherReceipts DEF RunInv, Earned, EarnedBy
  <2> QED
    BY <2>1, <2>2 DEF RunInv, Earned, EarnedBy
<1>2. CASE OtherProgram
  <2>1. PICK t \in Target :
          proof[t] = Absent /\ proof' = [proof EXCEPT ![t] = Foreign]
    BY <1>2 DEF OtherProgram
  <2>2. UNCHANGED <<temp, pc, args, pid, man, out, witnessed>>
    BY <1>2 DEF OtherProgram, runs
  <2>3. \A s \in Runner : EarnedBy(s)'
    BY <2>1, <2>2, ReceiptTyped, SentinelAssumption
       DEF RunInv, Typed, RunTypeOK, Earned, EarnedBy, MyReceipt, MyTemp,
           AfterChild
  <2>4. ReceiptsTruthful' /\ PidsDiffer'
    BY <2>1, <2>2 DEF RunInv, Typed, RunTypeOK, ReceiptsTruthful, PidsDiffer
  <2> QED
    BY <1>2, <2>3, <2>4, TypedOutside DEF RunInv, Earned, EarnedBy
<1>3. CASE StoreStep \/ UNCHANGED runVars
  <2>1. UNCHANGED <<proof, temp, pc, args, pid, man, out, witnessed>>
    BY <1>3 DEF StoreStep, runVars, files, runs
  <2> QED
    BY <1>3, <2>1, TypedOutside
       DEF RunInv, PidsDiffer, Earned, MyReceipt, MyTemp, ReceiptsTruthful
<1> QED
  BY <1>1, <1>2, <1>3 DEF RunNext

\* The invariant of the receipts always holds.
LEMMA RunInvAlways == RunSpec => []RunInv
<1>1. RunInit => RunInv
  BY TypedInit DEF RunInit, RunInv, PidsDiffer, Earned, AfterChild,
                   ReceiptsTruthful
<1> QED
  BY <1>1, RunInvStep, PTL DEF RunSpec

\* Whatever runs race for a path, whatever crashes and whichever process
\* identifiers are reused, a file at a --proof path is some other program's
\* or the complete receipt of a verified, successful, fully captured run.
THEOREM ReceiptsAreTruthful == RunSpec => []ReceiptsTruthful
<1>1. RunInv => ReceiptsTruthful
  BY DEF RunInv
<1> QED
  BY <1>1, RunInvAlways, PTL

\* No step of any run replaces or removes a file at a --proof path.
THEOREM ReceiptsArePermanent == RunSpec => ReceiptsPermanent
<1>1. ASSUME Typed, [RunNext]_runVars
      PROVE  \A t \in Target : proof[t] # Absent => proof'[t] = proof[t]
  <2>1. CASE \E r \in Runner : Step(r)
    BY <1>1, <2>1, Framed DEF StepFrame
  <2>2. CASE OtherProgram
    BY <1>1, <2>2 DEF OtherProgram, Typed, RunTypeOK
  <2>3. CASE StoreStep \/ UNCHANGED runVars
    BY <2>3 DEF StoreStep, runVars, files
  <2> QED
    BY <1>1, <2>1, <2>2, <2>3 DEF RunNext
<1> QED
  BY <1>1, TypedAlways, PTL DEF RunSpec, ReceiptsPermanent

\* A run with --proof that returns 0 leaves its own receipt at its path,
\* also when another run wanted the same path.
THEOREM SuccessLeavesReceipt == RunSpec => SuccessMeansReceipt
<1> DEFINE Kept(r) == pc[r] # "idle" /\ pc'[r] = "idle" /\ rc'[r] = 0
                        /\ args[r].target # NoTarget
                      => proof'[args[r].target] = MyReceipt(r)
<1>1. ASSUME RunInv, NEW s \in Runner, Step(s)
      PROVE  \A r \in Runner : Kept(r)
  <2>1. \A r \in Runner \ {s} : Kept(r)
    BY <1>1, Framed DEF RunInv, StepFrame
  <2>2. CASE ~UnlinkTemp(s)
    <3>1. Kept(s)
      BY <1>1, <2>2, CodeAssumption
         DEF Step, BadArguments, StartRun, TargetFree, TargetTaken,
             ReadCurrent, NotInstalled, ReadManifest, BadManifest,
             VerifyArtifacts, RefuseToRun, ReadFails, ChildSucceeds, CaptureBroken,
             ChildFails, CreateTemp, TempRefused, WriteTemp, WriteFails,
             LinkProof, LinkFails, Crash, Exit, Goto, Running, RunInv, Typed,
             RunTypeOK
    <3> QED
      BY <2>1, <3>1
  <2>3. CASE UnlinkTemp(s)
    <3>1. proof[args[s].target] = MyReceipt(s)
      BY <1>1, <2>3 DEF UnlinkTemp, TempRemoved, RunInv, Earned
    <3>2. UNCHANGED proof
      BY <2>3 DEF UnlinkTemp, TempRemoved
    <3> QED
      BY <2>1, <3>1, <3>2
  <2> QED
    BY <2>2, <2>3
<1>2. ASSUME RunInv, [RunNext]_runVars
      PROVE  \A r \in Runner : Kept(r)
  BY <1>1, <1>2 DEF RunNext, OtherProgram, StoreStep, runs, runVars
<1> QED
  BY <1>2, RunInvAlways, PTL DEF RunSpec, SuccessMeansReceipt

-----------------------------------------------------------------------------
(* What a run executes.                                                    *)

\* Every manifest on the shelf is in its place and has its blobs, and every
\* chosen version is on the shelf.
Shelved ==
  \A k \in Package, v \in Version :
    shelf[k][v] # <<>> =>
      LET m == shelf[k][v][1] IN
      /\ NameOf[m] = k /\ VersionOf[m] = v
      /\ \A n \in 1 .. Len(ArtifactsOf[m]) : ArtifactsOf[m][n] \in blobs

ChosenShelved ==
  \A k \in Package : chosen[k] # <<>> => shelf[k][chosen[k][1]] # <<>>

\* The version a run has read is on the shelf, and the manifest it has read
\* is one of the package, with base and adapter in the store.
RunsInstalled(r) ==
  /\ pc[r] = "manifest" => shelf[args[r].package][ver[r][1]] # <<>>
  /\ pc[r] \in AfterChild \cup {"verify", "child"} =>
       /\ NameOf[man[r][1]] = args[r].package
       /\ {BaseOf[man[r][1]], AdapterOf[man[r][1]]} \subseteq blobs

\* The inductive invariant of runs and store.
StoreInv ==
  Typed /\ Shelved /\ ChosenShelved /\ \A r \in Runner : RunsInstalled(r)

\* The steps of the store, and what they mean to the runs.
LEMMA ShelfStep ==
  ASSUME Typed, Shelved, ChosenShelved, Next
  PROVE  /\ Shelved' /\ ChosenShelved'
         /\ blobs \subseteq blobs'
         /\ \A k \in Package, v \in Version :
              shelf[k][v] # <<>> => shelf'[k][v] # <<>>
<1>1. CASE AddBlob
  BY <1>1 DEF AddBlob, Shelved, ChosenShelved
<1>2. CASE Install
  <2>1. PICK m \in Manifest :
          /\ \A n \in 1 .. Len(ArtifactsOf[m]) : ArtifactsOf[m][n] \in blobs
          /\ shelf' = [shelf EXCEPT ![NameOf[m]][VersionOf[m]] = <<m>>]
    BY <1>2 DEF Install
  <2>2. NameOf[m] \in Package /\ VersionOf[m] \in Version
    BY ManifestAssumption
  <2>3. \A k \in Package, v \in Version :
          shelf'[k][v] = IF k = NameOf[m] /\ v = VersionOf[m]
                         THEN <<m>> ELSE shelf[k][v]
    BY <2>1, <2>2 DEF Typed, RunTypeOK
  <2>4. UNCHANGED <<blobs, chosen>>
    BY <1>2 DEF Install
  <2>5. \A k \in Package : chosen[k] # <<>> => chosen[k][1] \in Version
    BY HeadType DEF Typed, RunTypeOK
  <2>6. <<m>> # <<>> /\ <<m>>[1] = m
    OBVIOUS
  <2>7. Shelved'
    BY <2>1, <2>3, <2>4, <2>6 DEF Shelved
  <2>8. ChosenShelved'
    BY <2>3, <2>4, <2>5, <2>6 DEF ChosenShelved
  <2> QED
    BY <2>3, <2>4, <2>6, <2>7, <2>8
<1>3. CASE Choose
  BY <1>3 DEF Choose, Typed, RunTypeOK, Shelved, ChosenShelved
<1> QED
  BY <1>1, <1>2, <1>3 DEF Next

\* A step of a run keeps what it knows of the store.
LEMMA InstalledStep ==
  ASSUME StoreInv, NEW r \in Runner, Step(r)
  PROVE  RunsInstalled(r)'
<1> USE DEF StoreInv, Typed, RunTypeOK, RunsInstalled, AfterChild, Goto, Exit,
            store
<1>1. CASE ReadCurrent(r)
  BY <1>1 DEF ReadCurrent, ChosenShelved
<1>2. CASE ReadManifest(r)
  <2> DEFINE m == shelf[args[r].package][ver[r][1]][1]
  <2>1. ver[r][1] \in Version
    BY <1>2, HeadType DEF ReadManifest, Holding
  <2>2. m \in Manifest
    BY <1>2, <2>1, HeadType DEF ReadManifest, Runnable
  <2>3. /\ NameOf[m] = args[r].package
        /\ BaseOf[m] # NoRole /\ AdapterOf[m] # NoRole
    BY <1>2 DEF ReadManifest, Runnable
  <2>4. \A n \in 1 .. Len(ArtifactsOf[m]) : ArtifactsOf[m][n] \in blobs
    BY <1>2, <2>1 DEF ReadManifest, Runnable, Shelved
  <2>5. {BaseOf[m], AdapterOf[m]} \subseteq blobs
    <3> HIDE DEF m
    <3>1. ASSUME NEW b \in {BaseOf[m], AdapterOf[m]}
          PROVE  b \in blobs
      <4>1. b \in {BaseOf[m], AdapterOf[m]} \ {NoRole}
        BY <2>3
      <4>2. PICK n \in 1 .. Len(ArtifactsOf[m]) : ArtifactsOf[m][n] = b
        BY <2>2, <4>1, RoleAssumption
      <4> QED
        BY <2>4, <4>2
    <3> QED
      BY <3>1
  <2>6. man'[r][1] = m /\ pc'[r] = "verify"
    BY <1>2 DEF ReadManifest
  <2>7. args' = args /\ blobs' = blobs
    BY <1>2 DEF ReadManifest
  <2> HIDE DEF m
  <2> QED
    BY <2>3, <2>5, <2>6, <2>7
<1>3. CASE ~(ReadCurrent(r) \/ ReadManifest(r))
  <2>1. UNCHANGED store
    BY DEF Step, BadArguments, StartRun, TargetFree, TargetTaken,
           ReadCurrent, NotInstalled, ReadManifest, BadManifest,
           VerifyArtifacts, RefuseToRun, ReadFails, ChildSucceeds, CaptureBroken,
           ChildFails, CreateTemp, TempRefused, WriteTemp, WriteFails,
           LinkProof, LinkFails, UnlinkTemp, Crash
  <2>2. ReadFails(r) => pc'[r] = "idle"
    BY DEF ReadFails
  <2>3. \/ pc'[r] \in {"idle", "target", "current"}
        \/ /\ pc[r] \in AfterChild \cup {"verify", "child"}
           /\ UNCHANGED <<args, man>> /\ pc'[r] # "manifest"
    BY <1>3, <2>2 DEF Step, BadArguments, StartRun, TargetFree, TargetTaken,
                NotInstalled, BadManifest, VerifyArtifacts, RefuseToRun,
                ChildSucceeds, CaptureBroken, ChildFails, CreateTemp,
                TempRefused, WriteTemp, WriteFails, LinkProof, LinkFails,
                UnlinkTemp, Crash
  <2> QED
    BY <2>1, <2>3
<1> QED
  BY <1>1, <1>2, <1>3

\* The invariant of what runs know of the store is inductive, pulls
\* included.
LEMMA StoreInvStep == StoreInv /\ [RunNext]_runVars => StoreInv'
<1> SUFFICES ASSUME StoreInv, [RunNext]_runVars
             PROVE  StoreInv'
  OBVIOUS
<1>1. ASSUME NEW r \in Runner, Step(r)
      PROVE  StoreInv'
  <2>1. UNCHANGED store
    BY <1>1 DEF Step, BadArguments, StartRun, TargetFree, TargetTaken,
                ReadCurrent, NotInstalled, ReadManifest, BadManifest,
                VerifyArtifacts, RefuseToRun, ReadFails, ChildSucceeds, CaptureBroken,
                ChildFails, CreateTemp, TempRefused, WriteTemp, WriteFails,
                LinkProof, LinkFails, UnlinkTemp, Crash, Exit, store
  <2>2. \A s \in Runner \ {r} : ver'[s] = ver[s]
    BY <1>1 DEF Step, BadArguments, StartRun, TargetFree, TargetTaken,
                ReadCurrent, NotInstalled, ReadManifest, BadManifest,
                VerifyArtifacts, RefuseToRun, ReadFails, ChildSucceeds, CaptureBroken,
                ChildFails, CreateTemp, TempRefused, WriteTemp, WriteFails,
                LinkProof, LinkFails, UnlinkTemp, Crash, Exit, StoreInv,
                Typed, RunTypeOK
  <2>3. \A s \in Runner \ {r} : RunsInstalled(s)'
    BY <1>1, <2>1, <2>2, Framed DEF StoreInv, StepFrame, RunsInstalled, store
  <2>4. Typed' /\ RunsInstalled(r)'
    BY <1>1, TypedStep, InstalledStep DEF StoreInv
  <2>5. Shelved' /\ ChosenShelved'
    BY <2>1 DEF StoreInv, Shelved, ChosenShelved, store
  <2>6. \A s \in Runner : RunsInstalled(s)'
    BY <2>3, <2>4
  <2> QED
    BY <2>4, <2>5, <2>6 DEF StoreInv
<1>2. CASE StoreStep
  <2>1. /\ Shelved' /\ ChosenShelved' /\ blobs \subseteq blobs'
        /\ \A k \in Package, v \in Version :
             shelf[k][v] # <<>> => shelf'[k][v] # <<>>
    BY <1>2, ShelfStep DEF StoreStep, StoreInv
  <2>2. UNCHANGED <<pc, args, ver, man>>
    BY <1>2 DEF StoreStep, runs
  <2>3. ASSUME NEW r \in Runner
        PROVE  RunsInstalled(r)'
    <3>1. pc[r] = "manifest" =>
            ver[r][1] \in Version /\ args[r].package \in Package
      BY HeadType DEF StoreInv, Typed, RunTypeOK, Holding
    <3> QED
      BY <2>1, <2>2, <3>1 DEF StoreInv, RunsInstalled
  <2> QED
    BY <1>2, <2>1, <2>3, TypedOutside DEF StoreInv
<1>3. CASE OtherProgram \/ UNCHANGED runVars
  <2>1. UNCHANGED <<store, runs>>
    BY <1>3 DEF OtherProgram, runVars
  <2> QED
    BY <1>3, <2>1, TypedOutside
       DEF StoreInv, Shelved, ChosenShelved, RunsInstalled, store, runs
<1> QED
  BY <1>1, <1>2, <1>3 DEF RunNext

\* The invariant of what runs know of the store always holds.
LEMMA StoreInvAlways == RunSpec => []StoreInv
<1>1. RunInit => StoreInv
  BY TypedInit DEF RunInit, Init, StoreInv, Shelved, ChosenShelved,
                   RunsInstalled, AfterChild
<1> QED
  BY <1>1, StoreInvStep, PTL DEF RunSpec

\* While a model runs, its base and adapter are genuine and belong to a
\* published manifest of the package asked for, whatever is pulled.
THEOREM ChildrenRunVerified == RunSpec => []ChildRunsVerified
<1>1. StoreInv => ChildRunsVerified
  BY DEF StoreInv, RunsInstalled, ChildRunsVerified, AfterChild
<1> QED
  BY <1>1, StoreInvAlways, PTL

\* A run that found a chosen version finds its manifest in place and, if the
\* manifest has both roles, its artifacts: no pull takes them away.
THEOREM InstalledRemainsRunnable == RunSpec => []InstalledStaysRunnable
<1>1. ASSUME StoreInv, NEW r \in Runner
      PROVE  /\ pc[r] = "verify" => ArtifactsVerified(r)
             /\ pc[r] = "manifest" =>
                  LET text == shelf[args[r].package][ver[r][1]] IN
                  /\ text # <<>>
                  /\ NameOf[text[1]] = args[r].package
                  /\ VersionOf[text[1]] = ver[r][1]
  <2>1. pc[r] = "manifest" =>
          ver[r][1] \in Version /\ args[r].package \in Package
    BY <1>1, HeadType DEF StoreInv, Typed, RunTypeOK, Holding
  <2> QED
    BY <1>1, <2>1 DEF StoreInv, RunsInstalled, Shelved, ArtifactsVerified
<1>2. StoreInv => InstalledStaysRunnable
  BY <1>1 DEF InstalledStaysRunnable
<1> QED
  BY <1>2, StoreInvAlways, PTL

=============================================================================
