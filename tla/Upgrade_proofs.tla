--------------------------- MODULE Upgrade_proofs ---------------------------
(* Proofs that a firmware upgrade installs the files it found extracted,     *)
(* rolls back to those it found installed, and copies only verified radio    *)
(* firmware, for any packages and processes, whatever fails or is            *)
(* interrupted.                                                              *)
EXTENDS Upgrade, SequenceTheorems, TLAPS

-----------------------------------------------------------------------------
(***************************************************************************)
(* The strengthening.                                                      *)
(***************************************************************************)
Before == {"look", "bakBin", "bakLibs", "kill"}
Down   == Replace \cup {"start", "rbBin", "rbLibs", "rbStart"}

\* A process that has stopped the service has killed the other processes, and
\* while it is down nothing forks another.
Alone ==
  \A i \in Proc :
    /\ pcC[i] \in Down => ~up
    /\ \A j \in Proc \ {i} :
         /\ pcC[i] \in Down => pcC[j] = "none"
         /\ pcC[i] \notin Before \cup {"none"} => pcC[j] \in Before \cup {"none"}

\* A cp that goes on is not one that was completed.
LateSpoilt == late \subseteq spoilt

\* The backup made so far, by whichever process, is that of the files installed,
\* and, once the service is stopped, of those found then.
BackedUp(i) ==
  CASE pcC[i] = "bakLibs" -> {"bin"}
    [] pcC[i] \in {"kill", "start", "rbBin", "rbLibs"} \cup Replace -> App
    [] OTHER -> {}
BackupIsOrig ==
  \A i \in Proc : \A f \in BackedUp(i) \ spoilt :
    bak[f] = IF pcC[i] \in Before THEN inst[f] ELSE orig[f]

\* Once the service is stopped one file after another is replaced; and the roll
\* back restores the binary first, then the libraries.
Replaced(i) ==
  CASE pcC[i] = "cpCjson" -> {"bin"}
    [] pcC[i] = "cpCore" -> {"bin", "cjson"}
    [] pcC[i] = "cpMhd" -> {"bin", "cjson", "core"}
    [] pcC[i] \in {"start", "clean", "reboot"} -> App
    [] OTHER -> {}
Forward == {"start", "clean", "reboot"} \cup Replace
Restored(i) ==
  CASE pcC[i] = "rbLibs" -> {"bin"}
    [] pcC[i] = "rbStart" -> App
    [] OTHER -> {}
New(i) == {f \in App : f = "bin" \/ hasLib[i]}
InstalledFiles ==
  \A i \in Proc :
    /\ pcC[i] \in Forward /\ quiet =>
         \A f \in Replaced(i) : inst[f] = IF f \in New(i) THEN src[f] ELSE orig[f]
    /\ pcC[i] \in Forward => \A f \in App \ Replaced(i) : inst[f] = orig[f]
    /\ \A f \in Restored(i) \ spoilt : inst[f] = orig[f]

\* While files are replaced no request is served, so the extracted package stays
\* what it was when the service was stopped.
SourceFixed ==
  \A i \in Proc : pcC[i] \in Replace /\ quiet => pcP = "idle" /\ tmp = src

\* Whatever is extracted came from a package that was given; so what a single
\* package left is of that package.
FromGiven == \A f \in Part : tmp[f] \in given \cup {None}
OneSource == one => \E p \in Pkg : \A f \in Part : src[f] \in {None, p}

\* The firmware about to be copied has been verified, or was removed meanwhile.
VerifiedInHand ==
  pcP = "firmware" => /\ tmp["fw"] \in {None, req}
                      /\ \A m \in Modules : verify_single_ko_file(req, m)

Files == LateSpoilt /\ BackupIsOrig /\ InstalledFiles
Source == SourceFixed /\ FromGiven /\ OneSource

IInv == TypeOK /\ Alone /\ Files /\ Source /\ VerifiedInHand /\ FirmwareVerified

-----------------------------------------------------------------------------
(***************************************************************************)
(* The model's operators.                                                  *)
(***************************************************************************)
\* A cp of files that are there leaves no file missing.
LEMMA CopiedInstalled ==
  ASSUME NEW target \in [App -> File \ {None}], NEW from, NEW done, NEW cut,
         \A f \in App : f \in done => from[f] \in File \ {None}
  PROVE  Copied(target, from, done, cut) \in [App -> File \ {None}]
BY PackageAssumption DEF Copied, File

\* What a cp leaves in the backup directory is a file, or nothing.
LEMMA CopiedFile ==
  ASSUME NEW target \in [App -> File], NEW from, NEW done, NEW cut,
         \A f \in App : f \in done => from[f] \in File
  PROVE  Copied(target, from, done, cut) \in [App -> File]
BY DEF Copied, File

\* The initial states satisfy the invariant.
LEMMA InitIInv == Init => IInv
<1> SUFFICES ASSUME Init PROVE IInv
  OBVIOUS
<1> USE PackageAssumption DEF Init
<1>1. TypeOK
  <2>1. tmp \in [Part -> File] /\ src \in [Part -> File]
    BY DEF Empty, File
  <2>2. inst \in [App -> File \ {None}] /\ bak \in [App -> File] /\ orig \in [App -> File]
    BY DEF File
  <2>3. left \in Seq(Part)
    <3>1. left = <<>>
      OBVIOUS
    <3> QED
      BY ONLY <3>1, EmptySeq
  <2>4. faults \in 0 .. MaxFaults /\ requests \in 0 .. MaxRequests
    <3>1. faults = 0 /\ MaxFaults \in Nat /\ requests = 0 /\ MaxRequests \in Nat
      OBVIOUS
    <3> QED
      BY ONLY <3>1
  <2>5. req \in Pkg \cup {None} /\ fw \in File
    BY DEF File
  <2>6. pcC \in [Proc -> ChildPC] /\ hasLib \in [Proc -> BOOLEAN]
    BY DEF ChildPC
  <2> QED
    BY <2>1, <2>2, <2>3, <2>4, <2>5, <2>6 DEF TypeOK, HandlerPC
<1>2. Alone /\ SourceFixed /\ OneSource
  BY DEF Alone, SourceFixed, OneSource, Down, Before, Replace
<1>3. Files
  BY DEF Files, LateSpoilt, BackupIsOrig, BackedUp, InstalledFiles, Restored, Forward, Replace
<1>4. FromGiven
  BY DEF FromGiven, Empty
<1>5. VerifiedInHand /\ FirmwareVerified
  BY DEF VerifiedInHand, FirmwareVerified
<1> QED
  BY <1>1, <1>2, <1>3, <1>4, <1>5 DEF IInv, Source

-----------------------------------------------------------------------------
(***************************************************************************)
(* Types                                                                   *)
(***************************************************************************)
\* A failure is counted up to the bound.
LEMMA FaultCounted ==
  ASSUME TypeOK, Fault
  PROVE  faults' \in 0 .. MaxFaults
<1>1. faults \in 0 .. MaxFaults /\ MaxFaults \in Nat /\ faults < MaxFaults /\ faults' = faults + 1
  BY PackageAssumption DEF TypeOK, Fault
<1> QED
  BY <1>1

\* A reboot or a power loss forgets what was in memory.
LEMMA BootTypes ==
  ASSUME TypeOK, GoDown, faults' \in 0 .. MaxFaults
  PROVE  TypeOK'
<1>0. inst' \in [App -> File \ {None}]
  BY CopiedInstalled DEF GoDown, TypeOK
<1>00. bak' \in [App -> File]
  BY CopiedFile DEF GoDown, TypeOK
<1>1. tmp' \in [Part -> File]
  BY PackageAssumption DEF GoDown, Boot, Empty, File
<1>2. left' \in Seq(Part)
  <2>1. left' = <<>>
    BY DEF GoDown, Boot
  <2> QED
    BY ONLY <2>1, EmptySeq
<1>3. req' \in Pkg \cup {None} /\ pcP' \in HandlerPC
  BY DEF GoDown, Boot, HandlerPC
<1>4. pcC' \in [Proc -> ChildPC] /\ hasLib' \in [Proc -> BOOLEAN]
  BY DEF GoDown, Boot, ChildPC
<1>5. orig' \in [App -> File \ {None}] /\ src' \in [Part -> File]
  BY <1>0, PackageAssumption DEF GoDown, Boot, Forget, Empty, File
<1>6. /\ up' \in BOOLEAN /\ startCmd' \in BOOLEAN /\ late' \subseteq Libs
      /\ given' \subseteq File /\ spoilt' \subseteq App
      /\ quiet' \in BOOLEAN /\ one' \in BOOLEAN /\ fw' \in File
      /\ requests' \in 0 .. MaxRequests
  BY DEF GoDown, Boot, Forget, TypeOK
<1> QED
  BY <1>0, <1>00, <1>1, <1>2, <1>3, <1>4, <1>5, <1>6 DEF TypeOK

\* A step of the request handler keeps the types.
LEMMA HandlerTypes ==
  ASSUME TypeOK, Handler
  PROVE  TypeOK'
<1> USE PackageAssumption DEF handler, child, stopped, ghosts, HandlerPC, ChildPC
<1>1. ASSUME NEW p \in Pkg, wtsl_core_do_upload(p) PROVE TypeOK'
  BY <1>1 DEF TypeOK, wtsl_core_do_upload
<1>2. CASE wtsl_core_firmware_upgrade
  <2>1. up' \in BOOLEAN
    BY <1>2, Zenon DEF TypeOK, wtsl_core_firmware_upgrade
  <2>2. pcP' \in HandlerPC
    BY <1>2 DEF TypeOK, wtsl_core_firmware_upgrade
  <2>3. left' \in Seq(Part)
    <3>1. left' = left \/ (req # None /\ left' = Archive[req])
      BY <1>2, Zenon DEF wtsl_core_firmware_upgrade
    <3>2. left \in Seq(Part) /\ req \in Pkg \cup {None}
      BY Zenon DEF TypeOK
    <3>3. Archive \in [Pkg -> Seq(Part)]
      BY Zenon DEF PackageAssumption
    <3> QED
      BY ONLY <3>1, <3>2, <3>3
  <2>4. requests' \in 0 .. MaxRequests
    <3>1. requests' = requests \/ (requests < MaxRequests /\ requests' = requests + 1)
      BY <1>2, Zenon DEF wtsl_core_firmware_upgrade
    <3>2. requests \in 0 .. MaxRequests /\ MaxRequests \in Nat
      BY Zenon DEF TypeOK, PackageAssumption
    <3> QED
      BY ONLY <3>1, <3>2
  <2> QED
    BY <1>2, <2>1, <2>2, <2>3, <2>4, Zenon DEF TypeOK, wtsl_core_firmware_upgrade
<1>3. CASE ExtractPart
  <2>1. req \in File /\ left # <<>> /\ left \in Seq(Part) /\ tmp \in [Part -> File]
    BY <1>3 DEF TypeOK, ExtractPart, File
  <2>2. tmp' \in [Part -> File] /\ left' \in Seq(Part)
    BY <2>1, <1>3, HeadTailProperties DEF ExtractPart
  <2> QED
    <3>1. pcP' \in HandlerPC /\ faults' \in 0 .. MaxFaults
      BY <1>3 DEF TypeOK, ExtractPart
    <3>2. given' \subseteq File
      BY <2>1, <1>3 DEF TypeOK, ExtractPart
    <3> QED
      BY <1>3, <2>2, <3>1, <3>2, Zenon DEF TypeOK, ExtractPart
<1>4. CASE ExtractFails
  <2>1. tmp' \in [Part -> File]
    BY <1>4 DEF TypeOK, ExtractFails, File
  <2>3. left' \in Seq(Part)
    <3>1. left' = <<>>
      BY <1>4 DEF ExtractFails
    <3> QED
      BY ONLY <3>1, EmptySeq
  <2>2. faults' \in 0 .. MaxFaults
    BY <1>4, FaultCounted DEF ExtractFails
  <2>4. given' \subseteq File
    BY <1>4 DEF TypeOK, ExtractFails, File
  <2> QED
    BY <1>4, <2>1, <2>2, <2>3, <2>4 DEF TypeOK, ExtractFails
<1>5. CASE ExtractDone
  <2>1. pcP' \in HandlerPC
    BY <1>5 DEF TypeOK, ExtractDone
  <2> QED
    BY <1>5, <2>1, Zenon DEF TypeOK, ExtractDone
<1>6. CASE VerifyModules
  BY <1>6 DEF TypeOK, VerifyModules
<1>7. CASE upgrade_hi_firmware
  <2>1. fw' \in File
    BY <1>7 DEF TypeOK, upgrade_hi_firmware, File, Part
  <2> QED
    BY <1>7, <2>1 DEF TypeOK, upgrade_hi_firmware
<1>8. CASE Fork
  <2>1. pcC' \in [Proc -> ChildPC]
    BY <1>8 DEF TypeOK, Fork
  <2> QED
    BY <1>8, <2>1 DEF TypeOK, Fork
<1> QED
  BY <1>1, <1>2, <1>3, <1>4, <1>5, <1>6, <1>7, <1>8 DEF Handler

\* A step of the upgrade process keeps the types: it installs only files that
\* are there.
LEMMA ChildTypes ==
  ASSUME TypeOK, NEW i \in Proc, Child(i)
  PROVE  TypeOK'
<1> USE DEF handler, stopped, ghosts
<1>0. /\ inst \in [App -> File \ {None}] /\ \A f \in App : inst[f] \in File
      /\ bak \in [App -> File] /\ tmp \in [Part -> File]
      /\ App \subseteq Part /\ Libs \subseteq App /\ "bin" \in App
  BY DEF TypeOK, Part, App
<1>f. Fault => faults' \in 0 .. MaxFaults
  BY FaultCounted
<1>g. ASSUME NEW pc \in ChildPC, Goto(i, pc) PROVE pcC' \in [Proc -> ChildPC]
  BY <1>g DEF TypeOK, Goto
<1>s. ASSUME NEW done \in SUBSET App, NEW cut \in SUBSET App, SaveFiles(done, cut)
      PROVE  bak' \in [App -> File] /\ spoilt' \subseteq App
  <2>1. bak' \in [App -> File]
    BY <1>s, <1>0, CopiedFile DEF SaveFiles
  <2>2. spoilt' \subseteq App
    BY <1>s DEF SaveFiles, TypeOK
  <2> QED
    BY <2>1, <2>2
<1>1. CASE LookForLibraries(i)
  <2>1. pcC' \in [Proc -> ChildPC]
    BY <1>1, <1>g DEF LookForLibraries, ChildPC
  <2> QED
    BY <1>1, <2>1 DEF TypeOK, LookForLibraries
<1>2. CASE BackupBinary(i)
  <2>1. pcC' \in [Proc -> ChildPC]
    BY <1>2, <1>g DEF BackupBinary, ChildPC
  <2>2. bak' \in [App -> File] /\ spoilt' \subseteq App
    BY <1>2, <1>s DEF BackupBinary, App
  <2>3. faults' \in 0 .. MaxFaults
    BY <1>2, <1>f DEF BackupBinary, TypeOK
  <2> QED
    BY <1>2, <2>1, <2>2, <2>3 DEF TypeOK, BackupBinary
<1>3. CASE BackupLibraries(i)
  <2>1. pcC' \in [Proc -> ChildPC]
    BY <1>3, <1>g DEF BackupLibraries, ChildPC
  <2>2. bak' \in [App -> File] /\ spoilt' \subseteq App
    <3>1. \E done, cut \in SUBSET Libs : SaveFiles(done, cut)
      BY <1>3 DEF BackupLibraries
    <3> QED
      BY <3>1, <1>s, <1>0
  <2>3. faults' \in 0 .. MaxFaults
    BY <1>3, <1>f DEF BackupLibraries, TypeOK
  <2> QED
    BY <1>3, <2>1, <2>2, <2>3 DEF TypeOK, BackupLibraries
<1>4. CASE StopService(i)
  <2>1. pcC' \in [Proc -> ChildPC]
    BY <1>4 DEF StopService, ChildPC, Replace
  <2>2. PICK cut \in SUBSET {"bin"}, l \in {late, Libs} :
          bak' = Copied(bak, inst, {}, cut) /\ late' = l /\ spoilt' = spoilt \cup cut \cup l
    BY <1>4, Zenon DEF StopService
  <2>3. bak' \in [App -> File] /\ late' \subseteq Libs /\ spoilt' \subseteq App
    BY <1>0, <2>2, CopiedFile DEF TypeOK
  <2>4. hasLib' \in [Proc -> BOOLEAN]
    BY <1>4 DEF StopService, TypeOK
  <2>5. pcP' \in HandlerPC /\ up' \in BOOLEAN /\ startCmd' \in BOOLEAN
    BY <1>4 DEF StopService, HandlerPC
  <2>6. orig' \in [App -> File \ {None}] /\ src' \in [Part -> File]
    BY <1>4 DEF StopService, TypeOK
  <2>7. quiet' \in BOOLEAN
    BY <1>4 DEF StopService
  <2>9. one' \in BOOLEAN
    BY <1>4 DEF StopService
  <2>8. UNCHANGED <<req, left, tmp, inst, fw, given, requests, faults>>
    BY <1>4 DEF StopService
  <2> QED
    BY <2>1, <2>3, <2>4, <2>5, <2>6, <2>7, <2>8, <2>9 DEF TypeOK
<1>5. CASE ReplaceFile(i)
  <2>1. pcC' \in [Proc -> ChildPC]
    <3>1. AfterReplace[pcC[i]] \in ChildPC /\ "rbBin" \in ChildPC
      BY <1>5 DEF ReplaceFile, AfterReplace, Replace, ChildPC
    <3> QED
      BY <1>5, <3>1, <1>g DEF ReplaceFile
  <2>2. inst' \in [App -> File \ {None}]
    <3>1. CASE UNCHANGED inst
      BY <1>0, <3>1
    <3>2. CASE inst' = Copied(inst, tmp, ToCopy(i), {}) /\ Present(tmp, ToCopy(i)) = ToCopy(i)
      BY <1>0, <3>2, CopiedInstalled DEF Present
    <3>3. ASSUME NEW cut, inst' = Copied(inst, tmp, {}, cut)
          PROVE  inst' \in [App -> File \ {None}]
      BY <1>0, <3>3, CopiedInstalled
    <3> QED
      BY <1>5, <3>1, <3>2, <3>3 DEF ReplaceFile
  <2>3. faults' \in 0 .. MaxFaults
    BY <1>5, <1>f DEF ReplaceFile, TypeOK
  <2> QED
    BY <1>5, <2>1, <2>2, <2>3 DEF TypeOK, ReplaceFile
<1>6. CASE StartService(i)
  <2>1. pcC' \in [Proc -> ChildPC]
    <3>1. {"clean", "rbBin"} \subseteq ChildPC
      BY DEF ChildPC
    <3> QED
      BY <1>6, <3>1, <1>g DEF StartService
  <2>2. faults' \in 0 .. MaxFaults
    BY <1>6, <1>f DEF StartService, TypeOK
  <2> QED
    BY <1>6, <2>1, <2>2 DEF TypeOK, StartService
<1>7. CASE Cleanup(i)
  <2>1. pcC' \in [Proc -> ChildPC]
    BY <1>7, <1>g DEF Cleanup, ChildPC
  <2>2. tmp' \in [Part -> File] /\ given' \subseteq File
    BY <1>7 DEF Cleanup, Empty, File
  <2> QED
    BY <1>7, <2>1, <2>2 DEF TypeOK, Cleanup
<1>8. CASE RollBackBinary(i)
  <2>0. pcC' \in [Proc -> ChildPC]
    BY <1>8, <1>g DEF RollBackBinary, ChildPC
  <2>1. /\ bak["bin"] # None
        /\ inst' = Copied(inst, bak, {"bin"}, {})
        => inst' \in [App -> File \ {None}]
    BY <1>0, CopiedInstalled
  <2>2. ASSUME NEW cut, inst' = Copied(inst, bak, {}, cut)
        PROVE  inst' \in [App -> File \ {None}]
    BY <2>2, <1>0, CopiedInstalled
  <2>3. inst' \in [App -> File \ {None}]
    BY <1>8, <2>1, <2>2 DEF RollBackBinary
  <2>4. spoilt' \subseteq App /\ faults' \in 0 .. MaxFaults
    BY <1>8, <1>0, <1>f DEF RollBackBinary, TypeOK
  <2> QED
    BY <1>8, <2>0, <2>3, <2>4 DEF TypeOK, RollBackBinary
<1>9. CASE RollBackLibraries(i)
  <2>0. pcC' \in [Proc -> ChildPC]
    BY <1>9, <1>g DEF RollBackLibraries, ChildPC
  <2>3. \E cut : \E done \in SUBSET Present(bak, Libs) :
           inst' = Copied(inst, bak, done, cut)
    BY <1>9 DEF RollBackLibraries
  <2>1. inst' \in [App -> File \ {None}]
    BY <2>3, <1>0, CopiedInstalled DEF Present
  <2>2. spoilt' \subseteq App /\ faults' \in 0 .. MaxFaults
    BY <1>9, <1>0, <1>f DEF RollBackLibraries, TypeOK, Present
  <2> QED
    BY <1>9, <2>0, <2>1, <2>2 DEF TypeOK, RollBackLibraries
<1>10. CASE RollBackStart(i)
  <2>1. pcC' \in [Proc -> ChildPC]
    BY <1>10, <1>g DEF RollBackStart, ChildPC
  <2>2. faults' \in 0 .. MaxFaults
    BY <1>10, <1>f DEF RollBackStart, TypeOK
  <2> QED
    BY <1>10, <2>1, <2>2 DEF TypeOK, RollBackStart
<1>11. CASE Exit(i)
  <2>1. pcC' \in [Proc -> ChildPC]
    BY <1>11, <1>g DEF Exit, ChildPC
  <2>2. orig' \in [App -> File \ {None}] /\ src' \in [Part -> File]
    BY <1>11, <1>0 DEF Exit, Forget, Empty, File
  <2> QED
    BY <1>11, <2>1, <2>2 DEF TypeOK, Exit, Forget
<1> QED
  BY <1>1, <1>2, <1>3, <1>4, <1>5, <1>6, <1>7, <1>8, <1>9, <1>10, <1>11 DEF Child

\* So does every step, a reboot and a power loss too.
LEMMA TypesPreserved ==
  ASSUME TypeOK, [Next]_vars
  PROVE  TypeOK'
<1>1. CASE Handler
  BY <1>1, HandlerTypes
<1>2. ASSUME NEW i \in Proc, Child(i) PROVE TypeOK'
  BY <1>2, ChildTypes
<1>3. ASSUME NEW i \in Proc, Reboot(i) PROVE TypeOK'
  BY <1>3, BootTypes DEF Reboot, TypeOK
<1>4. CASE PowerLoss
  BY <1>4, FaultCounted, BootTypes DEF PowerLoss
<1>5. CASE LateCopy
  <2>1. bak' \in [App -> File]
    BY <1>5, CopiedFile DEF LateCopy, TypeOK
  <2>2. late' \subseteq Libs
    BY <1>5 DEF LateCopy, TypeOK
  <2> QED
    BY <1>5, <2>1, <2>2 DEF LateCopy, TypeOK, handler, ghosts, stopped
<1>6. CASE UNCHANGED vars
  BY <1>6 DEF TypeOK, vars
<1> QED
  BY <1>1, <1>2, <1>3, <1>4, <1>5, <1>6 DEF Next

-----------------------------------------------------------------------------
(***************************************************************************)
(* Who is alone                                                            *)
(***************************************************************************)
\* Only the request handler forks a process, and only while the service is up.
LEMMA HandlerForks ==
  ASSUME Handler
  PROVE  /\ UNCHANGED <<inst, bak, late, hasLib, stopped, spoilt>> /\ (up' => up)
         /\ \/ UNCHANGED pcC
            \/ up /\ \E i \in Proc : pcC[i] = "none" /\ pcC' = [pcC EXCEPT ![i] = "look"]
BY DEF Handler, wtsl_core_do_upload, wtsl_core_firmware_upgrade, ExtractPart, ExtractFails,
       ExtractDone, VerifyModules, upgrade_hi_firmware, Fork, child, ghosts, stopped

\* A step of a process changes no other, except that it may kill them.
LEMMA ChildMoves ==
  ASSUME NEW i \in Proc, Child(i), ~StopService(i)
  PROVE  /\ \E pc : Goto(i, pc)
         /\ late' = late /\ req' = req /\ left' = left /\ pcP' = pcP /\ fw' = fw
BY DEF Child, LookForLibraries, BackupBinary, BackupLibraries, ReplaceFile, StartService, Cleanup,
       RollBackBinary, RollBackLibraries, RollBackStart, Exit, handler, Goto

\* The kill leaves one process, and until that has started the service again
\* nothing forks another.
LEMMA AlonePreserved ==
  ASSUME TypeOK, Alone, [Next]_vars
  PROVE  Alone'
<1> USE DEF Alone, Down, Before, Replace, TypeOK
<1>1. CASE Handler
  BY <1>1, HandlerForks
<1>2. ASSUME NEW i \in Proc, Child(i) PROVE Alone'
  <2> USE <1>2 DEF Goto
  <2>1. CASE LookForLibraries(i)
    BY <2>1 DEF LookForLibraries
  <2>2. CASE BackupBinary(i)
    BY <2>2 DEF BackupBinary
  <2>3. CASE BackupLibraries(i)
    BY <2>3 DEF BackupLibraries
  <2>4. CASE StopService(i)
    BY <2>4 DEF StopService
  <2>5. CASE ReplaceFile(i)
    BY <2>5 DEF ReplaceFile, AfterReplace
  <2>6. CASE StartService(i)
    BY <2>6 DEF StartService
  <2>7. CASE Cleanup(i)
    BY <2>7 DEF Cleanup
  <2>8. CASE RollBackBinary(i)
    BY <2>8 DEF RollBackBinary
  <2>9. CASE RollBackLibraries(i)
    BY <2>9 DEF RollBackLibraries
  <2>10. CASE RollBackStart(i)
    BY <2>10 DEF RollBackStart
  <2>11. CASE Exit(i)
    BY <2>11 DEF Exit
  <2> QED
    BY <2>1, <2>2, <2>3, <2>4, <2>5, <2>6, <2>7, <2>8, <2>9, <2>10, <2>11 DEF Child
<1>3. ASSUME GoDown PROVE Alone'
  BY <1>3 DEF GoDown, Boot
<1>4. CASE LateCopy
  BY <1>4 DEF LateCopy
<1>5. CASE UNCHANGED vars
  BY <1>5 DEF vars
<1> QED
  BY <1>1, <1>2, <1>3, <1>4, <1>5 DEF Next, Reboot, PowerLoss

-----------------------------------------------------------------------------
(***************************************************************************)
(* What the upgrade finds, saves, installs and restores                    *)
(***************************************************************************)
\* The files, for one process.
BackupHas(i) ==
  \A f \in BackedUp(i) \ spoilt :
    bak[f] = IF pcC[i] \in Before THEN inst[f] ELSE orig[f]
InstalledIs(i) ==
  /\ pcC[i] \in Forward /\ quiet =>
       \A f \in Replaced(i) : inst[f] = IF f \in New(i) THEN src[f] ELSE orig[f]
  /\ pcC[i] \in Forward => \A f \in App \ Replaced(i) : inst[f] = orig[f]
  /\ \A f \in Restored(i) \ spoilt : inst[f] = orig[f]

\* A reboot or a power loss ends the upgrade: nothing is in hand any more.
LEMMA BootForgets ==
  ASSUME GoDown
  PROVE  Files'
<1>1. \A i \in Proc : pcC'[i] = "none"
  BY DEF GoDown, Boot
<1>2. late' = {}
  BY DEF GoDown, Boot
<1> QED
  BY <1>1, <1>2 DEF Files, LateSpoilt, BackupIsOrig, BackedUp, InstalledFiles, Forward, Restored,
                    Replace

\* A process that is forked has saved and installed nothing yet.
LEMMA HandlerInstallsNothing ==
  ASSUME TypeOK, Files, Handler
  PROVE  Files'
<1> USE DEF stopped, Files
<1>1. LateSpoilt'
  BY HandlerForks DEF LateSpoilt
<1>2. ASSUME NEW k \in Proc, pcC'[k] = pcC[k] PROVE BackupHas(k)' /\ InstalledIs(k)'
  <2>1. BackupHas(k) /\ InstalledIs(k)
    BY DEF BackupHas, InstalledIs, BackupIsOrig, InstalledFiles
  <2>2. BackupHas(k)'
    BY <1>2, <2>1, HandlerForks DEF BackupHas, BackedUp
  <2>3. InstalledIs(k)'
    BY <1>2, <2>1, HandlerForks DEF InstalledIs, Replaced, Restored, New
  <2> QED
    BY <2>2, <2>3
<1>3. ASSUME NEW k \in Proc, pcC'[k] = "look" PROVE BackupHas(k)' /\ InstalledIs(k)'
  BY <1>3 DEF BackupHas, InstalledIs, BackedUp, Forward, Restored, Replace
<1>4. \A k \in Proc : pcC'[k] = pcC[k] \/ pcC'[k] = "look"
  BY HandlerForks DEF TypeOK
<1>5. \A k \in Proc : BackupHas(k)' /\ InstalledIs(k)'
  BY <1>2, <1>3, <1>4
<1> QED
  BY <1>1, <1>5 DEF BackupIsOrig, InstalledFiles, BackupHas, InstalledIs

\* A copy to the backup keeps what other processes rely on, because all that are
\* there copy the same files.
LEMMA SavedTwice ==
  ASSUME TypeOK, Files, NEW done \in SUBSET App, NEW cut \in SUBSET App, SaveFiles(done, cut),
         done \cap cut = {}, UNCHANGED <<inst, orig>>,
         NEW k \in Proc, pcC'[k] = pcC[k], pcC[k] \in Before \cup {"none"}
  PROVE  BackupHas(k)'
<1>1. BackupHas(k)
  BY DEF Files, BackupIsOrig, BackupHas
<1>2. \A f \in App : bak'[f] = IF f \in done THEN inst[f] ELSE IF f \in cut THEN Broken ELSE bak[f]
  BY DEF SaveFiles, Copied
<1>3. \A f \in App : f \notin spoilt' => f \notin cut /\ (f \in done \/ f \notin spoilt)
  BY DEF SaveFiles
<1>4. BackedUp(k)' = BackedUp(k) /\ BackedUp(k) \subseteq App
  BY DEF BackedUp, App, Libs
<1>5. pcC[k] \notin Before => BackedUp(k) = {}
  BY DEF BackedUp, Before, Replace
<1> QED
  BY <1>1, <1>2, <1>3, <1>4, <1>5 DEF BackupHas

\* A process that changes nothing another relies on.
LEMMA OthersKept ==
  ASSUME TypeOK, Files, UNCHANGED <<inst, bak, orig, src, quiet, spoilt>>,
         NEW k \in Proc, pcC'[k] = pcC[k], hasLib'[k] = hasLib[k]
  PROVE  BackupHas(k)' /\ InstalledIs(k)'
<1>1. BackupHas(k) /\ InstalledIs(k)
  BY DEF Files, BackupIsOrig, InstalledFiles, BackupHas, InstalledIs
<1>2. BackupHas(k)'
  BY <1>1 DEF BackupHas, BackedUp
<1>3. InstalledIs(k)'
  BY <1>1 DEF InstalledIs, Replaced, Restored, New
<1> QED
  BY <1>2, <1>3

\* The backup, by whichever process.
LEMMA BackupInstalls ==
  ASSUME TypeOK, Alone, Files, NEW i \in Proc, BackupBinary(i) \/ BackupLibraries(i)
  PROVE  Files'
<1> USE DEF TypeOK, Goto
<1>0. /\ App = {"bin", "cjson", "core", "mhd"} /\ Libs = {"cjson", "core", "mhd"}
      /\ UNCHANGED <<inst, orig, src, quiet, hasLib, late>>
      /\ pcC[i] \in {"bakBin", "bakLibs"}
  BY DEF BackupBinary, BackupLibraries, App, Libs, stopped
<1>1. PICK done \in SUBSET App, cut \in SUBSET App :
        /\ SaveFiles(done, cut) /\ done \cap cut = {}
        /\ pcC[i] = "bakBin"  => {"bin"} = done \cup cut /\ pcC' = [pcC EXCEPT ![i] = "bakLibs"]
        /\ pcC[i] = "bakLibs" => Libs = done \cup cut /\ pcC' = [pcC EXCEPT ![i] = "kill"]
  <2>1. CASE BackupBinary(i)
    <3>1. SaveFiles({"bin"}, {}) \/ SaveFiles({}, {"bin"})
      BY <2>1 DEF BackupBinary
    <3> QED
      BY <1>0, <2>1, <3>1 DEF BackupBinary
  <2>2. CASE BackupLibraries(i)
    <3>1. PICK done \in SUBSET Libs : SaveFiles(done, Libs \ done)
      <4>1. CASE SaveFiles(Libs, {})
        <5>1. Libs \ Libs = {}
          OBVIOUS
        <5> QED
          BY <4>1, <5>1
      <4> QED
        BY <2>2, <4>1 DEF BackupLibraries
    <3>2. done \in SUBSET App /\ Libs \ done \in SUBSET App /\ done \cap (Libs \ done) = {}
          /\ Libs = done \cup (Libs \ done)
      BY <1>0
    <3> QED
      BY <2>2, <3>1, <3>2 DEF BackupLibraries
  <2> QED
    BY <2>1, <2>2
<1>2. LateSpoilt'
  BY <1>0, <1>1 DEF SaveFiles, Files, LateSpoilt
<1>3. \A f \in App : f \in spoilt' \/ (f \in done /\ bak'[f] = inst[f])
                     \/ (f \notin spoilt /\ f \notin done \cup cut /\ bak'[f] = bak[f])
  BY <1>1 DEF SaveFiles, Copied
<1>4. \A k \in Proc : pcC[k] \in Before \cup {"none", "clean", "reboot", "failed"}
  BY <1>0 DEF Alone, Down, Replace, Before, ChildPC
<1>5. ASSUME NEW k \in Proc, k # i PROVE BackupHas(k)'
  <2>1. pcC'[k] = pcC[k]
    BY <1>0, <1>1, <1>5
  <2>2. CASE pcC[k] \in Before \cup {"none"}
    BY <1>0, <1>1, <2>1, <2>2, SavedTwice
  <2>3. CASE pcC[k] \in {"clean", "reboot", "failed"}
    BY <2>1, <2>3 DEF BackupHas, BackedUp, Replace
  <2> QED
    BY <1>4, <2>2, <2>3
<1>6. BackupHas(i)'
  <2>1. BackupHas(i)
    BY DEF Files, BackupIsOrig, BackupHas
  <2>2. CASE pcC[i] = "bakBin"
    <3>1. "bin" \in App /\ "bin" \in done \cup cut /\ pcC'[i] = "bakLibs"
      BY <1>0, <1>1, <2>2
    <3>2. BackedUp(i)' = {"bin"}
      BY <3>1 DEF BackedUp, Replace
    <3>3. "bin" \in spoilt' \/ bak'["bin"] = inst'["bin"]
      BY <1>0, <1>3, <3>1
    <3> QED
      BY <3>1, <3>2, <3>3 DEF BackupHas, Before
  <2>3. CASE pcC[i] = "bakLibs"
    BY <1>0, <1>1, <1>3, <2>1, <2>3 DEF BackupHas, BackedUp, Before
  <2> QED
    BY <1>0, <2>2, <2>3
<1>7. ASSUME NEW k \in Proc PROVE InstalledIs(k)'
  <2>1. InstalledIs(k)
    BY DEF Files, InstalledFiles, InstalledIs
  <2>2. CASE k # i
    <3>1. pcC'[k] = pcC[k] /\ Restored(k)' = {}
      BY <1>0, <1>1, <1>4, <2>2 DEF Restored, Before
    <3> QED
      BY <1>0, <2>1, <3>1 DEF InstalledIs, Replaced, New
  <2>3. CASE k = i
    <3>1. pcC'[i] \in {"bakLibs", "kill"}
      BY <1>0, <1>1
    <3> QED
      BY <2>3, <3>1 DEF InstalledIs, Forward, Restored, Replace
  <2> QED
    BY <2>2, <2>3
<1> QED
  BY <1>2, <1>5, <1>6, <1>7 DEF Files, BackupIsOrig, InstalledFiles, BackupHas, InstalledIs

\* The kill: what is then installed is what a roll back restores.
LEMMA StopInstalls ==
  ASSUME TypeOK, Files, NEW i \in Proc, StopService(i)
  PROVE  Files'
<1> USE DEF TypeOK
<1>1. PICK cut \in SUBSET {"bin"}, l \in {late, Libs} :
        bak' = Copied(bak, inst, {}, cut) /\ late' = l /\ spoilt' = spoilt \cup cut \cup l
  BY Zenon DEF StopService
<1>2. /\ pcC' = [j \in Proc |-> IF j = i THEN "cpBin" ELSE "none"]
      /\ inst' = inst /\ orig' = inst /\ pcC[i] = "kill"
  BY DEF StopService
<1>3. \A f \in App \ spoilt' : bak'[f] = inst[f]
  <2>1. \A f \in App \ spoilt : bak[f] = inst[f]
    BY <1>2 DEF Files, BackupIsOrig, BackedUp, Before, Replace
  <2>2. \A f \in App : f \notin cut => bak'[f] = bak[f]
    BY <1>1 DEF Copied
  <2> QED
    BY <1>1, <2>1, <2>2
<1>4. BackupIsOrig'
  BY <1>2, <1>3 DEF BackupIsOrig, BackedUp, Before, Replace
<1>5. InstalledFiles'
  BY <1>2 DEF InstalledFiles, Forward, Restored, Replaced, Replace
<1> QED
  BY <1>1, <1>4, <1>5 DEF Files, LateSpoilt

\* The replacement, one file after another: nothing else runs.
LEMMA ReplaceInstalls ==
  ASSUME TypeOK, Alone, Files, SourceFixed, NEW i \in Proc, ReplaceFile(i)
  PROVE  Files'
<1> USE DEF TypeOK, Goto
<1>0. /\ App = {"bin", "cjson", "core", "mhd"} /\ pcC[i] \in Replace /\ Replaces[pcC[i]] \in App
      /\ UNCHANGED <<bak, tmp, orig, src, quiet, spoilt, hasLib, late>>
      /\ \A k \in Proc \ {i} : pcC[k] = "none"
  BY DEF ReplaceFile, Replaces, Replace, App, Libs, stopped, Alone, Down
<1>1. LateSpoilt'
  BY <1>0 DEF Files, LateSpoilt
<1>2. BackupHas(i) /\ InstalledIs(i)
  BY DEF Files, BackupIsOrig, InstalledFiles, BackupHas, InstalledIs
<1>3. \A k \in Proc \ {i} : pcC'[k] = "none"
  BY <1>0 DEF ReplaceFile
<1>4. \A k \in Proc \ {i} : BackupHas(k)' /\ InstalledIs(k)'
  BY <1>3 DEF BackupHas, InstalledIs, BackedUp, Forward, Restored, Replace
<1>5. CASE pcC'[i] = "rbBin"
  <2>1. BackupHas(i)'
    BY <1>0, <1>2, <1>5 DEF BackupHas, BackedUp, Before, Replace
  <2>2. InstalledIs(i)'
    BY <1>5 DEF InstalledIs, Forward, Restored, Replace
  <2> QED
    BY <1>1, <1>4, <2>1, <2>2 DEF Files, BackupIsOrig, InstalledFiles, BackupHas, InstalledIs
<1>6. CASE pcC'[i] # "rbBin"
  <2>1. inst' = Copied(inst, tmp, ToCopy(i), {}) /\ pcC'[i] = AfterReplace[pcC[i]]
    BY <1>6 DEF ReplaceFile
  <2>2. \A g \in App : inst'[g] = IF g = Replaces[pcC[i]] /\ g \in New(i) THEN tmp[g] ELSE inst[g]
    BY <2>1 DEF Copied, ToCopy, New
  <2>3. quiet => tmp = src
    BY <1>0 DEF SourceFixed
  <2>4. BackupHas(i)'
    BY <1>0, <1>2, <2>1 DEF BackupHas, BackedUp, Before, Replace, AfterReplace
  <2>5. New(i)' = New(i)
    BY <1>0 DEF New
  <2>6. Replaced(i)' = Replaced(i) \cup {Replaces[pcC[i]]} /\ Replaces[pcC[i]] \notin Replaced(i)
    BY <1>0, <2>1 DEF Replaced, Replaces, AfterReplace, Replace
  <2>7. pcC'[i] \in Forward /\ pcC[i] \in Forward /\ Restored(i)' = {}
    BY <1>0, <2>1 DEF Forward, Restored, AfterReplace, Replace
  <2>8. \A f \in App \ Replaced(i)' : inst'[f] = orig'[f]
    BY <1>0, <1>2, <2>2, <2>6, <2>7 DEF InstalledIs
  <2>9. quiet => \A f \in Replaced(i)' : inst'[f] = IF f \in New(i) THEN src[f] ELSE orig[f]
    <3> SUFFICES ASSUME quiet, NEW f \in Replaced(i)'
                 PROVE  inst'[f] = IF f \in New(i) THEN src[f] ELSE orig[f]
      OBVIOUS
    <3>1. CASE f = Replaces[pcC[i]]
      <4>1. inst[f] = orig[f]
        BY <1>0, <1>2, <2>6, <2>7, <3>1 DEF InstalledIs
      <4> QED
        BY <1>0, <2>2, <2>3, <3>1, <4>1
    <3>2. CASE f # Replaces[pcC[i]]
      <4>1. f \in Replaced(i) /\ f \in App
        BY <2>6, <3>2 DEF Replaced, App, Libs, Replace
      <4> QED
        BY <1>2, <2>2, <2>7, <3>2, <4>1 DEF InstalledIs
    <3> QED
      BY <3>1, <3>2
  <2>10. InstalledIs(i)'
    BY <1>0, <2>5, <2>7, <2>8, <2>9 DEF InstalledIs
  <2> QED
    BY <1>1, <1>4, <2>4, <2>10 DEF Files, BackupIsOrig, InstalledFiles, BackupHas, InstalledIs
<1> QED
  BY <1>5, <1>6

\* The roll back, too, is alone with the files.
LEMMA RollBackInstalls ==
  ASSUME TypeOK, Alone, Files, NEW i \in Proc, RollBackBinary(i) \/ RollBackLibraries(i)
  PROVE  Files'
<1> USE DEF TypeOK, Goto
<1>0. /\ App = {"bin", "cjson", "core", "mhd"} /\ Libs = {"cjson", "core", "mhd"}
      /\ pcC[i] \in {"rbBin", "rbLibs"} /\ UNCHANGED <<bak, orig, late>>
      /\ \A k \in Proc \ {i} : pcC[k] = "none"
      /\ spoilt \subseteq spoilt'
  BY DEF RollBackBinary, RollBackLibraries, App, Libs, stopped, Alone, Down
<1>1. LateSpoilt'
  BY <1>0 DEF Files, LateSpoilt
<1>2. BackupHas(i) /\ InstalledIs(i)
  BY DEF Files, BackupIsOrig, InstalledFiles, BackupHas, InstalledIs
<1>3. \A k \in Proc \ {i} : pcC'[k] = "none"
  BY <1>0 DEF RollBackBinary, RollBackLibraries
<1>4. \A k \in Proc \ {i} : BackupHas(k)' /\ InstalledIs(k)'
  BY <1>3 DEF BackupHas, InstalledIs, BackedUp, Forward, Restored, Replace
<1>5. \A f \in App \ spoilt : bak[f] = orig[f] /\ bak[f] # None
  BY <1>0, <1>2 DEF BackupHas, BackedUp, Before, Replace
<1>6. CASE RollBackBinary(i)
  <2>1. pcC'[i] = "rbLibs"
    BY <1>6 DEF RollBackBinary
  <2>2. "bin" \in spoilt' \/ inst'["bin"] = bak["bin"]
    BY <1>0, <1>6 DEF RollBackBinary, Copied
  <2>3. BackupHas(i)'
    BY <1>0, <1>5, <2>1 DEF BackupHas, BackedUp, Before, Replace
  <2>4. InstalledIs(i)'
    BY <1>0, <1>5, <2>1, <2>2 DEF InstalledIs, Forward, Restored, Replace
  <2> QED
    BY <1>1, <1>4, <2>3, <2>4 DEF Files, BackupIsOrig, InstalledFiles, BackupHas, InstalledIs
<1>7. CASE RollBackLibraries(i)
  <2>1. pcC'[i] = "rbStart" /\ pcC[i] = "rbLibs"
    BY <1>7 DEF RollBackLibraries
  <2>2. \A f \in Libs \ spoilt' : inst'[f] = bak[f]
    <3>1. PICK done \in SUBSET Present(bak, Libs) :
            /\ inst' = Copied(inst, bak, done, Present(bak, Libs) \ done)
            /\ spoilt' = spoilt \cup (Present(bak, Libs) \ done)
      <4>1. CASE inst' = Copied(inst, bak, Present(bak, Libs), {}) /\ UNCHANGED spoilt
        <5>1. Present(bak, Libs) \ Present(bak, Libs) = {}
          OBVIOUS
        <5> QED
          BY <4>1, <5>1
      <4> QED
        BY <1>7, <4>1 DEF RollBackLibraries
    <3>2. \A f \in Libs \ spoilt' : f \in done
      BY <1>0, <1>5, <3>1 DEF Present
    <3> QED
      BY <1>0, <3>1, <3>2 DEF Copied
  <2>3. "bin" \in spoilt' \/ inst'["bin"] = orig["bin"]
    <3>1. "bin" \in spoilt \/ inst["bin"] = orig["bin"]
      BY <1>2, <2>1 DEF InstalledIs, Restored
    <3>2. inst'["bin"] = inst["bin"]
      <4>1. \E done, cut \in SUBSET Libs : inst' = Copied(inst, bak, done, cut)
        BY <1>7 DEF RollBackLibraries, Present
      <4> QED
        BY <1>0, <4>1 DEF Copied
    <3> QED
      BY <1>0, <3>1, <3>2
  <2>4. BackupHas(i)'
    BY <2>1 DEF BackupHas, BackedUp, Replace
  <2>5. InstalledIs(i)'
    BY <1>0, <1>5, <2>1, <2>2, <2>3 DEF InstalledIs, Forward, Restored, Replace
  <2> QED
    BY <1>1, <1>4, <2>4, <2>5 DEF Files, BackupIsOrig, InstalledFiles, BackupHas, InstalledIs
<1> QED
  BY <1>6, <1>7

\* The other steps of a process copy nothing.
LEMMA ChildInstalls ==
  ASSUME TypeOK, Alone, Files, SourceFixed, NEW i \in Proc, Child(i)
  PROVE  Files'
<1> USE DEF TypeOK, Goto, stopped, ghosts
<1> DEFINE Others == \A k \in Proc \ {i} : BackupHas(k)' /\ InstalledIs(k)'
<1>1. ASSUME Others, BackupHas(i)', InstalledIs(i)', UNCHANGED <<late, spoilt>> PROVE Files'
  <2>1. \A k \in Proc : BackupHas(k)' /\ InstalledIs(k)'
    BY <1>1
  <2> QED
    BY <1>1, <2>1 DEF Files, LateSpoilt, BackupIsOrig, InstalledFiles, BackupHas, InstalledIs
<1>2. BackupHas(i) /\ InstalledIs(i)
  BY DEF Files, BackupIsOrig, InstalledFiles, BackupHas, InstalledIs
<1>3. CASE LookForLibraries(i)
  <2>1. Others
    <3>1. \A k \in Proc \ {i} : pcC'[k] = pcC[k] /\ hasLib'[k] = hasLib[k]
      BY <1>3 DEF LookForLibraries
    <3> QED
      BY <1>3, <3>1, OthersKept DEF LookForLibraries
  <2>2. pcC'[i] \in {"none", "bakBin"}
    BY <1>3 DEF LookForLibraries
  <2>3. BackupHas(i)' /\ InstalledIs(i)'
    BY <2>2 DEF BackupHas, InstalledIs, BackedUp, Forward, Restored, Replace
  <2> QED
    BY <1>1, <1>3, <2>1, <2>3 DEF LookForLibraries
<1>4. CASE StartService(i)
  <2>1. Others
    <3>1. \A k \in Proc \ {i} : pcC'[k] = pcC[k] /\ hasLib'[k] = hasLib[k]
      BY <1>4 DEF StartService
    <3> QED
      BY <1>4, <3>1, OthersKept DEF StartService
  <2>2. pcC[i] = "start" /\ pcC'[i] \in {"clean", "rbBin"}
    BY <1>4 DEF StartService
  <2>3. BackupHas(i)'
    BY <1>2, <1>4, <2>2 DEF StartService, BackupHas, BackedUp, Before, Replace
  <2>4. InstalledIs(i)'
    BY <1>2, <1>4, <2>2 DEF StartService, InstalledIs, Forward, Restored, Replaced, New, Replace
  <2> QED
    BY <1>1, <1>4, <2>1, <2>3, <2>4 DEF StartService
<1>5. CASE Cleanup(i)
  <2>1. Others
    <3>1. \A k \in Proc \ {i} : pcC'[k] = pcC[k] /\ hasLib'[k] = hasLib[k]
      BY <1>5 DEF Cleanup
    <3> QED
      BY <1>5, <3>1, OthersKept DEF Cleanup
  <2>2. pcC[i] = "clean" /\ pcC'[i] = "reboot"
    BY <1>5 DEF Cleanup
  <2>3. BackupHas(i)'
    BY <2>2 DEF BackupHas, BackedUp, Replace
  <2>4. InstalledIs(i)'
    BY <1>2, <1>5, <2>2 DEF Cleanup, InstalledIs, Forward, Restored, Replaced, New, Replace
  <2> QED
    BY <1>1, <1>5, <2>1, <2>3, <2>4 DEF Cleanup
<1>6. CASE RollBackStart(i)
  <2>1. Others
    <3>1. \A k \in Proc \ {i} : pcC'[k] = pcC[k] /\ hasLib'[k] = hasLib[k]
      BY <1>6 DEF RollBackStart
    <3> QED
      BY <1>6, <3>1, OthersKept DEF RollBackStart
  <2>2. pcC'[i] = "failed"
    BY <1>6 DEF RollBackStart
  <2>3. BackupHas(i)' /\ InstalledIs(i)'
    BY <2>2 DEF BackupHas, InstalledIs, BackedUp, Forward, Restored, Replace
  <2> QED
    BY <1>1, <1>6, <2>1, <2>3 DEF RollBackStart
<1>7. CASE Exit(i)
  <2>1. \A k \in Proc \ {i} : pcC[k] \in Before \cup {"none"} /\ pcC'[k] = pcC[k]
    BY <1>7 DEF Exit, Alone, Down, Before, Replace
  <2>2. \A k \in Proc \ {i} : BackupHas(k)
    BY DEF Files, BackupIsOrig, BackupHas
  <2>3. Others
    <3> SUFFICES ASSUME NEW k \in Proc \ {i} PROVE BackupHas(k)' /\ InstalledIs(k)'
      OBVIOUS
    <3>1. InstalledIs(k)'
      BY <2>1 DEF InstalledIs, Forward, Restored, Before, Replace
    <3>0. k \in Proc /\ pcC'[k] = pcC[k] /\ BackupHas(k)
      BY <2>1, <2>2
    <3>2. CASE pcC[k] \in Before
      <4>1. BackedUp(k)' = BackedUp(k)
        BY <3>0 DEF BackedUp
      <4>2. UNCHANGED <<bak, inst, spoilt>>
        BY <1>7 DEF Exit
      <4> QED
        BY <3>0, <3>1, <3>2, <4>1, <4>2 DEF BackupHas
    <3>3. CASE pcC[k] = "none"
      <4>1. BackedUp(k)' = {}
        BY <3>0, <3>3 DEF BackedUp, Replace
      <4> QED
        BY <3>1, <4>1 DEF BackupHas
    <3> QED
      BY <2>1, <3>1, <3>2, <3>3
  <2>4. pcC'[i] = "none"
    BY <1>7 DEF Exit
  <2>5. BackupHas(i)' /\ InstalledIs(i)'
    BY <2>4 DEF BackupHas, InstalledIs, BackedUp, Forward, Restored, Replace
  <2> QED
    BY <1>1, <1>7, <2>3, <2>5 DEF Exit
<1> QED
  BY <1>3, <1>4, <1>5, <1>6, <1>7, BackupInstalls, StopInstalls, ReplaceInstalls, RollBackInstalls
     DEF Child

\* Every step keeps what is saved, installed and restored; a cp that goes on
\* reaches only files that were not saved in time.
LEMMA FilesPreserved ==
  ASSUME TypeOK, Alone, Files, SourceFixed, [Next]_vars
  PROVE  Files'
<1>1. CASE LateCopy
  <2>1. \A f \in App \ spoilt : bak'[f] = bak[f]
    BY <1>1 DEF LateCopy, Copied, Files, LateSpoilt
  <2>2. UNCHANGED <<pcC, hasLib, inst, orig, src, quiet, spoilt>> /\ late' \subseteq late
    BY <1>1 DEF LateCopy, ghosts, stopped
  <2>3. \A k \in Proc : BackedUp(k)' = BackedUp(k) /\ BackedUp(k) \subseteq App
    BY <2>2 DEF BackedUp, App, Libs
  <2>4. BackupIsOrig'
    BY <2>1, <2>2, <2>3 DEF Files, BackupIsOrig
  <2>5. InstalledFiles'
    BY <2>2 DEF Files, InstalledFiles, Replaced, Restored, New
  <2> QED
    BY <2>2, <2>4, <2>5 DEF Files, LateSpoilt
<1>2. CASE UNCHANGED vars
  <2>1. UNCHANGED <<pcC, hasLib, inst, bak, late, orig, src, quiet, spoilt>>
    BY <1>2 DEF vars
  <2>2. BackupIsOrig' /\ LateSpoilt'
    BY <2>1 DEF Files, LateSpoilt, BackupIsOrig, BackedUp
  <2>3. InstalledFiles'
    BY <2>1 DEF Files, InstalledFiles, Replaced, Restored, New
  <2> QED
    BY <2>2, <2>3 DEF Files
<1> QED
  BY <1>1, <1>2, HandlerInstallsNothing, ChildInstalls, BootForgets DEF Next, Reboot, PowerLoss

\* What a single package left in the directory is of that package, and is there
\* unchanged while files are replaced.
LEMMA SourcePreserved ==
  ASSUME TypeOK, Alone, Source, [Next]_vars
  PROVE  Source'
<1> USE DEF TypeOK, Source, handler, child, stopped, ghosts
<1>1. CASE Handler
  <2>1. FromGiven'
    <3>1. CASE ExtractPart
      BY <3>1 DEF ExtractPart, FromGiven
    <3>2. CASE ExtractFails
      BY <3>2 DEF ExtractFails, FromGiven
    <3>3. CASE UNCHANGED <<tmp, given>>
      BY <3>3 DEF FromGiven
    <3> QED
      BY <1>1, <3>1, <3>2, <3>3 DEF Handler, wtsl_core_do_upload, wtsl_core_firmware_upgrade,
           ExtractDone, VerifyModules, upgrade_hi_firmware, Fork
  <2>2. OneSource'
    BY <1>1, HandlerForks DEF OneSource
  <2>3. SourceFixed'
    <3> SUFFICES ASSUME NEW k \in Proc, pcC'[k] \in Replace, quiet'
                 PROVE  pcP' = "idle" /\ tmp' = src'
      BY DEF SourceFixed
    <3>1. pcC[k] \in Replace /\ UNCHANGED <<quiet, src>>
      BY <1>1, HandlerForks DEF Replace
    <3>2. ~up /\ pcP = "idle" /\ tmp = src
      BY <3>1, HandlerForks DEF SourceFixed, Alone, Down
    <3> QED
      BY <1>1, <3>1, <3>2 DEF Handler, wtsl_core_do_upload, wtsl_core_firmware_upgrade, Extracting,
           ExtractPart, ExtractFails, ExtractDone, VerifyModules, upgrade_hi_firmware, Fork
  <2> QED
    BY <2>1, <2>2, <2>3
<1>2. ASSUME NEW i \in Proc, Child(i) PROVE Source'
  <2>1. FromGiven'
    <3>1. UNCHANGED <<tmp, given>> \/ tmp' = Empty
      BY <1>2 DEF Child, LookForLibraries, BackupBinary, BackupLibraries, StopService, ReplaceFile,
           StartService, Cleanup, RollBackBinary, RollBackLibraries, RollBackStart, Exit
    <3> QED
      BY <3>1 DEF FromGiven, Empty
  <2>2. OneSource'
    <3>1. CASE StopService(i)
      BY <3>1 DEF StopService, OneSource, FromGiven
    <3>2. CASE Exit(i)
      BY <3>2 DEF Exit, Forget, OneSource
    <3>3. CASE UNCHANGED <<one, src>>
      BY <3>3 DEF OneSource
    <3> QED
      BY <1>2, <3>1, <3>2, <3>3 DEF Child, LookForLibraries, BackupBinary, BackupLibraries,
           ReplaceFile, StartService, Cleanup, RollBackBinary, RollBackLibraries, RollBackStart
  <2>3. SourceFixed'
    <3> SUFFICES ASSUME NEW k \in Proc, pcC'[k] \in Replace, quiet'
                 PROVE  pcP' = "idle" /\ tmp' = src'
      BY DEF SourceFixed
    <3>1. CASE StopService(i)
      BY <3>1 DEF StopService
    <3>2. CASE ReplaceFile(i)
      <4>1. pcC[i] \in Replace /\ \A j \in Proc \ {i} : pcC[j] = "none"
        BY <3>2 DEF ReplaceFile, Alone, Down
      <4>2. UNCHANGED <<pcP, tmp, src, quiet>>
        BY <3>2 DEF ReplaceFile
      <4> QED
        BY <4>1, <4>2 DEF SourceFixed
    <3>3. CASE ~StopService(i) /\ ~ReplaceFile(i)
      <4>1. pcC[i] \notin Replace /\ pcC'[i] \notin Replace
        BY <1>2, <3>3 DEF Child, LookForLibraries, BackupBinary, BackupLibraries, StartService, Cleanup,
             RollBackBinary, RollBackLibraries, RollBackStart, Exit, Goto, Replace
      <4>2. k # i /\ pcC[k] = pcC'[k]
        BY <1>2, <3>3, <4>1, ChildMoves DEF Goto
      <4>3. pcC[i] = "none"
        BY <4>2 DEF Alone, Down
      <4> QED
        BY <1>2, <3>3, <4>3 DEF Child, LookForLibraries, BackupBinary, BackupLibraries, StartService,
             Cleanup, RollBackBinary, RollBackLibraries, RollBackStart, Exit
    <3> QED
      BY <3>1, <3>2, <3>3
  <2> QED
    BY <2>1, <2>2, <2>3
<1>3. ASSUME GoDown PROVE Source'
  BY <1>3 DEF GoDown, Boot, Forget, SourceFixed, FromGiven, OneSource, Empty, Replace
<1>4. CASE LateCopy
  BY <1>4 DEF LateCopy, SourceFixed, FromGiven, OneSource
<1>5. CASE UNCHANGED vars
  BY <1>5 DEF vars, SourceFixed, FromGiven, OneSource
<1> QED
  BY <1>1, <1>2, <1>3, <1>4, <1>5 DEF Next, Reboot, PowerLoss

-----------------------------------------------------------------------------
(***************************************************************************)
(* Verified firmware                                                       *)
(***************************************************************************)
\* The directory verified is the directory copied: until then the handler
\* extracts nothing, and the upgrade process can only remove it.
LEMMA FirmwarePreserved ==
  ASSUME IInv, [Next]_vars
  PROVE  VerifiedInHand' /\ FirmwareVerified'
<1> USE DEF IInv, VerifiedInHand, FirmwareVerified, handler, child, ghosts
<1>1. CASE Handler
  <2>1. CASE VerifyModules
    BY <2>1 DEF VerifyModules
  <2>2. CASE upgrade_hi_firmware
    BY <2>2 DEF upgrade_hi_firmware, verify_single_ko_file, get_md5_by_ko_name
  <2>3. CASE pcP' # "firmware" /\ UNCHANGED fw
    BY <2>3
  <2>4. CASE ~VerifyModules /\ ~upgrade_hi_firmware
    BY <1>1, <2>3, <2>4 DEF Handler, wtsl_core_do_upload, wtsl_core_firmware_upgrade,
         Extracting, ExtractPart, ExtractFails, ExtractDone, Fork
  <2> QED
    BY <2>1, <2>2, <2>4
<1>2. ASSUME NEW i \in Proc, Child(i) PROVE VerifiedInHand' /\ FirmwareVerified'
  <2>1. UNCHANGED <<fw, req>>
    BY <1>2, ChildMoves DEF StopService
  <2>2. pcP' = "firmware" => pcP = "firmware"
    BY <1>2, ChildMoves DEF StopService
  <2>3. tmp' = tmp \/ tmp'["fw"] = None
    BY <1>2 DEF Child, LookForLibraries, BackupBinary, BackupLibraries, StopService, ReplaceFile,
         StartService, Cleanup, RollBackBinary, RollBackLibraries, RollBackStart, Exit, Empty, Part
  <2> QED
    BY <2>1, <2>2, <2>3
<1>3. ASSUME GoDown PROVE VerifiedInHand' /\ FirmwareVerified'
  BY <1>3 DEF GoDown, Boot
<1>4. CASE LateCopy
  BY <1>4 DEF LateCopy
<1>5. CASE UNCHANGED vars
  BY <1>5 DEF vars
<1> QED
  BY <1>1, <1>2, <1>3, <1>4, <1>5 DEF Next, Reboot, PowerLoss

-----------------------------------------------------------------------------
(***************************************************************************)
(* The theorems                                                            *)
(***************************************************************************)
\* Every step of the handler, of the upgrade process and of the machine keeps
\* the invariant.
LEMMA NextIInv == IInv /\ [Next]_vars => IInv'
<1> SUFFICES ASSUME IInv, [Next]_vars PROVE IInv'
  OBVIOUS
<1>1. TypeOK' /\ Alone'
  BY TypesPreserved, AlonePreserved DEF IInv
<1>2. Files' /\ Source'
  BY FilesPreserved, SourcePreserved DEF IInv, Source
<1>3. VerifiedInHand' /\ FirmwareVerified'
  BY FirmwarePreserved
<1> QED
  BY <1>1, <1>2, <1>3 DEF IInv

\* The invariant holds in every state.
LEMMA SpecIInv == Spec => []IInv
BY InitIInv, NextIInv, PTL DEF Spec

\* Every variable keeps its type: no installed file is ever missing, whatever
\* copy fails or is interrupted (perform_app_upgrade).
THEOREM TypeCorrect == Spec => []TypeOK
<1>1. IInv => TypeOK
  BY DEF IInv
<1> QED
  BY <1>1, SpecIInv, PTL

\* A roll back restores the files found when the service was stopped, except
\* those whose saving or restoring a command did not complete, for any number of
\* upgrade processes (the rollback label of perform_app_upgrade).
THEOREM RollbackIsExact == Spec => []RollbackRestores
<1>1. IInv => RollbackRestores
  BY DEF IInv, Files, InstalledFiles, Restored, Replace, RollbackRestores
<1> QED
  BY <1>1, SpecIInv, PTL

\* The device restarts into the files found extracted when the service was
\* stopped, with the libraries it had where none are replaced: files of one
\* package, when a single one was extracted.
THEOREM RestartIsComplete == Spec => []RestartsComplete
<1>1. IInv => RestartsComplete
  <2> SUFFICES ASSUME IInv, NEW i \in Proc, pcC[i] \in {"start", "clean", "reboot"}, quiet
               PROVE  /\ inst = Copied(orig, src, New(i), {})
                      /\ one => \E p \in Pkg : \A f \in New(i) : inst[f] = p
    BY DEF RestartsComplete, New
  <2>1. \A f \in App : inst[f] = IF f \in New(i) THEN src[f] ELSE orig[f]
    BY DEF IInv, Files, InstalledFiles, Forward, Replaced, Replace
  <2>2. inst = Copied(orig, src, New(i), {})
    BY <2>1 DEF IInv, TypeOK, Copied
  <2>3. ASSUME one PROVE \E p \in Pkg : \A f \in New(i) : inst[f] = p
    <3>1. PICK p \in Pkg : \A f \in Part : src[f] \in {None, p}
      BY <2>3 DEF IInv, Source, OneSource
    <3>2. \A f \in New(i) : f \in Part /\ inst[f] = src[f] /\ inst[f] # None
      BY <2>1 DEF IInv, TypeOK, New, Part
    <3> QED
      BY <3>1, <3>2
  <2> QED
    BY <2>2, <2>3
<1> QED
  BY <1>1, SpecIInv, PTL

\* Radio firmware is copied only from a package whose four kernel modules have
\* the sums its header names (verify_single_ko_file, upgrade_hi_firmware).
THEOREM FirmwareIsVerified == Spec => []FirmwareVerified
<1>1. IInv => FirmwareVerified
  BY DEF IInv
<1> QED
  BY <1>1, SpecIInv, PTL
=============================================================================
