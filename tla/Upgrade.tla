------------------------------ MODULE Upgrade ------------------------------
(***************************************************************************)
(* Firmware upgrade: the request handler (wtsl_core_firmware_upgrade,      *)
(* extract_and_verify_firmware, handle_firmware_upgrade), the process it   *)
(* forks (orphan_process_upgrade, perform_app_upgrade), and the files they *)
(* work on.                                                                *)
(*                                                                         *)
(* A file is represented by the package it came from.  Every step may be   *)
(* the last before a power loss, and every copy may fail.  An upgrade      *)
(* accepted while such a process exists forks another, which writes the    *)
(* same backup until one of the two kills the other.  The two signals of   *)
(* the kill are one step.  The copy of the web pages, which nothing else   *)
(* here reads, is left out.                                                *)
(***************************************************************************)
EXTENDS Integers, Sequences

CONSTANTS
  Pkg,       \* the firmware packages that may be uploaded
  Header,    \* Header[p]: what the header of package p says
  Machine,   \* the architecture of the device
  Archive,   \* Archive[p]: the parts package p contains, in the archive's order
  Factory,   \* what the device was delivered with
  None,      \* no file
  Broken,    \* a file cut short by a failed or interrupted copy
  Proc,      \* the upgrade processes that may exist at a time: a bound
  MaxRequests, \* a bound on the upgrades accepted
  MaxFaults  \* a bound on the failures and power losses

Libs == {"cjson", "core", "mhd"}
App  == {"bin"} \cup Libs                  \* /home/wt/app
Part == App \cup {"fw"}                     \* and the directory firmware_t<version>

\* The kernel modules in it, and the fields that a header must have.
Modules  == {"gt_gf61", "hi_cipherserver", "ksecurec", "plat_gf61"}
Required == {"filename", "md5sum", "filesize"}

ASSUME PackageAssumption ==
  /\ \A p \in Pkg :
       /\ Header[p].fields \subseteq Required
       /\ Header[p].targetarch \in {"", "arm", "arm64", "x86"} /\ Header[p].version \in Int
       /\ Header[p].md5sum \in {"right", "wrong"}
       /\ Header[p].ko_files \in [Modules -> {"right", "wrong", "absent"}]
  /\ Archive \in [Pkg -> Seq(Part)]
  /\ {Factory, None, Broken} \cap Pkg = {}
  /\ Factory # None /\ Factory # Broken /\ None # Broken
  /\ MaxRequests \in Nat /\ MaxFaults \in Nat

VARIABLES
  up,       \* the service runs, and with it the HTTP server
  pcP,      \* the request handler
  req,      \* the package uploaded last: /tmp/upgrade.bin, and its archive
  left,     \* the parts tar has still to extract
  pcC,      \* pcC[i]: what upgrade process i is about to do
  hasLib,   \* hasLib[i]: its has_lib_cjson, has_lib_wtsl_core, has_lib_microhttpd
  startCmd, \* start_cmd of the one that has killed the others has been filled in
  tmp,      \* /tmp/upload_file
  inst,     \* /home/wt/app
  bak,      \* wtsl_app.backup and lib.backup
  late,     \* what the cp of a killed process has still to copy to lib.backup
  fw,       \* the firmware_t directory last copied to /home/wt
  \* History variables, read by the properties only.
  given,    \* the packages extracted to tmp since it was empty; Broken, if one failed
  orig,     \* inst when the service was stopped
  src,      \* tmp then
  quiet,    \* no archive was being extracted then
  one,      \* and given was one package
  spoilt,   \* the files whose last backup, or roll back, was not completed
  requests, \* the upgrades accepted so far
  faults    \* the failures so far

handler == <<pcP, req, left>>
child   == <<pcC, hasLib, startCmd, late>>
stopped == <<orig, src, quiet, one>>
ghosts  == <<given, stopped, spoilt, requests, faults>>
vars == <<up, pcP, req, left, pcC, hasLib, startCmd, tmp, inst, bak, fw, late,
          given, orig, src, quiet, one, spoilt, requests, faults>>

HandlerPC == {"idle", "extract", "orphan", "verify", "firmware", "fork"}
Replace == {"cpBin", "cpCjson", "cpCore", "cpMhd"}
ChildPC == {"none", "look", "bakBin", "bakLibs", "kill", "start", "clean", "reboot",
            "rbBin", "rbLibs", "rbStart", "failed"} \cup Replace

Empty == [f \in Part |-> None]

Init ==
  /\ up = TRUE
  /\ pcP = "idle" /\ req = None /\ left = <<>>
  /\ pcC = [i \in Proc |-> "none"] /\ hasLib = [i \in Proc |-> FALSE]
  /\ startCmd = FALSE /\ late = {}
  /\ tmp = Empty /\ given = {}
  /\ inst = [f \in App |-> Factory]
  /\ bak = [f \in App |-> None]
  /\ fw = Factory
  /\ orig = inst /\ src = tmp /\ quiet = TRUE /\ one = FALSE
  /\ spoilt = {} /\ requests = 0 /\ faults = 0

Fault == faults < MaxFaults /\ faults' = faults + 1

-----------------------------------------------------------------------------
(***************************************************************************)
(* The request handler, in the service's HTTP thread.                      *)
(***************************************************************************)
\* The checks of a package.  MD5 sums are represented by whether they are right.
parse_firmware_header(p) == Required \subseteq Header[p].fields

Platform_verify(p) ==
  IF Header[p].targetarch = "" THEN Header[p].version >= 123
  ELSE Header[p].targetarch \in {"arm", "arm64"} /\ Header[p].targetarch = Machine

calculate_file_md5(p) == Header[p].md5sum

get_md5_by_ko_name(p, m) == Header[p].ko_files[m]

verify_single_ko_file(p, m) == get_md5_by_ko_name(p, m) = "right"

\* wtsl_core_do_upload writes the package, and wtsl_core_parse_json_extract_file_header
\* its archive, if the header can be read; if not, the archive is left empty.
wtsl_core_do_upload(p) ==
  /\ up /\ pcP = "idle"
  /\ req' = p
  /\ UNCHANGED <<up, pcP, left, child, tmp, inst, bak, fw, ghosts>>

\* A package that fails a check is rejected before anything is changed; then
\* extract_tar_gz runs tar.  (With no package the handler reads a file that it has
\* not opened, and the service ends.)
wtsl_core_firmware_upgrade ==
  /\ up /\ pcP = "idle"
  /\ \/ /\ req = None
        /\ up' = FALSE
        /\ UNCHANGED <<pcP, left, requests>>
     \/ /\ req # None
        /\ parse_firmware_header(req) /\ Platform_verify(req)
        /\ calculate_file_md5(req) = "right"
        /\ left' = Archive[req]
        /\ pcP' = "extract"
        /\ UNCHANGED up
        /\ requests < MaxRequests /\ requests' = requests + 1
  /\ UNCHANGED <<req, child, tmp, inst, bak, fw, given, stopped, spoilt, faults>>

\* tar outlives the service, when that is killed: it is then an orphan.
Extracting == {"extract", "orphan"}

\* tar writes one part after another over whatever an earlier package left in
\* the directory.
ExtractPart ==
  /\ pcP \in Extracting
  /\ left # <<>>
  /\ tmp' = [tmp EXCEPT ![Head(left)] = req]
  /\ left' = Tail(left)
  /\ given' = given \cup {req}
  /\ UNCHANGED <<up, pcP, req, child, inst, bak, fw, stopped, spoilt, requests, faults>>

\* A failure in the middle of a part ends the request.
ExtractFails ==
  /\ pcP \in Extracting
  /\ left # <<>>
  /\ tmp' = [tmp EXCEPT ![Head(left)] = Broken]
  /\ pcP' = "idle" /\ left' = <<>>
  /\ given' = given \cup {Broken} /\ Fault
  /\ UNCHANGED <<up, req, child, inst, bak, fw, stopped, spoilt, requests>>

ExtractDone ==
  /\ pcP \in Extracting /\ left = <<>>
  /\ pcP' = IF pcP = "extract" THEN "verify" ELSE "idle"
  /\ UNCHANGED <<up, req, left, child, tmp, inst, bak, fw, ghosts>>

\* Variants with a defect (see the README), here and below: named after it.
NoVerify_VerifyModules ==
  /\ pcP = "verify" /\ up
  /\ pcP' = "firmware"
  /\ UNCHANGED <<up, req, left, child, tmp, inst, bak, fw, ghosts>>

\* The four kernel modules of firmware_t<version>: one missing, or with another
\* MD5 than the header's, and the request ends.  The directory stays as it is.
\* Packages have versions, and so firmware_t directories, of their own.  A module
\* the header does not name is compared with a null pointer, and the service ends.
VerifyModules ==
  /\ pcP = "verify" /\ up
  /\ IF tmp["fw"] = req /\ \E m \in Modules : get_md5_by_ko_name(req, m) = "absent"
     THEN up' = FALSE /\ pcP' = "idle"
     ELSE /\ UNCHANGED up
          /\ pcP' = IF tmp["fw"] = req /\ \A m \in Modules : verify_single_ko_file(req, m)
                    THEN "firmware" ELSE "idle"
  /\ UNCHANGED <<req, left, child, tmp, inst, bak, fw, ghosts>>

\* upgrade_hi_firmware; a failure of its copy is not acted upon.  A package
\* with an app directory goes to orphan_process_upgrade.
upgrade_hi_firmware ==
  /\ pcP = "firmware" /\ up
  /\ fw' \in IF tmp["fw"] = None THEN {fw} ELSE {fw, tmp["fw"], Broken}
  /\ pcP' = IF \E f \in App : tmp[f] # None THEN "fork" ELSE "idle"
  /\ UNCHANGED <<up, req, left, child, tmp, inst, bak, ghosts>>

\* fork, or its failure.
Fork ==
  /\ pcP = "fork" /\ up
  /\ pcP' = "idle"
  /\ \/ \E i \in Proc : pcC[i] = "none" /\ pcC' = [pcC EXCEPT ![i] = "look"]
     \/ UNCHANGED pcC
  /\ UNCHANGED <<up, req, left, hasLib, startCmd, late, tmp, inst, bak, fw, ghosts>>

Handler == \/ \E p \in Pkg : wtsl_core_do_upload(p)
           \/ wtsl_core_firmware_upgrade
           \/ ExtractPart \/ ExtractFails \/ ExtractDone \/ VerifyModules
           \/ upgrade_hi_firmware \/ Fork

-----------------------------------------------------------------------------
(***************************************************************************)
(* The upgrade process i: perform_app_upgrade                              *)
(***************************************************************************)
\* target after a cp that completed the files done, and cut short those of cut.
Copied(target, from, done, cut) ==
  [f \in App |-> IF f \in done THEN from[f] ELSE IF f \in cut THEN Broken ELSE target[f]]

\* The files among fs that from has.
Present(from, fs) == {f \in fs : from[f] # None}

Goto(i, pc) == pcC' = [pcC EXCEPT ![i] = pc]

\* The new binary must be there.  All three has_lib variables are set from the
\* presence of libwtsl_core.so.
LookForLibraries(i) ==
  /\ pcC[i] = "look"
  /\ Goto(i, IF tmp["bin"] = None THEN "none" ELSE "bakBin")
  /\ hasLib' = [hasLib EXCEPT ![i] = tmp["bin"] # None /\ tmp["core"] # None]
  /\ UNCHANGED <<up, handler, startCmd, late, tmp, inst, bak, fw, ghosts>>

\* A cp to the backup.
SaveFiles(done, cut) ==
  /\ bak' = Copied(bak, inst, done, cut)
  /\ spoilt' = (spoilt \ (done \ late)) \cup cut

\* Backup of the binary; a failure is not acted upon.
BackupBinary(i) ==
  /\ pcC[i] = "bakBin"
  /\ \/ SaveFiles({"bin"}, {}) /\ UNCHANGED faults
     \/ SaveFiles({}, {"bin"}) /\ Fault
  /\ Goto(i, "bakLibs")
  /\ UNCHANGED <<up, handler, hasLib, startCmd, late, tmp, inst, fw, given, stopped, requests>>

OneLib_BackupLibraries(i) ==
  /\ pcC[i] = "bakLibs"
  /\ SaveFiles({"core"}, {})
  /\ Goto(i, "kill")
  /\ UNCHANGED <<up, handler, hasLib, startCmd, late, tmp, inst, fw, given, stopped, requests, faults>>

\* Backup of the libraries, in one command that copies as many as it can.
BackupLibraries(i) ==
  /\ pcC[i] = "bakLibs"
  /\ \/ SaveFiles(Libs, {}) /\ UNCHANGED faults
     \/ \E done \in SUBSET Libs \ {Libs} : SaveFiles(done, Libs \ done) /\ Fault
  /\ Goto(i, "kill")
  /\ UNCHANGED <<up, handler, hasLib, startCmd, late, tmp, inst, fw, given, stopped, requests>>

\* kill -TERM and then kill -KILL of every other process with wtsl_app in its
\* command line: the service, the other upgrade processes, and the cp of one
\* that is backing up the binary.  A cp of the libraries goes on, and so does a
\* command the request handler has started.  A process that has started the new
\* service reboots before another, forked by that service, gets here.
StopService(i) ==
  /\ pcC[i] = "kill"
  /\ LET rivals == {pcC[j] : j \in Proc \ {i}} IN
       /\ rivals \cap {"clean", "reboot"} = {}
       /\ \E cut \in IF "bakBin" \in rivals THEN {{}, {"bin"}} ELSE {{}} :
            \E l \in IF "bakLibs" \in rivals THEN {late, Libs} ELSE {late} :
              /\ bak' = Copied(bak, inst, {}, cut) /\ late' = l
              /\ spoilt' = spoilt \cup cut \cup l
  /\ pcC' = [j \in Proc |-> IF j = i THEN "cpBin" ELSE "none"]
  /\ hasLib' = [j \in Proc |-> j = i /\ hasLib[i]]
  /\ up' = FALSE /\ startCmd' = FALSE
  /\ pcP' = IF pcP \in Extracting THEN "orphan" ELSE "idle"
  /\ orig' = inst /\ src' = tmp
  /\ quiet' = (pcP \notin Extracting) /\ one' = \E p \in Pkg : given = {p}
  /\ UNCHANGED <<req, left, tmp, inst, fw, given, requests, faults>>

\* The cp that a killed process has left copies what is then installed.
LateCopy ==
  /\ \E f \in late : late' = late \ {f} /\ bak' = Copied(bak, inst, {f}, {})
  /\ UNCHANGED <<up, handler, pcC, hasLib, startCmd, tmp, inst, fw, ghosts>>

\* The file each step replaces, and the step after it.
Replaces == [cpBin |-> "bin", cpCjson |-> "cjson", cpCore |-> "core", cpMhd |-> "mhd"]
AfterReplace == [cpBin |-> "cpCjson", cpCjson |-> "cpCore", cpCore |-> "cpMhd",
                 cpMhd |-> "start"]

\* What the step of process i copies: each library, when hasLib.
ToCopy(i) == {f \in {Replaces[pcC[i]]} : f = "bin" \/ hasLib[i]}

IgnoreFailure_ReplaceFile(i) ==
  /\ pcC[i] \in Replace
  /\ inst' = Copied(inst, tmp, Present(tmp, ToCopy(i)), {})
  /\ Goto(i, AfterReplace[pcC[i]])
  /\ UNCHANGED <<up, handler, hasLib, startCmd, late, tmp, bak, fw, ghosts>>

RemoveFirst_ReplaceFile(i) ==
  /\ pcC[i] \in Replace
  /\ inst' = Copied(inst, tmp, ToCopy(i), {})
  /\ Goto(i, IF Present(tmp, ToCopy(i)) = ToCopy(i) THEN AfterReplace[pcC[i]] ELSE "rbBin")
  /\ UNCHANGED <<up, handler, hasLib, startCmd, late, tmp, bak, fw, ghosts>>

\* cp of the binary, and of each library when hasLib; the first failure, which
\* includes a library the package does not have, is a goto rollback.
ReplaceFile(i) ==
  /\ pcC[i] \in Replace
  /\ \/ /\ Present(tmp, ToCopy(i)) = ToCopy(i)
        /\ inst' = Copied(inst, tmp, ToCopy(i), {})
        /\ Goto(i, AfterReplace[pcC[i]]) /\ UNCHANGED faults
     \/ /\ Present(tmp, ToCopy(i)) # ToCopy(i)
        /\ Goto(i, "rbBin") /\ UNCHANGED <<inst, faults>>
     \/ /\ ToCopy(i) # {} /\ Fault
        /\ \E cut \in SUBSET ToCopy(i) : inst' = Copied(inst, tmp, {}, cut)
        /\ Goto(i, "rbBin")
  /\ UNCHANGED <<up, handler, hasLib, startCmd, late, tmp, bak, fw, given, stopped, spoilt, requests>>

\* start_cmd is filled in here, and run in the background: the command succeeds
\* also when the service then does not come up.
StartService(i) ==
  /\ pcC[i] = "start"
  /\ startCmd' = TRUE
  /\ \/ Goto(i, "clean") /\ up' = TRUE /\ UNCHANGED faults
     \/ \E pc \in {"clean", "rbBin"} : Goto(i, pc) /\ UNCHANGED up /\ Fault
  /\ UNCHANGED <<handler, hasLib, late, tmp, inst, bak, fw, given, stopped, spoilt, requests>>

Cleanup(i) ==
  /\ pcC[i] = "clean"
  /\ tmp' = Empty /\ given' = {}
  /\ Goto(i, "reboot")
  /\ UNCHANGED <<up, handler, hasLib, startCmd, late, inst, bak, fw, stopped, spoilt, requests, faults>>

RollBackBinary(i) ==
  /\ pcC[i] = "rbBin"
  /\ \/ /\ bak["bin"] # None
        /\ inst' = Copied(inst, bak, {"bin"}, {}) /\ UNCHANGED <<spoilt, requests, faults>>
     \/ /\ \E cut \in SUBSET {"bin"} : inst' = Copied(inst, bak, {}, cut)
        /\ spoilt' = spoilt \cup {"bin"} /\ Fault
  /\ Goto(i, "rbLibs")
  /\ UNCHANGED <<up, handler, hasLib, startCmd, late, tmp, bak, fw, given, stopped, requests>>

\* cp of all that lib.backup has, which fails when that is nothing.
RollBackLibraries(i) ==
  /\ pcC[i] = "rbLibs"
  /\ LET saved == Present(bak, Libs) IN
       \/ inst' = Copied(inst, bak, saved, {}) /\ UNCHANGED <<spoilt, requests, faults>>
       \/ \E done \in SUBSET saved \ {saved} :
            /\ inst' = Copied(inst, bak, done, saved \ done)
            /\ spoilt' = spoilt \cup (saved \ done) /\ Fault
  /\ Goto(i, "rbStart")
  /\ UNCHANGED <<up, handler, hasLib, startCmd, late, tmp, bak, fw, given, stopped, requests>>

\* system(start_cmd): the array is uninitialised when the jump to rollback was
\* made before it was filled in, and what it then holds starts no service.
RollBackStart(i) ==
  /\ pcC[i] = "rbStart"
  /\ \/ startCmd /\ up' = TRUE /\ UNCHANGED faults
     \/ startCmd /\ Fault /\ UNCHANGED up
     \/ ~startCmd /\ UNCHANGED <<up, faults>>
  /\ Goto(i, "failed")
  /\ UNCHANGED <<handler, hasLib, startCmd, late, tmp, inst, bak, fw, given, stopped, spoilt, requests>>

Forget == orig' = inst' /\ src' = Empty /\ quiet' = TRUE /\ one' = FALSE

Exit(i) ==
  /\ pcC[i] = "failed"
  /\ Goto(i, "none") /\ startCmd' = FALSE /\ hasLib' = [hasLib EXCEPT ![i] = FALSE]
  /\ UNCHANGED <<up, handler, late, tmp, inst, bak, fw, given, spoilt, requests, faults>>
  /\ Forget

Child(i) == \/ LookForLibraries(i) \/ BackupBinary(i) \/ BackupLibraries(i)
            \/ StopService(i) \/ ReplaceFile(i) \/ StartService(i) \/ Cleanup(i)
            \/ RollBackBinary(i) \/ RollBackLibraries(i) \/ RollBackStart(i) \/ Exit(i)

-----------------------------------------------------------------------------
(***************************************************************************)
(* "sync && reboot" of the child, and power loss.  /tmp is a memory file   *)
(* system; the start scripts run the service from what is installed.       *)
(***************************************************************************)
Boot ==
  /\ tmp' = Empty /\ given' = {}
  /\ pcP' = "idle" /\ req' = None /\ left' = <<>>
  /\ pcC' = [i \in Proc |-> "none"] /\ hasLib' = [i \in Proc |-> FALSE]
  /\ startCmd' = FALSE /\ late' = {} /\ spoilt' = {}
  /\ up' = \A f \in App : inst'[f] # Broken
  /\ UNCHANGED <<fw, requests>>
  /\ Forget

\* The files of /home/wt/app, and of the backup, that processes are writing.
Writing ==
  LET files(i) == CASE pcC[i] \in Replace -> {Replaces[pcC[i]]}
                    [] pcC[i] = "rbBin"   -> {"bin"}
                    [] pcC[i] = "rbLibs"  -> Present(bak, Libs)
                    [] OTHER              -> {}
  IN UNION {files(i) : i \in Proc}
WritingBackup ==
  LET files(i) == CASE pcC[i] = "bakBin" -> {"bin"} [] pcC[i] = "bakLibs" -> Libs
                    [] OTHER -> {}
  IN late \cup UNION {files(i) : i \in Proc}

\* A file being written may be cut short.
GoDown ==
  /\ \E cut \in SUBSET Writing : inst' = Copied(inst, bak, {}, cut)
  /\ \E cut \in SUBSET WritingBackup : bak' = Copied(bak, inst, {}, cut)
  /\ Boot

Reboot(i) == pcC[i] = "reboot" /\ GoDown /\ UNCHANGED faults

PowerLoss == GoDown /\ Fault

Next == \/ Handler
        \/ \E i \in Proc : Child(i) \/ Reboot(i)
        \/ LateCopy \/ PowerLoss

Spec == Init /\ [][Next]_vars

-----------------------------------------------------------------------------
(***************************************************************************)
(* What is expected of it.                                                 *)
(***************************************************************************)
File == Pkg \cup {Factory, None, Broken}

\* Every variable holds a value of its kind; in particular no installed file
\* is ever missing, whatever step fails or is interrupted.
TypeOK ==
  /\ up \in BOOLEAN
  /\ pcP \in HandlerPC /\ req \in Pkg \cup {None} /\ left \in Seq(Part)
  /\ pcC \in [Proc -> ChildPC] /\ hasLib \in [Proc -> BOOLEAN]
  /\ startCmd \in BOOLEAN /\ late \subseteq Libs
  /\ tmp \in [Part -> File]
  /\ inst \in [App -> File \ {None}] /\ bak \in [App -> File]
  /\ fw \in File
  /\ given \subseteq File
  /\ orig \in [App -> File \ {None}] /\ src \in [Part -> File]
  /\ quiet \in BOOLEAN /\ one \in BOOLEAN /\ spoilt \subseteq App
  /\ requests \in 0 .. MaxRequests /\ faults \in 0 .. MaxFaults

\* A roll back puts back every file as it was before the upgrade, whatever was
\* replaced, cut short or left alone, also when the backup directory holds the
\* files of an earlier upgrade, or another process was copying to it.  The files
\* excepted are those whose copying, to the backup or back, a command did not
\* complete: it failed, or was of a process killed in the middle of its backup
\* (the binary is then cut short, and the libraries may be copied too late).
RollbackRestores ==
  \A i \in Proc : pcC[i] = "rbStart" =>
    \A f \in App \ spoilt : inst[f] = orig[f]

\* The device restarts into the binary, and every library if any is replaced,
\* that the directory held when the service was stopped, and with the libraries
\* it had if none is: no failed copy and no request served meanwhile makes a
\* mixture of the old and the new, unless tar was at work on another archive when
\* the service was killed.  These files are of one package when a single package
\* was extracted since the directory was empty, and no extraction failed.
RestartsComplete ==
  \A i \in Proc : pcC[i] \in {"start", "clean", "reboot"} /\ quiet =>
    LET new == {f \in App : f = "bin" \/ hasLib[i]} IN
      /\ inst = Copied(orig, src, new, {})
      /\ one => \E p \in Pkg : \A f \in new : inst[f] = p

\* Radio firmware is copied only from packages whose modules were verified,
\* though a rejected package stays in the directory it is copied from.
FirmwareVerified ==
  fw \in {Factory, Broken} \/ \A m \in Modules : Header[fw].ko_files[m] = "right"

\* The roll back restarts the service (wtsl_core_dataparser_ota.c:307).
RollbackRestarts == \A i \in Proc : pcC[i] = "failed" /\ faults = 0 => up
=============================================================================
