------------------------ MODULE TaskwarriorToolchain ------------------------
(***************************************************************************)
(* The Taskwarrior installer of installers/taskwarrior: a pinned source    *)
(* build, a bundled binary, or the registration of an administrator's own  *)
(* executable.                                                             *)
(*                                                                         *)
(* Unlike the calendar toolchain's, its record is written by a rename that *)
(* replaces whatever record is there, and only the source installer looks  *)
(* for an existing installation before it starts.  Steps may fail, undo    *)
(* steps may fail, the process may die anywhere, and the administrator may *)
(* change the inputs and the task configuration file.                      *)
(*                                                                         *)
(* A binary is known by what its validation can tell: the version it       *)
(* reports and whether the isolated task lifecycle works.  It stands for   *)
(* its own SHA-256.                                                        *)
(***************************************************************************)
EXTENDS Naturals

CONSTANTS Versions,      \* supported Taskwarrior versions
          Requests,      \* the installation requests of this instance
          None,          \* the file or directory does not exist
          Husk,          \* a version root whose executable is gone
          MaxAttempts,   \* bound: installer runs
          MaxFaults,     \* bound: failed calls and tools, crashes
          MaxEdits       \* bound: changes the administrator makes

Binaries == [reports : Versions, works : BOOLEAN]
Modes == {"source", "bundled", "external"}
Records == [version : Versions, mode : Modes, sha256 : Binaries]
RequestType == [mode : Modes, version : Versions, expected : Binaries]

ASSUME RequestsAreTyped == Requests \subseteq RequestType
ASSUME NoneIsDistinct ==
  /\ None # Husk
  /\ \A x \in {None, Husk} :
        x \notin Binaries \cup Records \cup RequestType
ASSUME BoundsAreNaturals == {MaxAttempts, MaxFaults, MaxEdits} \subseteq Nat

VARIABLES archive,    \* whether the source archive is the pinned one
          artefact,   \* the bundled binary
          external,   \* the administrator's executable
          tools,      \* the version roots under tools_root
          record,     \* the installation record
          taskrc,     \* the managed task configuration
          evidence,   \* whether artefacts of a failed build were preserved
          job,        \* the running installer process
          spent,      \* attempts, faults and edits used so far
          past        \* history: the last acknowledged request and record, and
                      \* whether a record write failed after its rename

vars == <<archive, artefact, external, tools, record, taskrc, evidence, job,
          spent, past>>
inputs == <<archive, artefact, external>>
files == <<tools, record, taskrc, evidence>>

Idle == [at |-> "idle", req |-> None, staged |-> None, seen |-> None,
         outcome |-> "none", faulted |-> FALSE]

-----------------------------------------------------------------------------
(* What each installer does after a phase that went well, in the order of  *)
(* its code.                                                               *)

SourcePreparation ==
  [validate |-> "inspect", inspect |-> "preflight", preflight |-> "network",
   network |-> "dependencies", dependencies |-> "extract",
   extract |-> "build"]
SourceInstallation ==
  [build |-> "stage", stage |-> "smoke", smoke |-> "compare",
   compare |-> "layout", layout |-> "examine"]
BundledPhases ==
  [validate |-> "preflight", preflight |-> "stage", stage |-> "smoke",
   smoke |-> "layout", layout |-> "examine"]
ExternalPhases ==
  [validate |-> "hash", hash |-> "existing", existing |-> "smoke",
   smoke |-> "layout", layout |-> "register"]

(* The dispatcher picks the installer of the requested mode.               *)
Follower(p) ==
  CASE job.req.mode = "source"   -> IF p \in DOMAIN SourcePreparation
                                    THEN SourcePreparation[p]
                                    ELSE SourceInstallation[p]
    [] job.req.mode = "bundled"  -> BundledPhases[p]
    [] job.req.mode = "external" -> ExternalPhases[p]

At(p) == job.at = p
Phase(p) == /\ At(p)
            /\ UNCHANGED <<inputs, spent, past>>

Go(p) == job' = [job EXCEPT !.at = p]
Advance == Go(Follower(job.at))
Succeed == job' = [job EXCEPT !.at = "end", !.outcome = "ok"]

(* Staging and the extracted source are removed with the answer.           *)
Fail == job' = [job EXCEPT !.at = "end", !.outcome = "failed"]
Check(ok) == /\ IF ok THEN Advance ELSE Fail
             /\ UNCHANGED files

(* A build that failed and a binary that failed its test are moved to the  *)
(* directory of failed attempts, if the caller asked for it.               *)
PreserveFailure == evidence' = (evidence \/ job.req.mode = "source")

Fault(p) == /\ At(p)
            /\ spent.faults < MaxFaults
            /\ spent' = [spent EXCEPT !.faults = @ + 1]
            /\ UNCHANGED inputs
Faulted(p, outcome) ==
  job' = [job EXCEPT !.at = p, !.outcome = outcome, !.faulted = TRUE]

-----------------------------------------------------------------------------
Init ==
  /\ archive = "pinned"
  /\ artefact \in Binaries
  /\ external \in Binaries
  /\ tools = [v \in Versions |-> None]
  /\ record = None
  /\ taskrc = None
  /\ evidence = FALSE
  /\ job = Idle
  /\ spent = [attempts |-> 0, faults |-> 0, edits |-> 0]
  /\ past = [req |-> None, acked |-> None, unreported |-> FALSE]

Begin(req) ==
  /\ At("idle")
  /\ spent.attempts < MaxAttempts
  /\ spent' = [spent EXCEPT !.attempts = @ + 1]
  /\ job' = [Idle EXCEPT !.at = "validate", !.req = req]
  /\ UNCHANGED <<inputs, files, past>>

SupportedVersion(v) == v \in Versions
ValidateConfig == Phase("validate") /\ Check(SupportedVersion(job.req.version))

(* The record names this executable, in the tools or outside of them.      *)
RecordMatches(r, version, sha256) ==
  /\ r.version = version
  /\ r.sha256 = sha256
  /\ (r.mode = "external") = (job.req.mode = "external")

(* Mutant: the source installer builds whatever is there.                  *)
BuildRegardless ==
  /\ Phase("inspect")
  /\ Advance
  /\ UNCHANGED files

(* The source installer answers before it builds: nothing there, a         *)
(* matching installation, or traces that refuse the run.                   *)
InspectExistingSource ==
  /\ Phase("inspect")
  /\ LET found == tools[job.req.version]
     IN IF found \in {None, Husk} /\ record = None
        THEN Advance
        ELSE IF found \in Binaries /\ record # None
             THEN IF /\ record.mode = "source"
                     /\ RecordMatches(record, job.req.version, found)
                  THEN Succeed ELSE Fail
             ELSE Fail
  /\ UNCHANGED files

(* The digest of the input this mode installs.                             *)
InputVerified ==
  CASE job.req.mode = "source"  -> archive = "pinned"
    [] job.req.mode = "bundled" -> artefact = job.req.expected

Preflight == Phase("preflight") /\ Check(InputVerified)
ValidateNetwork == Phase("network") /\ Check(TRUE)
ValidateDependencies == Phase("dependencies") /\ Check(TRUE)
ExtractSource == Phase("extract") /\ Check(archive = "pinned")

(* Configure, build and install commands run into a private prefix.        *)
BuildSource ==
  /\ Phase("build")
  /\ \E b \in Binaries :
        job' = [job EXCEPT !.at = Follower("build"), !.staged = b]
  /\ UNCHANGED files

(* The binary is copied, and the copy's digest is compared.                *)
StageBinary ==
  /\ Phase("stage")
  /\ IF job.req.mode = "source"
     THEN Advance
     ELSE IF artefact = job.req.expected
          THEN job' = [job EXCEPT !.at = Follower("stage"), !.staged = artefact]
          ELSE Fail
  /\ UNCHANGED files

Tested == IF job.req.mode = "external" THEN external ELSE job.staged

(* Create, list, modify, complete and delete in isolated storage.  What an *)
(* external executable reports here becomes the version of its record.     *)
SmokeTest ==
  /\ Phase("smoke")
  /\ IF Tested.works
     THEN /\ job' = [job EXCEPT !.at = Follower("smoke"), !.staged = Tested]
          /\ UNCHANGED evidence
     ELSE Fail /\ PreserveFailure
  /\ UNCHANGED <<tools, record, taskrc>>

(* Mutant: the built version is not compared with the pinned one.          *)
CompareNothing == Phase("compare") /\ Check(TRUE)

CompareVersion ==
  /\ Phase("compare")
  /\ IF job.staged.reports = job.req.version
     THEN Advance /\ UNCHANGED evidence
     ELSE Fail /\ PreserveFailure
  /\ UNCHANGED <<tools, record, taskrc>>

(* A taskrc of other content is never overwritten.                         *)
ProvisionLayout ==
  /\ Phase("layout")
  /\ IF taskrc \in {None, "managed"}
     THEN taskrc' = "managed" /\ Advance
     ELSE UNCHANGED taskrc /\ Fail
  /\ UNCHANGED <<tools, record, evidence>>

-----------------------------------------------------------------------------
(* External executables are registered where they are.                     *)

HashExternal ==
  /\ Phase("hash")
  /\ job' = [job EXCEPT !.at = Follower("hash"), !.seen = external]
  /\ UNCHANGED files

ExistingResult ==
  /\ Phase("existing")
  /\ IF record = None
     THEN Advance
     ELSE IF RecordMatches(record, job.req.version, job.seen)
          THEN Succeed ELSE Fail
  /\ UNCHANGED files

-----------------------------------------------------------------------------
(* Activation.                                                             *)

(* A version root that exists answers the run, whatever it holds.          *)
InspectExistingInstallation ==
  /\ Phase("examine")
  /\ LET found == tools[job.req.version]
     IN IF found = None
        THEN Go("move")
        ELSE IF /\ found = job.staged
                /\ record # None
                /\ RecordMatches(record, job.req.version, found)
             THEN Succeed ELSE Fail
  /\ UNCHANGED files

(* Staging becomes the version root by one rename; modes follow.           *)
ActivateStaged ==
  /\ Phase("move")
  /\ tools' = [tools EXCEPT ![job.req.version] = job.staged]
  /\ Go("normalise")
  /\ UNCHANGED <<record, taskrc, evidence>>

NormaliseInstallation ==
  /\ Phase("normalise")
  /\ Go("write")
  /\ UNCHANGED files

NewRecord ==
  IF job.req.mode = "external"
  THEN [version |-> job.staged.reports, mode |-> "external", sha256 |-> job.seen]
  ELSE [version |-> job.req.version, mode |-> job.req.mode,
        sha256 |-> job.staged]

(* The record is renamed over the one that is there.                       *)
WriteRecord ==
  /\ Phase("write") \/ Phase("register")
  /\ record' = NewRecord
  /\ Succeed
  /\ UNCHANGED <<tools, taskrc, evidence>>

AfterFailedWrite == IF job.req.mode = "external" THEN "end" ELSE "rollback"

(* Whatever fails after the rename leaves the new record behind.           *)
WriteFails ==
  /\ Fault("write") \/ Fault("register")
  /\ record' \in {record, NewRecord}
  /\ Faulted(AfterFailedWrite, "failed")
  /\ past' = [past EXCEPT !.unreported = @ \/ record' # record]
  /\ UNCHANGED <<tools, taskrc, evidence>>

(* A rename or a mode change that fails removes the version root.          *)
ActivationFails ==
  \E p \in {"move", "normalise"} :
     /\ Fault(p)
     /\ Faulted("rollback", "failed")
     /\ UNCHANGED <<files, past>>

RollbackActivation ==
  /\ Phase("rollback")
  /\ tools' = [tools EXCEPT ![job.req.version] = None]
  /\ Fail
  /\ UNCHANGED <<record, taskrc, evidence>>

RollbackFails ==
  /\ Fault("rollback")
  /\ tools[job.req.version] # None
  /\ tools' \in {tools, [tools EXCEPT ![job.req.version] = Husk]}
  /\ Faulted("end", "failed")
  /\ UNCHANGED <<record, taskrc, evidence, past>>

(* A tool that fails or runs out of time, or a file that cannot be read.   *)
PhaseFails ==
  \E p \in {"validate", "inspect", "preflight", "network", "dependencies",
            "extract", "stage", "compare", "hash", "existing", "layout",
            "examine"} :
     /\ Fault(p)
     /\ Faulted("end", "failed")
     /\ UNCHANGED <<files, past>>

(* Failure of the build or of the lifecycle test keeps the evidence.       *)
BuildFails ==
  \E p \in {"build", "smoke"} :
     /\ Fault(p)
     /\ Faulted("end", "failed")
     /\ PreserveFailure
     /\ UNCHANGED <<tools, record, taskrc, past>>

(* Mutant: the answer is given and staging is forgotten.                   *)
EndWithStaging ==
  /\ At("end")
  /\ past' = IF job.outcome = "ok"
             THEN [past EXCEPT !.acked = record, !.req = job.req]
             ELSE past
  /\ job' = [job EXCEPT !.at = "idle"]
  /\ UNCHANGED <<inputs, files, spent>>

End ==
  /\ At("end")
  /\ past' = IF job.outcome = "ok"
             THEN [past EXCEPT !.acked = record, !.req = job.req]
             ELSE past
  /\ job' = Idle
  /\ UNCHANGED <<inputs, files, spent>>

Crash ==
  /\ Fault(job.at)
  /\ job.at \notin {"idle", "end"}
  /\ tools' \in {tools} \cup
       IF At("rollback") /\ tools[job.req.version] # None
       THEN {[tools EXCEPT ![job.req.version] = Husk]} ELSE {}
  /\ job' = Idle
  /\ UNCHANGED <<record, taskrc, evidence, past>>

(* The administrator replaces an input or edits the task configuration.    *)
Edit ==
  /\ spent.edits < MaxEdits
  /\ spent' = [spent EXCEPT !.edits = @ + 1]
  /\ \/ archive' = "other" /\ UNCHANGED <<artefact, external, taskrc>>
     \/ \E b \in Binaries \ {artefact} :
           artefact' = b /\ UNCHANGED <<archive, external, taskrc>>
     \/ \E b \in Binaries \ {external} :
           external' = b /\ UNCHANGED <<archive, artefact, taskrc>>
     \/ taskrc # None /\ taskrc' = "edited" /\ UNCHANGED inputs
  /\ UNCHANGED <<tools, record, evidence, job, past>>

-----------------------------------------------------------------------------
Prepare == \/ ValidateConfig \/ InspectExistingSource \/ Preflight
           \/ ValidateNetwork \/ ValidateDependencies \/ ExtractSource
           \/ BuildSource \/ HashExternal \/ ExistingResult
Install == \/ StageBinary \/ SmokeTest \/ CompareVersion \/ ProvisionLayout
           \/ InspectExistingInstallation \/ ActivateStaged
           \/ NormaliseInstallation \/ WriteRecord \/ RollbackActivation \/ End
Failures == \/ PhaseFails \/ BuildFails \/ ActivationFails \/ WriteFails
            \/ RollbackFails \/ Crash

Next == \/ \E req \in Requests : Begin(req)
        \/ Prepare \/ Install \/ Failures \/ Edit
Spec == Init /\ [][Next]_vars

-----------------------------------------------------------------------------
(* The types.                                                              *)
TypeOK ==
  /\ archive \in {"pinned", "other"} /\ {artefact, external} \subseteq Binaries
  /\ tools \in [Versions -> Binaries \cup {None, Husk}]
  /\ record \in Records \cup {None}
  /\ taskrc \in {None, "managed", "edited"}
  /\ job.req \in Requests \cup {None}
  /\ At("idle") => job = Idle
  /\ {job.staged, job.seen} \subseteq Binaries \cup {None}

HasTree(r) == r.mode = "external" \/ tools[r.version] = r.sha256

(* A record never outlives the installation it describes: activation and   *)
(* record are one atomic step to whoever looks later.                      *)
RecordHasTree == record # None => HasTree(record)

(* What a record says of a managed binary was tested: it is in place, its  *)
(* lifecycle works, and a built one reports the pinned version.  Records   *)
(* whose writing failed halfway are the exception.                         *)
RecordVouches ==
  record # None /\ ~past.unreported =>
    /\ HasTree(record)
    /\ record.mode # "external" => record.sha256.works
    /\ record.mode = "source" => record.sha256.reports = record.version

(* Running a request again after its success, with nothing changed and     *)
(* nothing failing, succeeds; only an external executable that reports     *)
(* another version than the requested one is refused the second time.      *)
RerunsSucceed ==
  At("end") /\ job.outcome = "failed" /\ ~job.faulted
    /\ job.req = past.req /\ record = past.acked /\ spent.edits = 0
  => job.req.mode = "external" /\ record.version # job.req.version
=============================================================================
