------------------------- MODULE CalendarToolchain -------------------------
(***************************************************************************)
(* The managed calendar toolchain (khal and vdirsyncer) of                 *)
(* installers/calendar, as the release candidate drives it.                *)
(*                                                                         *)
(* One installer process runs at a time and works through a route of       *)
(* phases: the previous record is set aside for an upgrade, the request is *)
(* validated, an existing installation is inspected, a private environment *)
(* is built and tested, moved to its versioned root by a rename, and the   *)
(* installation record is written last.  Any phase may fail, any undo step *)
(* may fail, and the process may die between two steps; the administrator  *)
(* may replace the lock file or the external executables meanwhile and may *)
(* switch the synchroniser's configuration to CalDAV between runs.         *)
(*                                                                         *)
(* Paths, modes, owners and digests are abstracted: a digest is the value  *)
(* it is the digest of, and a built environment is known by its quality,   *)
(* which is what the installer's checks can tell apart.                    *)
(***************************************************************************)
EXTENDS Naturals

CONSTANTS Versions,      \* toolchain versions an operator may ask for
          Locks,         \* contents of the requirements lock file
          Zones,         \* display time zones khal is configured with
          Requests,      \* the installation requests of this instance
          None,          \* the file does not exist
          MaxAttempts,   \* bound: installer runs
          MaxFaults,     \* bound: failed system calls, failed tools, crashes
          MaxEdits       \* bound: replacements of an input by its owner

(* What the checks can tell of an environment: "wrong" reports other       *)
(* versions, "broken" fails the smoke test, "pinned" stops working once it *)
(* is moved, "shifted" finds another Python once it is moved, "partial" is *)
(* what an interrupted removal leaves.                                     *)
Qualities == {"good", "wrong", "broken", "pinned", "shifted"}
Trees == [lock : Locks, quality : Qualities \cup {"partial"}]

(* What the administrator's own executables are, and what the archive of   *)
(* bundled wheels holds: wheels at its top or below one wrapper directory, *)
(* nothing at all, or a member that would leave the destination.           *)
Externals == {"good", "wrong", "gone"}
Archives == {"flat", "wrapped", "empty", "escaping"}

Managed == {"verified", "bundled"}
Records == [version : Versions, mode : Managed \cup {"external"},
            evidence : Locks \cup Externals]

RequestType == [install : {"fresh", "repair", "upgrade"}, approve : BOOLEAN,
                mode : Managed \cup {"external"}, version : Versions,
                lock : Locks, archive : Archives, zone : Zones]

ASSUME RequestsAreTyped == Requests \subseteq RequestType
ASSUME NoneIsDistinct == /\ None \notin Locks \cup Zones
                         /\ None \notin Records
                         /\ None \notin Trees
                         /\ None \notin RequestType
                         /\ None \notin Externals
ASSUME BoundsAreNaturals == {MaxAttempts, MaxFaults, MaxEdits} \subseteq Nat

VARIABLES lockFile,   \* content of the requirements lock file
          external,   \* the administrator's own executables
          roots,      \* the versioned toolchain roots under tools_root
          record,     \* calendar-toolchain.json
          backup,     \* calendar-toolchain.json.pre-upgrade.backup
          config,     \* khal.conf, vdirsyncer.conf, its backup, the password
          job,        \* the running installer process
          spent,      \* attempts, faults and edits used so far
          past        \* history: what was last reported as installed, whether
                      \* evidence was refreshed, whether an undo step failed

vars == <<lockFile, external, roots, record, backup, config, job, spent, past>>
files == <<roots, record, backup, config>>
inputs == <<lockFile, external>>

Idle == [at |-> "idle", req |-> None, staged |-> None, seen |-> None,
         took |-> FALSE, moved |-> FALSE, already |-> FALSE,
         outcome |-> "none", before |-> None]

-----------------------------------------------------------------------------
(* Routes: what each coordinator does after a phase that went well, in the *)
(* order of its code.                                                      *)

VerifiedBuild ==
  [inspect |-> "preflight", preflight |-> "stage", stage |-> "environment",
   environment |-> "python", python |-> "versions", versions |-> "smoke",
   smoke |-> "layout"]
VerifiedCommit ==
  [layout |-> "configure", configure |-> "move", move |-> "settle",
   settle |-> "repython", repython |-> "write"]
BundledBuild ==
  [inspect |-> "preflight", preflight |-> "stage", stage |-> "wheelhouse",
   wheelhouse |-> "environment", environment |-> "python",
   python |-> "versions", versions |-> "smoke", smoke |-> "layout"]
BundledCommit ==
  [layout |-> "configure", configure |-> "move", move |-> "settle",
   settle |-> "repython", repython |-> "write"]
ExternalChecks ==
  [preflight |-> "hash", hash |-> "versions", versions |-> "rehash",
   rehash |-> "register"]
ExternalCommit ==
  [register |-> "smoke", smoke |-> "rehash2", rehash2 |-> "layout",
   layout |-> "configure", configure |-> "rehash3", rehash3 |-> "write"]

(* The dispatcher picks the coordinator of the requested mode.             *)
Route(mode) ==
  CASE mode = "verified" ->
         [first |-> "inspect", build |-> VerifiedBuild, commit |-> VerifiedCommit]
    [] mode = "bundled" ->
         [first |-> "inspect", build |-> BundledBuild, commit |-> BundledCommit]
    [] mode = "external" ->
         [first |-> "preflight", build |-> ExternalChecks,
          commit |-> ExternalCommit]

Follower(p) == LET route == Route(job.req.mode)
               IN IF p \in DOMAIN route.build
                  THEN route.build[p] ELSE route.commit[p]

At(p) == job.at = p

(* One phase of the running installer, and where it goes next.             *)
Phase(p) == /\ At(p)
            /\ UNCHANGED <<inputs, spent, past>>
Go(p) == job' = [job EXCEPT !.at = p]
Advance == Go(Follower(job.at))

(* Staging is removed, and what was activated or set aside is undone next. *)
Fail == job' = [job EXCEPT !.at = "undo", !.outcome = "failed", !.staged = None]
Succeed == job' = [job EXCEPT !.at = "end", !.outcome = "ok"]
Refuse == Fail /\ UNCHANGED files

(* A test that the phase makes: go on or give up, files untouched.         *)
Check(ok) == /\ IF ok THEN Advance ELSE Fail
             /\ UNCHANGED files

(* Something the phase needs fails.                                        *)
Fault(p) == /\ At(p)
            /\ spent.faults < MaxFaults
            /\ spent' = [spent EXCEPT !.faults = @ + 1]
            /\ UNCHANGED inputs

(* An undo step that fails may leave something behind.                     *)
Botch(left) == past' = [past EXCEPT !.botched = @ \/ left]

-----------------------------------------------------------------------------
Init ==
  /\ lockFile \in Locks
  /\ external = "good"
  /\ roots = [v \in Versions |-> None]
  /\ record = None
  /\ backup = None
  /\ config = [dirs |-> FALSE, khal |-> None, vdir |-> "none",
               saved |-> FALSE, password |-> FALSE]
  /\ job = Idle
  /\ spent = [attempts |-> 0, faults |-> 0, edits |-> 0]
  /\ past = [acked |-> None, refreshed |-> FALSE, botched |-> FALSE]

(* An installer run starts.  Only an upgrade looks at the old record.      *)
Begin(req) ==
  /\ At("idle")
  /\ spent.attempts < MaxAttempts
  /\ spent' = [spent EXCEPT !.attempts = @ + 1]
  /\ job' = [Idle EXCEPT !.at = IF req.install = "upgrade"
                                THEN "prepare" ELSE "validate",
                         !.req = req,
                         !.before = [roots |-> roots, record |-> record]]
  /\ UNCHANGED <<inputs, files, past>>

(* An approved upgrade to another version links the old record to its      *)
(* backup name, unless a backup is there already, and then unlinks it.     *)
PrepareUpgradeRecord ==
  /\ Phase("prepare")
  /\ IF record = None \/ record.version = job.req.version
     THEN Go("validate") /\ UNCHANGED files
     ELSE IF job.req.approve /\ backup = None
          THEN /\ backup' = record
               /\ Go("retire")
               /\ UNCHANGED <<roots, record, config>>
          ELSE Refuse

RetireRecord ==
  /\ Phase("retire")
  /\ record' = None
  /\ job' = [job EXCEPT !.at = "validate", !.took = TRUE]
  /\ UNCHANGED <<roots, backup, config>>

(* The unlink fails, or what follows it fails and the record is linked     *)
(* back, which may fail as well.  The backup stays in every case.          *)
RetireFails ==
  /\ Fault("retire")
  /\ record' \in {record, None}
  /\ Fail
  /\ Botch(record' # record)
  /\ UNCHANGED <<roots, backup, config>>

(* A file is what the request expects if it has the digest it names.       *)
HasDigest(content, expected) == content = expected

UsableExecutable(e) == e # "gone"

(* The request's lock file and executables, before anything is touched.    *)
ValidRequest(req) ==
  /\ req.mode \in Managed => HasDigest(lockFile, req.lock)
  /\ req.mode = "external" => UsableExecutable(external)

ValidateConfig ==
  /\ Phase("validate")
  /\ IF ValidRequest(job.req) THEN Go(Route(job.req.mode).first) ELSE Fail
  /\ UNCHANGED files

-----------------------------------------------------------------------------
(* What the probes of an environment report, in staging or in its root.    *)

ReportsVersions(quality, place) ==
  /\ quality \in Qualities \ {"wrong"}
  /\ ~(quality = "pinned" /\ place = "root")
PassesSmoke(quality) == quality # "broken"
SamePython(quality) == quality # "shifted"
IntactTree(tree) == tree.quality # "partial"

RecordMatches(r, req) ==
  r = [version |-> req.version, mode |-> req.mode, evidence |-> req.lock]
IdentityMatches(r, req) == r.version = req.version /\ r.mode = req.mode
RegistrationMatches(r, req, hash) ==
  r = [version |-> req.version, mode |-> "external", evidence |-> hash]

(* An installed toolchain that is whole and answers with its versions.     *)
InspectActivated(root) ==
  IntactTree(root) /\ ReportsVersions(root.quality, "root")

(* A managed installation that left exactly one of its two traces is       *)
(* refused; one that left both must be intact.                             *)
InspectTraces ==
  /\ Phase("inspect")
  /\ LET root == roots[job.req.version]
     IN IF root = None /\ record = None
        THEN Advance
        ELSE IF root # None /\ record # None
             THEN IF InspectActivated(root) THEN Go("match") ELSE Fail
             ELSE Fail
  /\ UNCHANGED files

Settled == job' = [job EXCEPT !.at = "layout", !.already = TRUE]

(* Only an approved repair of the same installation replaces its evidence. *)
MayRefresh(req) == req.install = "repair" /\ req.approve

MatchRecord ==
  /\ Phase("match")
  /\ IF RecordMatches(record, job.req)
     THEN Settled
     ELSE IF MayRefresh(job.req) /\ IdentityMatches(record, job.req)
          THEN Go("refresh")
          ELSE Fail
  /\ UNCHANGED files

(* The supply-chain evidence is replaced by a rename, with the old record  *)
(* linked beside it until the new one is in place.                         *)
Refreshed == [record EXCEPT !.evidence = job.req.lock]

RefreshRecord ==
  /\ At("refresh")
  /\ record' = Refreshed
  /\ past' = [past EXCEPT !.refreshed = TRUE]
  /\ Settled
  /\ UNCHANGED <<inputs, spent, roots, backup, config>>

(* A failure after the rename puts the old record back if it can, and does *)
(* not once its copy is gone.                                              *)
RefreshFails ==
  /\ Fault("refresh")
  /\ record' \in {record, Refreshed}
  /\ Fail
  /\ past' = [past EXCEPT !.refreshed = @ \/ record' # record]
  /\ UNCHANGED <<roots, backup, config>>

(* An external registration that exists must name these two executables.   *)
InspectRegistration ==
  /\ Phase("register")
  /\ IF record = None
     THEN Advance
     ELSE IF RegistrationMatches(record, job.req, job.seen)
          THEN Settled ELSE Fail
  /\ UNCHANGED files

-----------------------------------------------------------------------------
(* The build, in private staging that no other run looks at.               *)

(* The inputs are looked at again, after the inspection.                   *)
Preflight == Phase("preflight") /\ Check(ValidRequest(job.req))

(* The lock file is copied, and the copy is what its digest is taken of.   *)
CreateStaging ==
  /\ Phase("stage")
  /\ IF HasDigest(lockFile, job.req.lock)
     THEN job' = [job EXCEPT !.at = Follower("stage"),
                             !.staged = [lock |-> lockFile, quality |-> "good"]]
     ELSE Fail
  /\ UNCHANGED files

(* No member may leave the destination, and there must be a wheel.         *)
SafeArchive(archive) == archive # "escaping"
HoldsWheels(archive) == archive \in {"flat", "wrapped"}

ExtractWheelhouse ==
  /\ Phase("wheelhouse")
  /\ Check(SafeArchive(job.req.archive) /\ HoldsWheels(job.req.archive))

(* What the package installer produces is known only to the checks.        *)
ExecuteEnvironmentPlan ==
  /\ Phase("environment")
  /\ \E q \in Qualities :
        job' = [job EXCEPT !.at = Follower("environment"), !.staged.quality = q]
  /\ UNCHANGED files

InspectStagedPython == Phase("python") /\ Check(TRUE)

(* What this route runs: the staged environment or the executables.        *)
Probed == IF job.req.mode = "external" THEN external ELSE job.staged.quality

ValidateVersions ==
  Phase("versions") /\ Check(ReportsVersions(Probed, "staging"))

SmokeTest == Phase("smoke") /\ Check(PassesSmoke(Probed))

HashExternal ==
  /\ Phase("hash")
  /\ IF UsableExecutable(external)
     THEN job' = [job EXCEPT !.at = Follower("hash"), !.seen = external]
     ELSE Fail
  /\ UNCHANGED files

RecheckHashes ==
  \E p \in {"rehash", "rehash2", "rehash3"} :
     Phase(p) /\ Check(HasDigest(external, job.seen))

-----------------------------------------------------------------------------
(* Runtime directories and the two configuration files.                    *)

ProvisionLayout ==
  /\ Phase("layout")
  /\ config' = [config EXCEPT !.dirs = TRUE]
  /\ Go(IF job.already THEN "configure" ELSE Follower("layout"))
  /\ UNCHANGED <<roots, record, backup>>

(* A present file is kept if it is what would be written; vdirsyncer's may *)
(* also be the exact CalDAV document.                                      *)
AcceptsKhal == config.khal \in {None, job.req.zone}
AcceptsVdir == config.vdir \in {"none", "local", "caldav"}
WithConfig == [config EXCEPT !.khal = job.req.zone,
                             !.vdir = IF @ = "none" THEN "local" ELSE @]

PersistConfiguration ==
  /\ Phase("configure")
  /\ IF AcceptsKhal /\ AcceptsVdir
     THEN /\ config' = WithConfig
          /\ IF job.already THEN Succeed ELSE Advance
          /\ UNCHANGED <<roots, record, backup>>
     ELSE Refuse

(* khal.conf is in place when writing vdirsyncer.conf fails.               *)
PersistFails ==
  /\ Fault("configure")
  /\ AcceptsKhal /\ AcceptsVdir
  /\ config' \in {config, [config EXCEPT !.khal = job.req.zone]}
  /\ Fail
  /\ UNCHANGED <<roots, record, backup, past>>

-----------------------------------------------------------------------------
(* Activation: the staged tree becomes the versioned root by one rename.   *)

ActivateToolchain ==
  /\ Phase("move")
  /\ IF roots[job.req.version] = None
     THEN /\ roots' = [roots EXCEPT ![job.req.version] = job.staged]
          /\ job' = [job EXCEPT !.at = "settle", !.moved = TRUE]
          /\ UNCHANGED <<record, backup, config>>
     ELSE Refuse

(* The moved tools are asked for their versions again, and modes and       *)
(* owners are set.                                                         *)
NormaliseToolchain ==
  Phase("settle") /\ Check(ReportsVersions(Probed, "root"))

(* Mutant: the Python of the moved environment is not compared.            *)
InspectFinalPythonUnread == Phase("repython") /\ Check(TRUE)

InspectFinalPython == Phase("repython") /\ Check(SamePython(Probed))

NewRecord == [version |-> job.req.version, mode |-> job.req.mode,
              evidence |-> IF job.req.mode = "external"
                           THEN job.seen ELSE job.staged.lock]

(* The record is linked into place, never over one that appeared.          *)
WriteRecord ==
  /\ Phase("write")
  /\ IF record = None
     THEN /\ record' = NewRecord
          /\ Succeed
          /\ UNCHANGED <<roots, backup, config>>
     ELSE Refuse

(* A failure after the link removes the new record, if it can.             *)
WriteFails ==
  /\ Fault("write")
  /\ record = None
  /\ record' \in {None, NewRecord}
  /\ Fail
  /\ Botch(record' # None)
  /\ UNCHANGED <<roots, backup, config>>

(* Every other phase may fail with nothing done: a tool exits non-zero or  *)
(* runs out of time, a directory cannot be made, a file cannot be read.    *)
PhaseFails ==
  \E p \in {"prepare", "validate", "inspect", "match", "register", "preflight",
            "stage", "wheelhouse", "environment", "python", "versions",
            "smoke", "hash", "rehash", "rehash2", "rehash3", "layout", "move",
            "settle", "repython"} :
     /\ Fault(p)
     /\ Refuse
     /\ UNCHANGED past

-----------------------------------------------------------------------------
(* Undo: the new root goes first, then the old record comes back.          *)

(* Mutant: a failed run removes the root although it did not put it there. *)
RollbackUnconditionally ==
  /\ Phase("undo")
  /\ roots' = [roots EXCEPT ![job.req.version] = None]
  /\ Go(IF job.took THEN "restore" ELSE "end")
  /\ UNCHANGED <<record, backup, config>>

RollbackActivation ==
  /\ Phase("undo")
  /\ roots' = IF job.moved THEN [roots EXCEPT ![job.req.version] = None]
                           ELSE roots
  /\ Go(IF job.took THEN "restore" ELSE "end")
  /\ UNCHANGED <<record, backup, config>>

Torn == [roots EXCEPT ![job.req.version].quality = "partial"]

RollbackFails ==
  /\ Fault("undo")
  /\ job.moved
  /\ roots' = Torn
  /\ Go(IF job.took THEN "restore" ELSE "end")
  /\ Botch(TRUE)
  /\ UNCHANGED <<record, backup, config>>

(* Mutant: the old record is left in its backup.                           *)
RestoreNothing ==
  /\ Phase("restore")
  /\ Go("end")
  /\ UNCHANGED files

(* Whatever is at the record's name is replaced by the backup, which stays. *)
RestoreUpgradeRecord ==
  /\ Phase("restore")
  /\ record' = backup
  /\ Go("end")
  /\ UNCHANGED <<roots, backup, config>>

RestoreFails ==
  /\ Fault("restore")
  /\ record' \in {record, None}
  /\ Go("end")
  /\ Botch(TRUE)
  /\ UNCHANGED <<roots, backup, config>>

End ==
  /\ At("end")
  /\ past' = [past EXCEPT !.acked = IF job.outcome = "ok" THEN record ELSE @]
  /\ job' = Idle
  /\ UNCHANGED <<inputs, files, spent>>

(* The process dies, or an exception passes the coordinator: nothing is    *)
(* undone, and a removal that was under way has removed a part.            *)
Crash ==
  /\ Fault(job.at)
  /\ job.at \notin {"idle", "end"}
  /\ roots' \in {roots} \cup IF At("undo") /\ job.moved THEN {Torn} ELSE {}
  /\ job' = Idle
  /\ UNCHANGED <<record, backup, config, past>>

-----------------------------------------------------------------------------
(* The CalDAV switch-over and the administrator.                           *)

ProvisionPassword ==
  /\ At("idle")
  /\ ~config.password
  /\ config' = [config EXCEPT !.password = TRUE]
  /\ UNCHANGED <<inputs, roots, record, backup, job, spent, past>>

(* Mutant: the password is not asked for.                                  *)
PrerequisiteNoPassword == config.vdir = "local" /\ ~config.saved

(* Only the local-only baseline is replaced, once and with a password.     *)
ActivationPrerequisite ==
  config.password /\ config.vdir = "local" /\ ~config.saved

(* Its backup is linked before the new document is renamed over it; a run  *)
(* that dies in between leaves a backup that refuses every later switch.   *)
LinkBaseline ==
  /\ At("idle")
  /\ ActivationPrerequisite
  /\ config' = [config EXCEPT !.saved = TRUE]
  /\ job' = [Idle EXCEPT !.at = "caldav"]
  /\ UNCHANGED <<inputs, roots, record, backup, spent, past>>

ActivateCaldav ==
  /\ Phase("caldav")
  /\ config' = [config EXCEPT !.vdir = "caldav"]
  /\ job' = Idle
  /\ UNCHANGED <<roots, record, backup>>

(* The old record's backup is archived before a later upgrade.             *)
ArchiveBackup ==
  /\ Phase("idle")
  /\ backup # None /\ record # None
  /\ backup' = None
  /\ UNCHANGED <<roots, record, config, job>>

EditInput ==
  /\ spent.edits < MaxEdits
  /\ \/ \E l \in Locks \ {lockFile} : lockFile' = l /\ UNCHANGED external
     \/ \E e \in {"wrong", "gone"} : external' = e /\ UNCHANGED lockFile
  /\ spent' = [spent EXCEPT !.edits = @ + 1]
  /\ UNCHANGED <<files, job, past>>

-----------------------------------------------------------------------------
Inspect == InspectTraces \/ MatchRecord \/ RefreshRecord \/ InspectRegistration
Build == \/ Preflight \/ CreateStaging \/ ExtractWheelhouse
         \/ ExecuteEnvironmentPlan \/ InspectStagedPython \/ ValidateVersions
         \/ SmokeTest \/ HashExternal \/ RecheckHashes
Commit == \/ ProvisionLayout \/ PersistConfiguration \/ ActivateToolchain
          \/ NormaliseToolchain \/ InspectFinalPython \/ WriteRecord
Undo == RollbackActivation \/ RestoreUpgradeRecord

Work == \/ PrepareUpgradeRecord \/ RetireRecord \/ ValidateConfig
        \/ Inspect \/ Build \/ Commit \/ Undo \/ End \/ ActivateCaldav
Faults == \/ RetireFails \/ RefreshFails \/ PersistFails \/ WriteFails
          \/ PhaseFails \/ RollbackFails \/ RestoreFails \/ Crash
Operator == \/ \E req \in Requests : Begin(req)
            \/ ProvisionPassword \/ LinkBaseline \/ ArchiveBackup \/ EditInput

Next == Work \/ Faults \/ Operator
Spec == Init /\ [][Next]_vars

-----------------------------------------------------------------------------
(* The types, with the configuration only ever one the code writes.        *)
TypeOK ==
  /\ lockFile \in Locks /\ external \in Externals
  /\ roots \in [Versions -> Trees \cup {None}]
  /\ {record, backup} \subseteq Records \cup {None}
  /\ config \in [dirs : BOOLEAN, khal : Zones \cup {None},
                 vdir : {"none", "local", "caldav"},
                 saved : BOOLEAN, password : BOOLEAN]
  /\ job.at = "idle" => job = Idle
  /\ job.req \in Requests \cup {None}
  /\ job.staged \in Trees \cup {None}
  /\ config.vdir = "caldav" => config.saved /\ config.password

(* An installation record stands for tools that work: the root of its      *)
(* version is in place, passed every check after it was moved, and was     *)
(* built from the lock the record names, unless an operator had the        *)
(* evidence refreshed; a registration names executables that were checked. *)
RecordVouches ==
  record # None /\ ~past.botched =>
    IF record.mode = "external" THEN record.evidence = "good"
    ELSE /\ roots[record.version] # None
         /\ roots[record.version].quality = "good"
         /\ roots[record.version].lock = record.evidence \/ past.refreshed

(* The record is the one this run found, but for the evidence, which is    *)
(* that of its request, an approved repair of that very installation.      *)
EvidenceReplaced ==
  /\ MayRefresh(job.req)
  /\ job.before.record # None
  /\ IdentityMatches(job.before.record, job.req)
  /\ record = [job.before.record EXCEPT !.evidence = job.req.lock]

(* A run that answers failure, all its undo steps done, has left the roots *)
(* as it found them, and the record too but for one thing that no undo     *)
(* takes back: an approved repair replaces the record's evidence first and *)
(* may then fail, with nothing broken, at the layout or a configuration it *)
(* refuses to overwrite.                                                   *)
FailureKeepsInstallation ==
  At("end") /\ job.outcome = "failed" /\ ~past.botched =>
    /\ roots = job.before.roots
    /\ record = job.before.record \/ EvidenceReplaced

(* What an operator was told is installed stays installed: its record or   *)
(* the backup of its record is there, whatever later runs do or fail at.   *)
AcknowledgedSurvives ==
  past.acked # None =>
    /\ \/ past.botched \/ past.refreshed
       \/ past.acked \in {record, backup}
    /\ past.acked.mode \in Managed =>
         roots[past.acked.version] # None /\ IntactTree(roots[past.acked.version])
=============================================================================
