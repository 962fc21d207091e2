-------------------------- MODULE ReleaseCandidate --------------------------
(***************************************************************************)
(* The guided installer and the uninstaller of a release candidate:        *)
(* release_candidate_cli.py, release_candidate_uninstall_cli.py and        *)
(* installers/release_candidate, on one host with one systemd.             *)
(*                                                                         *)
(* An installation is a sequence of boundaries.  Three of them are         *)
(* transactions of their own, which undo what they changed when they fail: *)
(* the base configuration, the Telegram files and the systemd service.     *)
(* Nothing undoes a boundary that has completed.  The uninstaller goes on  *)
(* past a directory it cannot remove, but not past a service it cannot     *)
(* stop.  Any step may fail, with or without its effect; either program    *)
(* may be interrupted anywhere; the worker may die and be restarted by     *)
(* systemd.                                                                *)
(*                                                                         *)
(* The toolchains have modules of their own.  Here a toolchain is its      *)
(* tree, its record and its configuration, whose versions and contents are *)
(* not told apart: an installer that finds anything of them may refuse it. *)
(* The owner of a token and the one authorised user of the Telegram files  *)
(* are the identity the operator confirmed.                                *)
(***************************************************************************)
EXTENDS Naturals, Sequences

CONSTANTS Releases,      \* releases whose code /opt/lea may hold
          Identities,    \* Telegram identities and their tokens
          Requests,      \* the installation requests of this instance
          None,          \* the file does not exist
          MaxRuns,       \* bound: installer and uninstaller runs
          MaxFaults,     \* bound: steps that fail
          MaxCrashes,    \* bound: interrupted runs
          MaxDeaths      \* bound: deaths of the worker

RequestType == [mode : {"fresh", "repair", "upgrade"}, release : Releases,
                telegram : BOOLEAN, calendar : BOOLEAN,
                approved : BOOLEAN,     \* replacement was approved
                answered : BOOLEAN,     \* token and identity were supplied
                interactive : BOOLEAN]

MarkerType == [release : Releases, mode : {"fresh", "repair", "upgrade"}]

ASSUME RequestsAreTyped == Requests \subseteq RequestType
ASSUME NoneIsDistinct ==
  None \notin Releases \cup Identities \cup RequestType \cup MarkerType
            \cup {"plain", "telegram"}
ASSUME BoundsAreNaturals ==
  {MaxRuns, MaxFaults, MaxCrashes, MaxDeaths} \subseteq Nat

(* The managed directories.  The audit log is created within the state     *)
(* directory, and counts as one of them.                                   *)
Roots == <<"configuration", "state", "logs">>
RootNames == {"configuration", "state", "logs", "audit"}
Tools == {"taskwarrior", "calendar"}

(* The files of the Telegram transaction, in the order they are written.   *)
(* The first is the runtime configuration, which every run writes.  Two    *)
(* more, telegram.toml and worker.env, are written, validated and restored *)
(* with these; they hold the name of the bot and paths, and are left out.  *)
TelegramFiles == <<"runtime", "users", "token">>
ManagedFiles == {"runtime", "users", "token"}

VARIABLES host,      \* account, tmpfiles rule, roots, and of the tools the
                     \* trees, records and configurations
          files,     \* the configuration files
          marker,    \* the record of the release-candidate installation
          service,   \* the unit, and what systemd makes of it
          run,       \* the running installer or uninstaller
          spent,     \* runs, faults, crashes and deaths used so far
          past       \* history: whether the worker could run, and its files
                     \* agreed, when this run began

vars == <<host, files, marker, service, run, spent, past>>

Idle == [at |-> "idle", req |-> None, identity |-> None, written |-> 0,
         before |-> None, did |-> {}, outcome |-> "none", faulted |-> FALSE,
         botched |-> FALSE, refused |-> "none"]

-----------------------------------------------------------------------------
(* The plans: what follows each phase of an installation, of its Telegram  *)
(* part, and of a purge.                                                   *)
TelegramPlan ==
  [inputs |-> "persist", persist |-> "validate", validate |-> "query",
   query |-> "unit", unit |-> "enable", enable |-> "start", start |-> "verify",
   verify |-> "health"]
InstallPlan(req) ==
  LET connect == IF req.telegram THEN "inputs" ELSE "health"
  IN [preflight |-> "approval", approval |-> "group", group |-> "user",
      user |-> "rule", rule |-> "roots", roots |-> "audit", audit |-> "conf",
      conf |-> "marker", marker |-> "taskwarrior",
      taskwarrior |-> IF req.calendar THEN "calendar" ELSE connect,
      calendar |-> connect, health |-> "acceptance", acceptance |-> "end"]
UninstallPlan ==
  [stop |-> "disable", disable |-> "unlink", unlink |-> "volatile",
   volatile |-> "drop_taskwarrior", drop_taskwarrior |-> "drop_calendar",
   drop_calendar |-> "drop_configuration", drop_configuration |-> "drop_state",
   drop_state |-> "drop_logs", drop_logs |-> "userdel", userdel |-> "groupdel",
   groupdel |-> "end"]

At(p) == run.at = p
Phase(p) == At(p) /\ UNCHANGED <<spent, past>>
Follower(p) == IF run.req = None THEN UninstallPlan[p]
               ELSE IF p \in DOMAIN TelegramPlan THEN TelegramPlan[p]
               ELSE InstallPlan(run.req)[p]
Advance == run' = [run EXCEPT !.at = Follower(@)]
Finish(outcome) ==
  run' = [run EXCEPT !.at = "idle", !.outcome = outcome, !.before = None,
                     !.did = {}, !.written = 0]
Fail == Finish("failed")
(* A transaction is complete, and forgets what it would have restored, but *)
(* not that it started the worker.                                         *)
Commit == run' = [run EXCEPT !.at = Follower(@), !.before = None,
                             !.written = 0, !.did = @ \cap {"start"}]
Undo(step) == run' = [run EXCEPT !.at = step]
Keep == UNCHANGED <<host, files, marker, service>>
Check(ok) == (IF ok THEN Advance ELSE Fail) /\ Keep

(* A step that fails: the program sees an error, and reports it.           *)
Fault(p) == /\ At(p)
            /\ spent.faults < MaxFaults
            /\ spent' = [spent EXCEPT !.faults = @ + 1]
            /\ UNCHANGED past
Struck == [run EXCEPT !.faulted = TRUE]
FaultedAt(p) == run' = [Struck EXCEPT !.at = p]
FaultEnds == run' = [Struck EXCEPT !.at = "idle", !.outcome = "failed",
                                   !.before = None, !.did = {}, !.written = 0]

(* A worker starts with these files, and keeps what it read.               *)
ConfigurationLoads == files["runtime"] # None
DirectoriesUsable == {"configuration", "state", "logs"} \subseteq host.roots
SettingsLoad == files["runtime"] = "telegram"
UsersLoad == files["users"] # None
TokenLoads == files["token"] # None
Startable == /\ ConfigurationLoads /\ DirectoriesUsable
             /\ SettingsLoad /\ UsersLoad /\ TokenLoads
Loaded == [users |-> files["users"], token |-> files["token"]]
Agree == files["users"] = files["token"]

-----------------------------------------------------------------------------
NothingInstalled ==
  /\ host = [group |-> FALSE, user |-> FALSE, rule |-> "absent", roots |-> {},
             trees |-> {}, broken |-> {}, records |-> {}, confs |-> {}]
  /\ files = [f \in ManagedFiles |-> None]
  /\ marker = None
  /\ service = [unit |-> None, enabled |-> FALSE, state |-> "off",
                loaded |-> None]

(* What an earlier release left, its tmpfiles rule included.               *)
EarlierRelease(r, id) ==
  /\ host = [group |-> TRUE, user |-> TRUE, rule |-> "legacy",
             roots |-> RootNames,
             trees |-> {"taskwarrior"}, broken |-> {},
             records |-> {"taskwarrior"}, confs |-> {"taskwarrior"}]
  /\ files = [f \in ManagedFiles |-> IF f = "runtime" THEN "telegram" ELSE id]
  /\ marker = [release |-> r, mode |-> "fresh"]
  /\ service = [unit |-> r, enabled |-> TRUE, state |-> "on",
                loaded |-> [users |-> id, token |-> id]]

Init ==
  /\ \/ NothingInstalled
     \/ \E r \in Releases, id \in Identities : EarlierRelease(r, id)
  /\ run = Idle
  /\ spent = [runs |-> 0, faults |-> 0, crashes |-> 0, deaths |-> 0]
  /\ past = [ran |-> FALSE, agreed |-> FALSE]

NewRun ==
  /\ At("idle")
  /\ spent.runs < MaxRuns
  /\ spent' = [spent EXCEPT !.runs = @ + 1]
  /\ past' = [ran |-> service.state = "on" /\ Startable, agreed |-> Agree]
  /\ Keep

(* The guided command asks for everything it needs before it changes       *)
(* anything, the Telegram identity last.  Another caller may approve or    *)
(* answer less: the orchestration then waits, or fails.                    *)
Begin(req) ==
  /\ NewRun
  /\ run' = [Idle EXCEPT !.req = req,
                         !.at = IF req.telegram /\ req.answered
                                THEN "onboard" ELSE "preflight"]

(* Whoever sends /start first is shown to the operator.                    *)
Senders == Identities
Onboard ==
  /\ Phase("onboard")
  /\ \E id \in Senders : run' = [run EXCEPT !.identity = id, !.at = "preflight"]
  /\ Keep

(* The token is rejected, nobody sends /start, or the operator declines.   *)
DeclineIdentity == Phase("onboard") /\ Finish("cancelled") /\ Keep

ExistingInstallation ==
  host.group \/ host.user \/ host.roots # {} \/ service.unit # None
Preflight ==
  Phase("preflight") /\ Check(run.req.mode = "fresh" => ~ExistingInstallation)

Wait == Finish(IF run.req.interactive THEN "waiting" ELSE "failed") /\ Keep
RequireApproval ==
  /\ Phase("approval")
  /\ IF run.req.mode # "fresh" /\ ~run.req.approved
     THEN Wait ELSE Advance /\ Keep

-----------------------------------------------------------------------------
(* The account and the managed directories.                                *)
CreateGroup == /\ Phase("group") /\ Advance
               /\ host' = [host EXCEPT !.group = TRUE]
               /\ UNCHANGED <<files, marker, service>>
CreateUser == /\ Phase("user") /\ Advance
              /\ host' = [host EXCEPT !.user = TRUE]
              /\ UNCHANGED <<files, marker, service>>

(* Mutant: the rule of the earlier release is not recognised.              *)
EnsureCurrentRule ==
  /\ Phase("rule")
  /\ IF host.rule \in {"absent", "current"}
     THEN Advance /\ host' = [host EXCEPT !.rule = "current"]
     ELSE Fail /\ UNCHANGED host
  /\ UNCHANGED <<files, marker, service>>

(* The tmpfiles rule is created, or migrated from its earlier text; any    *)
(* other text is somebody else's.                                          *)
EnsureRule ==
  /\ Phase("rule")
  /\ IF host.rule \in {"absent", "legacy", "current"}
     THEN Advance /\ host' = [host EXCEPT !.rule = "current"]
     ELSE Fail /\ UNCHANGED host
  /\ UNCHANGED <<files, marker, service>>

(* Creating it is not atomic, migrating it is.                             *)
TearRule ==
  /\ At("rule") /\ host.rule = "absent"
  /\ spent.crashes < MaxCrashes
  /\ spent' = [spent EXCEPT !.crashes = @ + 1]
  /\ run' = [Idle EXCEPT !.outcome = "interrupted"]
  /\ host' = [host EXCEPT !.rule = "torn"]
  /\ UNCHANGED <<files, marker, service, past>>

Missing == {i \in 1..Len(Roots) : Roots[i] \notin host.roots}
EnsureDirectories ==
  /\ Phase("roots")
  /\ IF Missing = {}
     THEN Advance /\ UNCHANGED host
     ELSE /\ \E i \in Missing :
               /\ \A j \in Missing : i <= j
               /\ host' = [host EXCEPT !.roots = @ \cup {Roots[i]}]
          /\ UNCHANGED run
  /\ UNCHANGED <<files, marker, service>>

EnsureAuditFile ==
  /\ Phase("audit") /\ Advance
  /\ host' = [host EXCEPT !.roots = @ \cup {"audit"}]
  /\ UNCHANGED <<files, marker, service>>

(* A step that fails before its effect, and undoes nothing.                *)
StepFails ==
  /\ \E p \in {"preflight", "group", "user", "rule", "roots", "audit",
               "inputs", "query", "health", "acceptance"} : Fault(p)
  /\ FaultEnds /\ Keep

-----------------------------------------------------------------------------
(* The base configuration: the runtime configuration, then the record of   *)
(* the installation.                                                       *)
Snapshot == [files |-> files, marker |-> marker, service |-> service]
RuntimeText == IF run.req.telegram THEN "telegram" ELSE "plain"

WriteConfiguration ==
  /\ Phase("conf")
  /\ files' = [files EXCEPT !["runtime"] = RuntimeText]
  /\ run' = [run EXCEPT !.at = Follower(@), !.before = Snapshot]
  /\ UNCHANGED <<host, marker, service>>

(* Mutant: the record leaves the release out.                              *)
WriteMarkerUnversioned ==
  /\ Phase("marker") /\ Commit
  /\ marker' = [mode |-> run.req.mode]
  /\ UNCHANGED <<host, files, service>>

NewMarker == [release |-> run.req.release, mode |-> run.req.mode]
WriteMarker ==
  /\ Phase("marker") /\ Commit
  /\ marker' = NewMarker
  /\ UNCHANGED <<host, files, service>>

BaseConfigurationFails ==
  \/ /\ Fault("conf")
     /\ files' \in {files, [files EXCEPT !["runtime"] = RuntimeText]}
     /\ run' = [Struck EXCEPT !.at = "undo_base", !.before = Snapshot]
     /\ UNCHANGED <<host, marker, service>>
  \/ /\ Fault("marker")
     /\ marker' \in {marker, NewMarker}
     /\ FaultedAt("undo_base")
     /\ UNCHANGED <<host, files, service>>

UndoBase ==
  /\ Phase("undo_base") /\ Fail
  /\ marker' = run.before.marker
  /\ files' = [files EXCEPT !["runtime"] = run.before.files["runtime"]]
  /\ UNCHANGED <<host, service>>

(* The record is restored first.                                           *)
UndoBaseFails ==
  /\ Fault("undo_base")
  /\ run' = [Idle EXCEPT !.req = run.req, !.identity = run.identity,
                         !.outcome = "failed", !.faulted = TRUE, !.botched = TRUE]
  /\ marker' \in {marker, run.before.marker}
  /\ UNCHANGED <<host, files, service>>

-----------------------------------------------------------------------------
(* The toolchain boundaries.  Of a tool that left nothing, or what it can  *)
(* use, the installer makes an installation with its record; a version     *)
(* that is not there is built beside the others.                           *)
Found(t) == t \in host.trees \cup host.broken \cup host.records \cup host.confs
InstallTool(t) ==
  /\ Phase(t) /\ Advance
  /\ host' = [host EXCEPT !.trees = @ \cup {t}, !.broken = @ \ {t},
                          !.records = @ \cup {t}, !.confs = @ \cup {t}]
  /\ UNCHANGED <<files, marker, service>>

(* Half an installation, a record of another version or with other         *)
(* evidence, a khal.conf of another zone, and the set-aside record that an *)
(* upgrade of the calendar leaves when it fails are refused.               *)
RefuseTool(t) ==
  /\ Phase(t) /\ Found(t)
  /\ run' = [run EXCEPT !.at = "idle", !.outcome = "failed", !.refused = t]
  /\ Keep

(* An upgrade of the calendar sets its record aside before it installs.    *)
SetAside(t) ==
  IF t = "calendar" /\ run.req.mode = "upgrade" THEN {t} ELSE {}

(* A boundary that is cut short may leave its configuration, a tree it did *)
(* not come to record, or could not take back, and a record set aside.     *)
CutShort(t) ==
  \E tree, conf \in SUBSET {t}, lost \in SUBSET SetAside(t) :
     host' = [host EXCEPT !.trees = @ \cup tree, !.confs = @ \cup conf,
                          !.records = @ \ lost]

(* Its record may also stay behind alone.                                  *)
ToolFails(t) ==
  /\ Fault(t)
  /\ \/ CutShort(t)
     \/ /\ t \notin host.trees
        /\ host' = [host EXCEPT !.records = @ \cup {t}, !.confs = @ \cup {t}]
  /\ FaultEnds
  /\ UNCHANGED <<files, marker, service>>

-----------------------------------------------------------------------------
(* The Telegram files.  Inputs that are missing are asked for only here,   *)
(* after the boundaries above have completed.                              *)
ResolveTelegramInputs ==
  /\ Phase("inputs")
  /\ IF run.req.answered THEN Advance /\ Keep ELSE Wait

TextOf(f) == IF f = "runtime" THEN "telegram" ELSE run.identity
ReplacementRefused ==
  /\ ~run.req.approved
  /\ \E f \in ManagedFiles : files[f] \notin {None, TextOf(f)}

(* Mutant: the last file is left out.                                      *)
WriteAllButLast ==
  /\ Phase("persist")
  /\ IF run.written = 0 /\ ReplacementRefused
     THEN Fail /\ UNCHANGED files
     ELSE LET n == run.written + 1
          IN /\ files' = [files EXCEPT ![TelegramFiles[n]] = TextOf(TelegramFiles[n])]
             /\ run' = [run EXCEPT
                  !.before = IF n = 1 THEN Snapshot ELSE @,
                  !.written = n,
                  !.at = IF n = Len(TelegramFiles) - 1 THEN Follower(@) ELSE @]
  /\ UNCHANGED <<host, marker, service>>

(* Every replacement is checked before the first file is written; each     *)
(* file is then replaced atomically, one after the other.                  *)
WriteTelegramFile ==
  /\ Phase("persist")
  /\ IF run.written = 0 /\ ReplacementRefused
     THEN Fail /\ UNCHANGED files
     ELSE LET n == run.written + 1
          IN /\ files' = [files EXCEPT ![TelegramFiles[n]] = TextOf(TelegramFiles[n])]
             /\ run' = [run EXCEPT
                  !.before = IF n = 1 THEN Snapshot ELSE @,
                  !.written = n,
                  !.at = IF n = Len(TelegramFiles) THEN Follower(@) ELSE @]
  /\ UNCHANGED <<host, marker, service>>

WriteTelegramFails ==
  /\ Fault("persist")
  /\ LET f == TelegramFiles[run.written + 1]
     IN files' \in {files, [files EXCEPT ![f] = TextOf(f)]}
  /\ run' = [Struck EXCEPT !.at = "undo_telegram",
                           !.before = IF run.written = 0 THEN Snapshot ELSE @]
  /\ UNCHANGED <<host, marker, service>>

(* What was written is read back; a file that is not valid undoes all.     *)
GeneratedFilesValid == Startable /\ files["users"] \in Identities
ValidateGeneratedFiles ==
  /\ Phase("validate")
  /\ IF GeneratedFilesValid THEN Commit ELSE Undo("undo_telegram")
  /\ Keep
ValidationFails == Fault("validate") /\ FaultedAt("undo_telegram") /\ Keep

(* Mutant: the file that was being written is not restored.                *)
UndoWrittenFiles ==
  /\ Phase("undo_telegram") /\ Fail
  /\ files' = [f \in ManagedFiles |->
                 IF \E n \in 1..run.written : TelegramFiles[n] = f
                 THEN run.before.files[f] ELSE files[f]]
  /\ UNCHANGED <<host, marker, service>>

UndoTelegram ==
  /\ Phase("undo_telegram") /\ Fail
  /\ files' = run.before.files
  /\ UNCHANGED <<host, marker, service>>

(* The files are restored last to first, up to the one that fails.         *)
UndoTelegramFails ==
  /\ Fault("undo_telegram")
  /\ run' = [Idle EXCEPT !.req = run.req, !.identity = run.identity,
                         !.outcome = "failed", !.faulted = TRUE, !.botched = TRUE]
  /\ \E n \in 1..Len(TelegramFiles) :
        files' = [f \in ManagedFiles |->
                    IF \E k \in (n + 1)..Len(TelegramFiles) : TelegramFiles[k] = f
                    THEN run.before.files[f] ELSE files[f]]
  /\ UNCHANGED <<host, marker, service>>

-----------------------------------------------------------------------------
(* The systemd service.                                                    *)
UnitDiffers == run.before.service.unit # run.req.release
WasActive == run.before.service.state = "on"
Did(what) == run' = [run EXCEPT !.at = Follower(@), !.did = @ \cup {what}]

QueryService ==
  /\ Phase("query")
  /\ IF service.unit \notin {None, run.req.release} /\ ~run.req.approved
     THEN Fail
     ELSE run' = [run EXCEPT !.at = Follower(@), !.before = Snapshot]
  /\ Keep

InstallUnit ==
  /\ Phase("unit")
  /\ IF UnitDiffers THEN Did("unit") ELSE Advance
  /\ service' = [service EXCEPT !.unit = run.req.release]
  /\ UNCHANGED <<host, files, marker>>

EnableService ==
  /\ Phase("enable")
  /\ IF service.enabled THEN Advance ELSE Did("enable")
  /\ service' = [service EXCEPT !.enabled = TRUE]
  /\ UNCHANGED <<host, files, marker>>

Running == [service EXCEPT !.state = "on", !.loaded = Loaded]

(* An active worker is restarted only under another unit.                  *)
StartService ==
  /\ Phase("start")
  /\ IF WasActive /\ ~UnitDiffers
     THEN Advance /\ UNCHANGED service
     ELSE Did("start") /\ service' = Running
  /\ UNCHANGED <<host, files, marker>>

Established == /\ service.unit = run.req.release
               /\ service.enabled
               /\ service.state = "on"
VerifyService ==
  /\ Phase("verify")
  /\ IF Established THEN Commit ELSE Undo("undo_service")
  /\ Keep

(* A command that failed may have had its effect.  The service counts as   *)
(* started by a start that failed, but not as enabled by an enable.        *)
DeploymentFails ==
  \/ /\ Fault("unit")
     /\ service' \in {service, [service EXCEPT !.unit = run.req.release]}
     /\ run' = [Struck EXCEPT !.at = "undo_service", !.did = @ \cup {"unit"}]
     /\ UNCHANGED <<host, files, marker>>
  \/ /\ Fault("enable") /\ ~service.enabled
     /\ \E b \in BOOLEAN : service' = [service EXCEPT !.enabled = b]
     /\ FaultedAt("undo_service")
     /\ UNCHANGED <<host, files, marker>>
  \/ /\ Fault("start") /\ (UnitDiffers \/ ~WasActive)
     /\ service' \in {[service EXCEPT !.state = "off", !.loaded = None], Running}
     /\ run' = [Struck EXCEPT !.at = "undo_service", !.did = @ \cup {"start"}]
     /\ UNCHANGED <<host, files, marker>>
  \/ Fault("verify") /\ FaultedAt("undo_service") /\ Keep

(* What the undo leaves when all of it works.                              *)
Restored ==
  LET was == run.before.service
      started == "start" \in run.did
      active == WasActive /\ (UnitDiffers \/ started)
      stopped == ~WasActive /\ started
  IN [unit    |-> IF "unit" \in run.did THEN was.unit ELSE service.unit,
      enabled |-> IF "enable" \in run.did THEN was.enabled ELSE service.enabled,
      state   |-> IF active THEN "on" ELSE IF stopped THEN "off" ELSE service.state,
      loaded  |-> IF active THEN Loaded ELSE IF stopped THEN None ELSE service.loaded]

(* Mutant: a service that was running is left as the failure left it.      *)
UndoUnitOnly ==
  /\ Phase("undo_service") /\ Fail
  /\ service' = [Restored EXCEPT !.state = service.state, !.loaded = service.loaded]
  /\ UNCHANGED <<host, files, marker>>

UndoService ==
  /\ Phase("undo_service") /\ Fail
  /\ service' = Restored
  /\ UNCHANGED <<host, files, marker>>

(* Each of its commands may fail; the others are tried all the same.       *)
UndoServiceFails ==
  /\ Fault("undo_service")
  /\ run' = [Idle EXCEPT !.req = run.req, !.identity = run.identity,
                         !.outcome = "failed", !.faulted = TRUE, !.botched = TRUE]
  /\ service' \in
       {service,
        [Restored EXCEPT !.enabled = service.enabled],
        [Restored EXCEPT !.state = service.state, !.loaded = service.loaded],
        [Restored EXCEPT !.state = "off", !.loaded = None]}
  /\ UNCHANGED <<host, files, marker>>

(* systemd restarts a worker that died; one that finds no usable           *)
(* configuration ends at once, and is restarted again.                     *)
RestartWorker ==
  /\ service.state \in {"on", "retrying"} /\ service.unit # None
  /\ spent.deaths < MaxDeaths
  /\ spent' = [spent EXCEPT !.deaths = @ + 1]
  /\ service' = IF Startable THEN Running
                ELSE [service EXCEPT !.state = "retrying", !.loaded = None]
  /\ UNCHANGED <<host, files, marker, run, past>>

-----------------------------------------------------------------------------
(* Health reads what the run installed; acceptance uses it.                *)
Readable == host.group /\ host.user /\ host.roots = RootNames
RuntimeHealthy == /\ Readable /\ DirectoriesUsable
                  /\ ConfigurationLoads /\ marker # None
ToolHealthy(t) == t \in host.trees \ host.broken /\ t \in host.records
TelegramHealthy == /\ Startable
                   /\ service.enabled /\ service.unit # None
                   /\ service.state = "on"
Healthy == /\ RuntimeHealthy
           /\ ToolHealthy("taskwarrior")
           /\ run.req.calendar => ToolHealthy("calendar")
           /\ run.req.telegram => TelegramHealthy
RunHealth == Phase("health") /\ Check(Healthy)

AcceptTool(t) == t \in host.trees \ host.broken
AcceptTelegram == run.identity # None
RunAcceptance ==
  Phase("acceptance") /\ Check(/\ AcceptTool("taskwarrior")
                               /\ run.req.calendar => AcceptTool("calendar")
                               /\ run.req.telegram => AcceptTelegram)

Succeed == Phase("end") /\ run.req # None /\ Finish("succeeded") /\ Keep

(* The program is interrupted: an interrupt is not an error it handles.    *)
Interrupt ==
  /\ ~At("idle")
  /\ spent.crashes < MaxCrashes
  /\ spent' = [spent EXCEPT !.crashes = @ + 1]
  /\ run' = [Idle EXCEPT !.outcome = "interrupted"]
  /\ IF run.at \in Tools THEN CutShort(run.at) ELSE UNCHANGED host
  /\ UNCHANGED <<files, marker, service, past>>

-----------------------------------------------------------------------------
(* The purge.  A service that cannot be stopped, disabled and removed ends *)
(* it before it has removed a file.                                        *)
BeginUninstall == NewRun /\ run' = [Idle EXCEPT !.at = "stop"]

Off == [service EXCEPT !.state = "off", !.loaded = None]
Disabled == [service EXCEPT !.enabled = FALSE]
Unlinked == [service EXCEPT !.unit = None]

RemoveService(p, then) ==
  /\ Phase(p) /\ Advance
  /\ service' = then
  /\ UNCHANGED <<host, files, marker>>
StopService == RemoveService("stop", Off)
DisableService == RemoveService("disable", Disabled)
UnlinkUnit == RemoveService("unlink", Unlinked)

(* The last of these is also the reload that follows the unlink.           *)
ServiceRemovalFails ==
  /\ \/ Fault("stop") /\ service' \in {service, Off}
     \/ Fault("disable") /\ service' \in {service, Disabled}
     \/ Fault("unlink") /\ service' \in {service, Unlinked}
  /\ FaultEnds
  /\ UNCHANGED <<host, files, marker>>

NoRule == [host EXCEPT !.rule = "absent"]
RemoveVolatile ==
  /\ Phase("volatile") /\ Advance
  /\ host' = NoRule
  /\ UNCHANGED <<files, marker, service>>

(* What is left on the disk once these directories are gone.               *)
Gone(tree) == [host EXCEPT !.trees = @ \ {tree}, !.broken = @ \ {tree}]
Dropping == [taskwarrior |-> "drop_taskwarrior", calendar |-> "drop_calendar"]
DropTool(t) ==
  /\ Phase(Dropping[t]) /\ Advance
  /\ host' = Gone(t)
  /\ UNCHANGED <<files, marker, service>>

DropConfiguration ==
  /\ Phase("drop_configuration") /\ Advance
  /\ host' = [host EXCEPT !.roots = @ \ {"configuration"}, !.confs = {}]
  /\ files' = [f \in ManagedFiles |-> None]
  /\ UNCHANGED <<marker, service>>

(* The records of the toolchains live in the state directory.              *)
DropState ==
  /\ Phase("drop_state") /\ Advance
  /\ host' = [host EXCEPT !.roots = @ \ {"state", "audit"},
                         !.records = {}]
  /\ marker' = None
  /\ UNCHANGED <<files, service>>

DropLogs ==
  /\ Phase("drop_logs") /\ Advance
  /\ host' = [host EXCEPT !.roots = @ \ {"logs"}]
  /\ UNCHANGED <<files, marker, service>>

(* A directory that is removed in part is still there.                     *)
PartlyDropped ==
  \/ /\ run.at = "volatile"
     /\ host' \in {host, NoRule}
     /\ UNCHANGED <<files, marker>>
  \/ /\ \E t \in Tools : /\ run.at = Dropping[t]
                         /\ t \in host.trees
                         /\ host' = [host EXCEPT !.broken = @ \cup {t}]
     /\ UNCHANGED <<files, marker>>
  \/ /\ run.at = "drop_configuration"
     /\ \E lost \in SUBSET ManagedFiles :
          files' = [f \in ManagedFiles |-> IF f \in lost THEN None ELSE files[f]]
     /\ \E confs \in SUBSET host.confs : host' = [host EXCEPT !.confs = confs]
     /\ UNCHANGED marker
  \/ /\ run.at = "drop_state"
     /\ \E lost \in SUBSET host.records, audit \in SUBSET {"audit"} :
          host' = [host EXCEPT !.records = @ \ lost, !.roots = @ \ audit]
     /\ marker' \in {marker, None}
     /\ UNCHANGED files
  \/ /\ run.at = "drop_logs" /\ "logs" \in host.roots
     /\ UNCHANGED <<host, files, marker>>
Droppings == {"volatile", "drop_taskwarrior", "drop_calendar",
              "drop_configuration", "drop_state", "drop_logs"}

(* The purge goes on with the next directory, and remembers the failure.   *)
DropFails ==
  /\ \E p \in Droppings : Fault(p)
  /\ PartlyDropped
  /\ run' = [Struck EXCEPT !.at = Follower(@), !.botched = TRUE]
  /\ UNCHANGED service

(* The purge is interrupted within a directory.                            *)
InterruptDrop ==
  /\ run.at \in Droppings
  /\ spent.crashes < MaxCrashes
  /\ spent' = [spent EXCEPT !.crashes = @ + 1]
  /\ PartlyDropped
  /\ run' = [Idle EXCEPT !.outcome = "interrupted"]
  /\ UNCHANGED <<service, past>>

(* Mutant: the account goes whatever happened to the directories.          *)
DeleteUserAlways ==
  /\ Phase("userdel") /\ Advance
  /\ \E b \in {FALSE, host.group} :
        host' = [host EXCEPT !.user = FALSE, !.group = b]
  /\ UNCHANGED <<files, marker, service>>

(* The account stays when a directory stayed.  Deleting the user may       *)
(* delete its group.                                                       *)
DeleteUser ==
  /\ Phase("userdel")
  /\ IF run.botched
     THEN Fail /\ UNCHANGED host
     ELSE /\ Advance
          /\ \E b \in {FALSE, host.group} :
               host' = [host EXCEPT !.user = FALSE,
                                    !.group = IF host.user THEN b ELSE @]
  /\ UNCHANGED <<files, marker, service>>

DeleteGroup ==
  /\ Phase("groupdel") /\ Advance
  /\ host' = [host EXCEPT !.group = FALSE]
  /\ UNCHANGED <<files, marker, service>>

AccountFails ==
  /\ \/ /\ Fault("userdel") /\ host.user /\ ~run.botched
        /\ host' \in {host, [host EXCEPT !.user = FALSE]}
     \/ /\ Fault("groupdel") /\ host.group
        /\ host' \in {host, [host EXCEPT !.group = FALSE]}
  /\ FaultEnds
  /\ UNCHANGED <<files, marker, service>>

Purged == /\ Phase("end") /\ run.req = None
          /\ Finish(IF run.botched THEN "failed" ELSE "purged")
          /\ Keep

-----------------------------------------------------------------------------
Prepare == \/ \E req \in Requests : Begin(req)
           \/ Onboard \/ DeclineIdentity \/ Preflight \/ RequireApproval
           \/ CreateGroup \/ CreateUser \/ EnsureRule \/ TearRule
           \/ EnsureDirectories \/ EnsureAuditFile \/ StepFails
Configure == \/ WriteConfiguration \/ WriteMarker \/ BaseConfigurationFails
             \/ UndoBase \/ UndoBaseFails
             \/ \E t \in Tools : InstallTool(t) \/ RefuseTool(t) \/ ToolFails(t)
Connect == \/ ResolveTelegramInputs \/ WriteTelegramFile \/ WriteTelegramFails
           \/ ValidateGeneratedFiles \/ ValidationFails
           \/ UndoTelegram \/ UndoTelegramFails
Deploy == \/ QueryService \/ InstallUnit \/ EnableService \/ StartService
          \/ VerifyService \/ DeploymentFails \/ UndoService \/ UndoServiceFails
Conclude == RunHealth \/ RunAcceptance \/ Succeed
Uninstall == \/ BeginUninstall \/ StopService \/ DisableService \/ UnlinkUnit
             \/ ServiceRemovalFails \/ RemoveVolatile
             \/ \E t \in Tools : DropTool(t)
             \/ DropConfiguration \/ DropState \/ DropLogs \/ DropFails
             \/ InterruptDrop \/ DeleteUser \/ DeleteGroup \/ AccountFails
             \/ Purged

Next == \/ Prepare \/ Configure \/ Connect \/ Deploy \/ Conclude
        \/ Uninstall \/ Interrupt \/ RestartWorker

Spec == Init /\ [][Next]_vars

-----------------------------------------------------------------------------
LoadedType == [users : Identities \cup {None}, token : Identities \cup {None}]
ServiceType == [unit : Releases \cup {None}, enabled : BOOLEAN,
                state : {"off", "on", "retrying"}, loaded : LoadedType \cup {None}]
Texts(f) == IF f = "runtime" THEN {None, "plain", "telegram"}
                             ELSE Identities \cup {None}
FilesType ==
  {g \in [ManagedFiles -> {None, "plain", "telegram"} \cup Identities] :
     \A f \in ManagedFiles : g[f] \in Texts(f)}
SnapshotType == [files : FilesType, marker : MarkerType \cup {None},
                 service : ServiceType]

(* The state of the host, of the installer and of systemd.                 *)
TypeOK ==
  /\ host \in [group : BOOLEAN, user : BOOLEAN,
               rule : {"absent", "legacy", "current", "torn"},
               roots : SUBSET RootNames,
               trees : SUBSET Tools, broken : SUBSET Tools,
               records : SUBSET Tools, confs : SUBSET Tools]
  /\ files \in FilesType
  /\ marker \in MarkerType \cup {None}
  /\ service \in ServiceType
  /\ run.req \in Requests \cup {None}
  /\ run.identity \in Identities \cup {None}
  /\ run.before \in SnapshotType \cup {None}
  /\ run.did \subseteq {"unit", "enable", "start"}
  /\ run.refused \in Tools \cup {"none"}
  /\ spent \in [runs : 0..MaxRuns, faults : 0..MaxFaults,
                crashes : 0..MaxCrashes, deaths : 0..MaxDeaths]
  /\ past \in [ran : BOOLEAN, agreed : BOOLEAN]

Ended(outcome) == At("idle") /\ run.outcome = outcome
Installing == run.req # None

InstallationIsReady ==
  Ended("succeeded") =>
    /\ host.group /\ host.user /\ host.rule = "current"
    /\ host.roots = RootNames
    /\ marker = NewMarker
    /\ ToolHealthy("taskwarrior")
    /\ run.req.calendar => ToolHealthy("calendar")
    /\ run.req.telegram =>
         /\ files = [f \in ManagedFiles |-> TextOf(f)]
         /\ Established
(* A worker that was running already under the same unit keeps the files   *)
(* it had read: only one that this run started has read the new ones.      *)
StartedOnInstalledFiles ==
  (At("end") /\ "start" \in run.did) => service.loaded = Loaded
PurgeIsClean ==
  Ended("purged") =>
    /\ host = [group |-> FALSE, user |-> FALSE, rule |-> "absent", roots |-> {},
               trees |-> {}, broken |-> {}, records |-> {}, confs |-> {}]
    /\ files = [f \in ManagedFiles |-> None]
    /\ marker = None
    /\ service.unit = None /\ ~service.enabled /\ service.state = "off"

(* An installation that says it succeeded left a host that is ready: its   *)
(* account, directories, rule and tools, the record of this very release,  *)
(* and with Telegram the operator's identity in both files and an enabled  *)
(* service that runs this release's unit, with these files if this run     *)
(* started it; a purge that says so left nothing - whatever earlier        *)
(* installations, failures, interruptions and purges left behind.          *)
(* Code: run_release_candidate_orchestration, orchestration_engine.py, and *)
(* execute_release_candidate_uninstall, uninstall_executor.py.             *)
SuccessIsReal ==
  InstallationIsReady /\ StartedOnInstalledFiles /\ PurgeIsClean

(* A repair or an upgrade with Telegram that fails on its own leaves a     *)
(* worker that ran before it running on files it can be restarted with,    *)
(* and never mixes the token of one identity with the user of another.     *)
(* Code: the rollbacks of telegram_configuration.py and                    *)
(* systemd_service.py, after a failure of any step of theirs.              *)
FailureKeepsService ==
  (Ended("failed") /\ Installing /\ ~run.botched) =>
    (run.req.telegram => /\ past.ran => service.state = "on" /\ Startable
                         /\ past.agreed => Agree)

(* Every managed directory belongs to an account that exists: the account  *)
(* is created first, and removed only when every directory is gone.        *)
(* Code: provision_system_layout, provisioning.py, and                     *)
(* execute_release_candidate_uninstall, uninstall_executor.py.             *)
FilesHaveAnOwner == host.roots # {} => host.group /\ host.user

(* Whatever a failed, interrupted or purged installation left, a repair or *)
(* an upgrade that is approved and fully answered succeeds when no step of *)
(* its own fails, and so does a purge.  Two leftovers are excepted, which  *)
(* the code may refuse until they are purged: a rule that was torn, and a  *)
(* tree, record or configuration of the tool whose installer refused it.   *)
(* Code: _ensure_managed_file, provisioning.py, _prepare_upgrade_record,   *)
(* calendar.py, and the boundaries of orchestration_engine.py.             *)
RepairsSucceed ==
  (Ended("failed") /\ ~run.faulted) =>
    /\ Installing
    /\ \/ run.req.mode = "fresh"
       \/ ~run.req.approved
       \/ run.req.telegram /\ ~run.req.answered
       \/ host.rule = "torn"
       \/ \E t \in Tools : run.refused = t /\ Found(t)
=============================================================================
