----------------------- MODULE ReleaseCandidateProofs -----------------------
(***************************************************************************)
(* What the guided installer and the uninstaller of a release candidate    *)
(* promise, for any releases, identities and requests and any number of    *)
(* runs, faults, crashes and deaths of the worker.  The argument: what a   *)
(* boundary established goes with the phases after it, since no later      *)
(* boundary of the same run takes it back; a transaction knows what it     *)
(* found; and a worker whose files stay usable is only ever restarted into *)
(* the state it was in.                                                    *)
(***************************************************************************)
EXTENDS ReleaseCandidate, TLAPS

(* The phases of an installation, by what is done when they begin.         *)
AfterTools == {"inputs", "persist", "validate", "undo_telegram", "query",
               "unit", "enable", "start", "verify", "undo_service", "health",
               "acceptance", "end"}
AfterMarker == AfterTools \cup {"taskwarrior", "calendar"}
AfterAudit == AfterMarker \cup {"conf", "marker", "undo_base"}
AfterRule == AfterAudit \cup {"roots", "audit"}
AfterGroup == AfterRule \cup {"user", "rule"}
InstallPhases ==
  AfterGroup \cup {"onboard", "preflight", "approval", "group"}

Concluding == {"health", "acceptance", "end"}
Deploying == {"unit", "enable", "start", "verify", "undo_service"}
Connecting == {"inputs", "persist", "validate", "undo_telegram", "query"}

(* The phases of a purge. *)
AfterLogs == {"userdel", "groupdel", "end"}
AfterState == AfterLogs \cup {"drop_logs"}
AfterConfiguration == AfterState \cup {"drop_state"}
AfterCalendar == AfterConfiguration \cup {"drop_configuration"}
AfterTaskwarrior == AfterCalendar \cup {"drop_calendar"}
AfterVolatile == AfterTaskwarrior \cup {"drop_taskwarrior"}
AfterUnlink == AfterVolatile \cup {"volatile"}
AfterDisable == AfterUnlink \cup {"unlink"}
AfterStop == AfterDisable \cup {"disable"}
UninstallPhases == AfterStop \cup {"stop"}

Undoing == {"undo_base", "undo_telegram", "undo_service"}
Outcomes == {"none", "succeeded", "failed", "cancelled", "waiting",
             "interrupted", "purged"}
RunType == [at : InstallPhases \cup UninstallPhases \cup {"idle"},
            req : Requests \cup {None}, identity : Identities \cup {None},
            written : 0..3, before : SnapshotType \cup {None},
            did : SUBSET {"unit", "enable", "start"}, outcome : Outcomes,
            faulted : BOOLEAN, botched : BOOLEAN,
            refused : Tools \cup {"none"}]
HostType == [group : BOOLEAN, user : BOOLEAN,
             rule : {"absent", "legacy", "current", "torn"},
             roots : SUBSET RootNames, trees : SUBSET Tools,
             broken : SUBSET Tools, records : SUBSET Tools,
             confs : SUBSET Tools]

Types ==
  /\ host \in HostType
  /\ files \in FilesType
  /\ marker \in MarkerType \cup {None}
  /\ service \in ServiceType
  /\ run \in RunType
  /\ spent \in [runs : 0..MaxRuns, faults : 0..MaxFaults,
                crashes : 0..MaxCrashes, deaths : 0..MaxDeaths]
  /\ past \in [ran : BOOLEAN, agreed : BOOLEAN]

(* A run that ended well leaves what its last phase found. *)
Place == IF At("idle") /\ run.outcome \in {"succeeded", "purged"}
         THEN "end" ELSE run.at

(* A run works on a request, or purges; only a failure undoes anything. *)
Process ==
  /\ ~At("idle") => run.at \in IF Installing THEN InstallPhases
                                             ELSE UninstallPhases
  /\ Ended("succeeded") => Installing
  /\ Ended("purged") => ~Installing
  /\ run.botched \/ run.at \in Undoing => run.faulted
  /\ ~Installing /\ Place \in {"groupdel", "end"} => ~run.botched

(* What an installation has provided by the time it is in this phase. *)
Provided ==
  Installing =>
    /\ Place \in AfterGroup => host.group
    /\ Place \in AfterRule \cup {"rule"} => host.user
    /\ Place \in AfterRule => host.rule = "current"
    /\ Place \in AfterAudit \cup {"audit"} =>
         {"configuration", "state", "logs"} \subseteq host.roots
    /\ Place \in AfterAudit => "audit" \in host.roots
    /\ Place \in AfterMarker \cup {"marker"} => files["runtime"] = RuntimeText
    /\ Place \in AfterMarker => marker = NewMarker
    /\ Place \in AfterTools \cup {"calendar"} => ToolHealthy("taskwarrior")
    /\ Place \in AfterTools /\ run.req.calendar => ToolHealthy("calendar")

(* Where the Telegram part is, and what its files hold. *)
Connected == run.req.telegram /\ Place \in Deploying \cup Concluding
Written ==
  Installing =>
    /\ Place \in Connecting \cup Deploying => run.req.telegram
    /\ Place \in (Connecting \ {"inputs"}) \cup Deploying => run.req.answered
    /\ Connected => run.req.answered
    /\ run.req.telegram /\ run.req.answered /\ Place \notin {"idle", "onboard"}
         => run.identity \in Identities
    /\ Place = "persist" =>
         \A n \in 1..run.written : files[TelegramFiles[n]] = TextOf(TelegramFiles[n])
    /\ Connected \/ Place \in {"validate", "query"} =>
         \A f \in ManagedFiles : files[f] = TextOf(f)

(* What a transaction remembers. *)
Transaction ==
  /\ run.at \in {"marker", "undo_base", "validate", "undo_telegram", "unit",
                 "enable", "start", "verify", "undo_service"}
       => run.before \in SnapshotType
  /\ run.at \in {"taskwarrior", "calendar", "inputs"}
       => run.before = None /\ run.written = 0
  /\ run.at = "persist" =>
       /\ run.written < 3
       /\ IF run.written = 0 THEN run.before = None
                             ELSE run.before \in SnapshotType
  /\ run.did # {} => run.at \in Deploying \cup Concluding
  /\ run.at = "unit" => run.did = {}
  /\ run.at = "enable" => run.did \subseteq {"unit"}
  /\ run.at = "start" => run.did \subseteq {"unit", "enable"}
  /\ "start" \in run.did => Installing /\ run.req.telegram

(* The service, as the deployment leaves it. *)
Served ==
  Installing =>
    /\ Connected /\ Place \notin {"unit", "undo_service"} =>
         service.unit = run.req.release
    /\ Connected /\ Place \notin {"unit", "enable", "undo_service"} =>
         service.enabled
    /\ Connected /\ Place \notin {"unit", "enable", "start", "undo_service"} =>
         service.state = "on"
    /\ Place \in {"unit", "enable", "start"} /\ WasActive => service.state = "on"
    /\ "start" \in run.did /\ Place \in Concluding \cup {"verify"} =>
         service.loaded = Loaded

(* A worker that ran when the run began still runs, or will once the       *)
(* deployment is undone; and what would be restored is as good.            *)
Loads(f) == f["runtime"] = "telegram" /\ f["users"] # None /\ f["token"] # None
Holding == \/ run.at \in {"marker", "undo_base", "validate", "undo_telegram"}
           \/ At("persist") /\ run.written > 0
BacksOut == Ended("failed") /\ ~run.botched
Kept ==
  Installing /\ run.req.telegram /\ (~At("idle") \/ BacksOut) =>
    /\ past.ran => /\ Startable
                   /\ \/ service.state = "on"
                      \/ At("undo_service") /\ (UnitDiffers \/ "start" \in run.did)
                   /\ run.at \in Deploying => WasActive
                   /\ Holding => Loads(run.before.files)
    /\ past.agreed =>
         IF run.at \in {"persist", "validate", "undo_telegram"} /\ Holding
         THEN run.before.files["users"] = run.before.files["token"]
         ELSE Agree

(* What a purge has removed by the time it is in this phase. *)
Cleared ==
  ~Installing =>
    /\ Place \in AfterStop => service.state = "off" /\ service.loaded = None
    /\ Place \in AfterDisable => ~service.enabled
    /\ Place \in AfterUnlink => service.unit = None
    /\ Place = "groupdel" \/ Place = "end" => ~host.user
    /\ Place = "end" => ~host.group
    /\ ~run.botched =>
         /\ Place \in AfterVolatile => host.rule = "absent"
         /\ Place \in AfterTaskwarrior =>
              "taskwarrior" \notin host.trees \cup host.broken
         /\ Place \in AfterCalendar =>
              "calendar" \notin host.trees \cup host.broken
         /\ Place \in AfterConfiguration =>
              /\ "configuration" \notin host.roots
              /\ \A f \in ManagedFiles : files[f] = None
              /\ host.confs = {}
         /\ Place \in AfterState =>
              /\ host.roots \cap {"state", "audit"} = {}
              /\ host.records = {} /\ marker = None
         /\ Place \in AfterLogs => "logs" \notin host.roots

IInv == /\ Types /\ Process /\ Provided /\ Written /\ Transaction /\ Served
        /\ Kept /\ Cleared /\ FilesHaveAnOwner /\ RepairsSucceed

-----------------------------------------------------------------------------
LEMMA Requested ==
  ASSUME Types, Installing
  PROVE  /\ run.req \in RequestType
         /\ run.req.telegram \in BOOLEAN /\ run.req.calendar \in BOOLEAN
         /\ run.req.approved \in BOOLEAN /\ run.req.answered \in BOOLEAN
         /\ run.req.release \in Releases /\ run.req.release # None
         /\ run.req.mode \in {"fresh", "repair", "upgrade"}
BY RequestsAreTyped, NoneIsDistinct DEF Types, RunType, Installing, RequestType

LEMMA InstallRoute ==
  ASSUME Installing
  PROVE  /\ Follower("preflight") = "approval" /\ Follower("approval") = "group"
         /\ Follower("group") = "user" /\ Follower("user") = "rule"
         /\ Follower("rule") = "roots" /\ Follower("roots") = "audit"
         /\ Follower("audit") = "conf" /\ Follower("conf") = "marker"
         /\ Follower("marker") = "taskwarrior"
         /\ run.req.calendar => Follower("taskwarrior") = "calendar"
         /\ ~run.req.calendar /\ run.req.telegram => Follower("taskwarrior") = "inputs"
         /\ ~run.req.calendar /\ ~run.req.telegram => Follower("taskwarrior") = "health"
         /\ run.req.telegram => Follower("calendar") = "inputs"
         /\ ~run.req.telegram => Follower("calendar") = "health"
         /\ Follower("health") = "acceptance" /\ Follower("acceptance") = "end"
BY SMT DEF Installing, Follower, InstallPlan, TelegramPlan

LEMMA TelegramRoute ==
  ASSUME Installing
  PROVE  /\ Follower("inputs") = "persist" /\ Follower("persist") = "validate"
         /\ Follower("validate") = "query" /\ Follower("query") = "unit"
         /\ Follower("unit") = "enable" /\ Follower("enable") = "start"
         /\ Follower("start") = "verify" /\ Follower("verify") = "health"
BY SMT DEF Installing, Follower, TelegramPlan

LEMMA UninstallRoute ==
  ASSUME ~Installing
  PROVE  /\ Follower("stop") = "disable" /\ Follower("disable") = "unlink"
         /\ Follower("unlink") = "volatile"
         /\ Follower("volatile") = "drop_taskwarrior"
         /\ Follower("drop_taskwarrior") = "drop_calendar"
         /\ Follower("drop_calendar") = "drop_configuration"
         /\ Follower("drop_configuration") = "drop_state"
         /\ Follower("drop_state") = "drop_logs"
         /\ Follower("drop_logs") = "userdel"
         /\ Follower("userdel") = "groupdel" /\ Follower("groupdel") = "end"
BY SMT DEF Installing, Follower, UninstallPlan

(* An installation in a phase of its own is not a purge, and conversely. *)
LEMMA Whose ==
  ASSUME Process
  PROVE  /\ run.at \in InstallPhases \ {"end"} => Installing
         /\ run.at \in UninstallPhases \ {"end"} => ~Installing
BY DEF Process, At, Installing, InstallPhases, UninstallPhases, AfterGroup,
       AfterRule, AfterAudit, AfterMarker, AfterTools, AfterStop, AfterDisable,
       AfterUnlink, AfterVolatile, AfterTaskwarrior, AfterCalendar,
       AfterConfiguration, AfterState, AfterLogs

(* Nothing is promised of a run that stopped, but by Kept. *)
LEMMA Stopping ==
  ASSUME run'.at = "idle", run'.outcome \notin {"succeeded", "purged"},
         run'.did = {}, run'.botched => run'.faulted
  PROVE  /\ Process' /\ Provided' /\ Written' /\ Transaction' /\ Served'
         /\ Cleared'
<1>1. Place' = "idle" /\ (At("idle"))'
  BY DEF Place, At
<1>2. Process'
  BY <1>1 DEF Process, Ended, Undoing, At
<1>3. Provided' /\ Written' /\ Served' /\ Cleared'
  BY <1>1 DEF Provided, Written, Served, Cleared, Connected, AfterTools,
     AfterMarker, AfterAudit, AfterRule, AfterGroup, Concluding, Deploying,
     Connecting, AfterLogs, AfterState, AfterConfiguration, AfterCalendar,
     AfterTaskwarrior, AfterVolatile, AfterUnlink, AfterDisable, AfterStop
<1>4. Transaction'
  BY <1>1 DEF Transaction
<1>5. QED
  BY <1>2, <1>3, <1>4

-----------------------------------------------------------------------------
(* The steps of a run, on the record of the run alone. *)
Standing == /\ run'.req = run.req /\ run'.identity = run.identity
            /\ run'.botched = run.botched
Carrying == /\ run'.before = run.before /\ run'.written = run.written
            /\ run'.did = run.did
Phases == InstallPhases \cup UninstallPhases

LEMMA Advancing ==
  ASSUME Types, Advance, Follower(run.at) \in Phases
  PROVE  /\ run' \in RunType /\ run'.at = Follower(run.at)
         /\ Standing /\ Carrying
         /\ run'.faulted = run.faulted /\ run'.outcome = run.outcome
BY DEF Types, RunType, Advance, Standing, Carrying, Phases

LEMMA Finishing ==
  ASSUME Types, NEW outcome \in Outcomes, Finish(outcome)
  PROVE  /\ run' \in RunType /\ run'.at = "idle" /\ run'.outcome = outcome
         /\ Standing /\ run'.faulted = run.faulted
         /\ run'.before = None /\ run'.written = 0 /\ run'.did = {}
<1>1. /\ 0 \in 0..3 /\ None \in SnapshotType \cup {None}
      /\ {} \in SUBSET {"unit", "enable", "start"}
  BY DEF Types, RunType
<1>2. QED
  BY <1>1 DEF Types, RunType, Finish, Standing

LEMMA Committing ==
  ASSUME Types, Commit, Follower(run.at) \in Phases
  PROVE  /\ run' \in RunType /\ run'.at = Follower(run.at)
         /\ Standing /\ run'.faulted = run.faulted
         /\ run'.outcome = run.outcome
         /\ run'.before = None /\ run'.written = 0
         /\ run'.did = run.did \cap {"start"}
<1>1. /\ 0 \in 0..3 /\ None \in SnapshotType \cup {None}
      /\ run.did \cap {"start"} \in SUBSET {"unit", "enable", "start"}
  BY DEF Types, RunType
<1>2. QED
  BY <1>1 DEF Types, RunType, Commit, Standing, Phases

LEMMA FaultEnding ==
  ASSUME Types, FaultEnds
  PROVE  /\ run' \in RunType /\ run'.at = "idle" /\ run'.outcome = "failed"
         /\ Standing /\ run'.faulted
         /\ run'.before = None /\ run'.written = 0 /\ run'.did = {}
<1>1. /\ 0 \in 0..3 /\ None \in SnapshotType \cup {None}
      /\ {} \in SUBSET {"unit", "enable", "start"}
  BY DEF Types, RunType
<1>2. QED
  BY <1>1 DEF Types, RunType, FaultEnds, Struck, Standing, Outcomes

LEMMA Faulting ==
  ASSUME Types, NEW p \in Phases, FaultedAt(p)
  PROVE  /\ run' \in RunType /\ run'.at = p /\ run'.outcome = run.outcome
         /\ Standing /\ Carrying /\ run'.faulted
BY DEF Types, RunType, FaultedAt, Struck, Standing, Carrying, Phases

LEMMA FaultIsTyped ==
  ASSUME Types, NEW p, Fault(p)
  PROVE  /\ run.at = p /\ past' = past
         /\ spent' \in [runs : 0..MaxRuns, faults : 0..MaxFaults,
                        crashes : 0..MaxCrashes, deaths : 0..MaxDeaths]
BY BoundsAreNaturals DEF Types, Fault, At

-----------------------------------------------------------------------------
(* Before its Telegram part, a run neither deploys nor connects.           *)
Early == {"preflight", "approval", "group", "user", "rule", "roots", "audit",
          "conf", "marker", "undo_base", "taskwarrior", "calendar", "inputs"}

LEMMA MovingEarly ==
  ASSUME IInv, Installing, run.at \in Early \cup {"onboard"},
         run'.at \in Early \cup {"health"}, run'.req = run.req,
         \/ run.at # "onboard" /\ run'.identity = run.identity
         \/ run'.identity \in Identities,
         run'.at = "inputs" => run.req.telegram,
         run'.at = "health" => ~run.req.telegram,
         run'.did = {}, run'.botched = run.botched,
         run'.at = "undo_base" \/ run.faulted => run'.faulted
  PROVE  Process' /\ Written' /\ Served' /\ Cleared' /\ RepairsSucceed'
<1>1. /\ Place = run.at /\ Place' = run'.at /\ Installing' /\ ~At("idle")
      /\ (~At("idle"))' /\ run'.at # "end"
  BY DEF Place, At, Early, Installing
<1>2. Process'
  BY <1>1 DEF IInv, Process, Ended, At, Undoing, Early, InstallPhases,
     AfterGroup, AfterRule, AfterAudit, AfterMarker, AfterTools
<1>3. Written'
  <2>1. run'.req.telegram /\ run'.req.answered => run'.identity \in Identities
    BY <1>1 DEF IInv, Written, Early
  <2>2. /\ Place' \in Connecting \cup Deploying => run'.req.telegram
        /\ Place' \notin (Connecting \ {"inputs"}) \cup Deploying
        /\ ~Connected' /\ Place' \notin {"persist", "validate", "query"}
    BY <1>1 DEF Early, Connecting, Deploying, Concluding, Connected
  <2>3. QED
    BY <2>1, <2>2 DEF Written
<1>4. Served'
  BY <1>1 DEF Served, Connected, Early, Deploying, Concluding
<1>5. Cleared' /\ RepairsSucceed'
  BY <1>1 DEF Cleared, RepairsSucceed, Ended, At
<1>6. QED
  BY <1>2, <1>3, <1>4, <1>5

(* The worker is left alone, and its files stay at least as good.          *)
LEMMA LeavingTheWorker ==
  ASSUME IInv, Installing, ~At("idle"),
         run.at \notin {"undo_telegram", "undo_service"},
         run.at = "persist" => run.written = 0,
         run'.at \notin Deploying \cup {"validate", "undo_telegram"},
         run'.at = "persist" => run'.written = 0,
         run'.req = run.req, UNCHANGED <<service, past>>,
         files'["users"] = files["users"], files'["token"] = files["token"],
         past.ran /\ run.req.telegram =>
           files'["runtime"] \in {files["runtime"], "telegram"},
         host.roots \subseteq host'.roots,
         run'.at \in {"marker", "undo_base"} =>
           \/ run.at = "marker" /\ run'.before = run.before
           \/ run'.before.files = files
  PROVE  Kept'
<1> SUFFICES ASSUME Installing', run'.req.telegram PROVE Kept'
  BY DEF Kept
<1>1. past.ran => Startable /\ service.state = "on"
  BY DEF IInv, Kept, At
<1>2. past.ran /\ run.at = "marker" => Loads(run.before.files)
  BY DEF IInv, Kept, At, Holding
<1>3. past.agreed => Agree
  <2>1. CASE run.at = "validate"
    <3>1. files["users"] = TextOf("users") /\ files["token"] = TextOf("token")
      BY <2>1 DEF IInv, Written, Place, At, ManagedFiles
    <3>2. QED
      BY <3>1 DEF Agree, TextOf
  <2>2. CASE run.at # "validate"
    BY <2>2 DEF IInv, Kept, At, Holding, Types, RunType
  <2>3. QED
    BY <2>1, <2>2
<1>4. past'.ran => Startable' /\ service'.state = "on"
  BY <1>1 DEF Startable, ConfigurationLoads, DirectoriesUsable, SettingsLoad,
     UsersLoad, TokenLoads
<1>5. past'.ran /\ Holding' => Loads(run'.before.files)
  BY <1>1, <1>2 DEF Holding, At, Loads, Startable, SettingsLoad, UsersLoad,
     TokenLoads
<1>6. past'.agreed => Agree'
  BY <1>3 DEF Agree
<1>7. ~(run'.at \in {"persist", "validate", "undo_telegram"} /\ Holding')
  BY DEF Holding, At
<1>8. QED
  BY <1>4, <1>5, <1>6, <1>7 DEF Kept

(* A run that gives up, and undoes nothing.                                *)
LEMMA GivingUp ==
  ASSUME IInv, Types', Installing, ~At("idle"),
         run.at \notin {"undo_telegram", "undo_service"},
         run.at = "persist" => run.written = 0,
         run'.at = "idle", run'.outcome \in {"failed", "cancelled", "waiting"},
         Standing, run'.before = None, run'.did = {},
         run.faulted => run'.faulted,
         host'.roots = host.roots, host'.group = host.group,
         host'.user = host.user, UNCHANGED <<files, service, past>>,
         RepairsSucceed'
  PROVE  IInv'
<1>1. run'.botched => run'.faulted
  BY DEF IInv, Process, Standing
<1>2. Process' /\ Provided' /\ Written' /\ Transaction' /\ Served' /\ Cleared'
  BY <1>1, Stopping
<1>3. Kept'
  BY LeavingTheWorker DEF Standing, Deploying
<1>4. FilesHaveAnOwner'
  BY DEF IInv, FilesHaveAnOwner
<1>5. QED
  BY <1>2, <1>3, <1>4 DEF IInv

USE DEF AfterTools, AfterMarker, AfterAudit, AfterRule, AfterGroup

-----------------------------------------------------------------------------
(* The account and the directories.                                        *)
LEMMA OnboardKeeps == ASSUME IInv, Onboard PROVE IInv'
<1>1. Installing /\ run.at = "onboard" /\ ~At("idle")
  BY Whose DEF IInv, Onboard, Phase, At, InstallPhases
<1>2. PICK id \in Identities :
        run' = [run EXCEPT !.identity = id, !.at = "preflight"]
  BY DEF Onboard, Senders
<1>3. /\ run' \in RunType /\ run'.at = "preflight" /\ run'.identity = id
      /\ run'.req = run.req /\ run'.botched = run.botched /\ Carrying
      /\ run'.faulted = run.faulted
  BY <1>2 DEF IInv, Types, RunType, Carrying, InstallPhases
<1>4. UNCHANGED <<host, files, marker, service, spent, past>>
  BY DEF Onboard, Phase, Keep
<1>5. Types'
  BY <1>3, <1>4 DEF IInv, Types
<1>6. run.did = {}
  BY <1>1 DEF IInv, Transaction, Deploying, Concluding
<1>7. Process' /\ Written' /\ Served' /\ Cleared' /\ RepairsSucceed'
  BY <1>1, <1>3, <1>6, MovingEarly DEF Early, Carrying
<1>8. Kept'
  BY <1>1, <1>3, <1>4, LeavingTheWorker DEF Deploying, Carrying
<1>9. Provided' /\ Transaction' /\ FilesHaveAnOwner'
  BY <1>3, <1>4, <1>6
     DEF IInv, Provided, Transaction, FilesHaveAnOwner, Place, At, Carrying
<1>10. QED
  BY <1>5, <1>7, <1>8, <1>9 DEF IInv

LEMMA DeclineIdentityKeeps == ASSUME IInv, DeclineIdentity PROVE IInv'
<1>1. Installing /\ run.at = "onboard" /\ ~At("idle")
  BY Whose DEF IInv, DeclineIdentity, Phase, At, InstallPhases
<1>2. UNCHANGED <<host, files, marker, service, spent, past>>
  BY DEF DeclineIdentity, Phase, Keep
<1>3. /\ run' \in RunType /\ run'.at = "idle" /\ run'.outcome = "cancelled"
      /\ Standing /\ run'.faulted = run.faulted
      /\ run'.before = None /\ run'.did = {}
  BY Finishing DEF IInv, DeclineIdentity, Outcomes
<1>4. Types'
  BY <1>2, <1>3 DEF IInv, Types
<1>5. RepairsSucceed'
  BY <1>3 DEF RepairsSucceed, Ended
<1>6. QED
  BY <1>1, <1>2, <1>3, <1>4, <1>5, GivingUp

(* A check that failed: what the run leaves is what RepairsSucceed excepts. *)
LEMMA RefusingEarly ==
  ASSUME IInv, Installing, ~At("idle"), NEW outcome \in {"failed", "waiting"},
         run.at \notin {"undo_telegram", "undo_service"},
         run.at = "persist" => run.written = 0,
         Finish(outcome), UNCHANGED <<host, files, marker, service, spent, past>>,
         outcome = "failed" =>
           \/ run.req.mode = "fresh"
           \/ ~run.req.approved
           \/ run.req.telegram /\ ~run.req.answered
           \/ host.rule = "torn"
  PROVE  IInv'
<1>1. /\ run' \in RunType /\ run'.at = "idle" /\ run'.outcome = outcome
      /\ Standing /\ run'.faulted = run.faulted
      /\ run'.before = None /\ run'.did = {}
  BY Finishing DEF IInv, Outcomes
<1>2. Types'
  BY <1>1 DEF IInv, Types
<1>3. RepairsSucceed'
  BY <1>1 DEF RepairsSucceed, Ended, At, Installing, Standing
<1>4. QED
  BY <1>1, <1>2, <1>3, GivingUp

LEMMA PreflightKeeps == ASSUME IInv, Preflight PROVE IInv'
<1>1. Installing /\ run.at = "preflight" /\ ~At("idle")
  BY Whose DEF IInv, Preflight, Phase, At, InstallPhases
<1>2. UNCHANGED <<host, files, marker, service, spent, past>>
  BY DEF Preflight, Phase, Check, Keep
<1>3. run.did = {}
  BY <1>1 DEF IInv, Transaction, Deploying, Concluding
<1>4. CASE Advance
  <2>1. /\ run' \in RunType /\ run'.at = "approval" /\ Standing /\ Carrying
        /\ run'.faulted = run.faulted
    BY <1>1, <1>4, InstallRoute, Advancing DEF IInv, Phases, InstallPhases
  <2>2. Process' /\ Written' /\ Served' /\ Cleared' /\ RepairsSucceed'
    BY <1>1, <1>3, <2>1, MovingEarly DEF Early, Standing, Carrying
  <2>3. Kept'
    BY <1>1, <1>2, <2>1, LeavingTheWorker DEF Deploying, Standing, Carrying
  <2>4. Types' /\ Provided' /\ Transaction' /\ FilesHaveAnOwner'
    BY <1>2, <1>3, <2>1 DEF IInv, Types, Provided, Transaction,
       FilesHaveAnOwner, Place, At, Carrying
  <2>5. QED
    BY <2>2, <2>3, <2>4 DEF IInv
<1>5. CASE Fail /\ run.req.mode = "fresh"
  BY <1>1, <1>2, <1>5, RefusingEarly DEF Fail
<1>6. QED
  BY <1>4, <1>5, Requested DEF Preflight, Check, IInv

(* A boundary that completes before the Telegram part.                     *)
LEMMA AdvancingEarly ==
  ASSUME IInv, Installing, run.at \in Early \ {"undo_base"},
         NEW q \in Early \cup {"health"}, Follower(run.at) = q,
         q = "inputs" => run.req.telegram, q = "health" => ~run.req.telegram,
         q \notin {"marker", "undo_base"}, Advance, UNCHANGED <<files, service, past>>,
         host.roots \subseteq host'.roots
  PROVE  /\ run' \in RunType /\ run'.at = q /\ Standing /\ Carrying
         /\ run'.did = {} /\ Installing'
         /\ Process' /\ Written' /\ Served' /\ Cleared' /\ RepairsSucceed'
         /\ Kept'
<1>1. ~At("idle") /\ q \in Phases
  BY DEF At, Early, Phases, InstallPhases
<1>2. run.did = {}
  BY DEF IInv, Transaction, Deploying, Concluding, Early
<1>3. /\ run' \in RunType /\ run'.at = q /\ Standing /\ Carrying
      /\ run'.faulted = run.faulted
  BY <1>1, Advancing DEF IInv
<1>4. Process' /\ Written' /\ Served' /\ Cleared' /\ RepairsSucceed'
  BY <1>2, <1>3, MovingEarly DEF Standing, Carrying, Early
<1>5. Kept'
  BY <1>1, <1>3, LeavingTheWorker DEF Deploying, Standing, Carrying, Early
<1>6. QED
  BY <1>2, <1>3, <1>4, <1>5 DEF Standing, Carrying, Installing

LEMMA RequireApprovalKeeps == ASSUME IInv, RequireApproval PROVE IInv'
<1>1. Installing /\ run.at = "approval" /\ ~At("idle")
  BY Whose DEF IInv, RequireApproval, Phase, At, InstallPhases
<1>2. UNCHANGED <<host, files, marker, service, spent, past>>
  BY DEF RequireApproval, Phase, Wait, Keep
<1>3. CASE Advance
  <2>1. /\ run' \in RunType /\ run'.at = "group" /\ Standing /\ Carrying
        /\ run'.did = {}
        /\ Process' /\ Written' /\ Served' /\ Cleared' /\ RepairsSucceed'
        /\ Kept'
    BY <1>1, <1>2, <1>3, InstallRoute, AdvancingEarly DEF Early
  <2>2. Types' /\ Provided' /\ Transaction' /\ FilesHaveAnOwner'
    BY <1>2, <2>1 DEF IInv, Types, Provided, Transaction,
       FilesHaveAnOwner, Place, At, Carrying
  <2>3. QED
    BY <2>1, <2>2 DEF IInv
<1>4. CASE run.req.mode # "fresh" /\ ~run.req.approved /\ Wait
  <2>1. Finish("waiting") \/ Finish("failed")
    BY <1>4 DEF Wait
  <2>2. QED
    BY <1>1, <1>2, <1>4, <2>1, RefusingEarly
<1>5. QED
  BY <1>3, <1>4 DEF RequireApproval

LEMMA CreateGroupKeeps == ASSUME IInv, CreateGroup PROVE IInv'
<1>1. Installing /\ run.at = "group"
  BY Whose DEF IInv, CreateGroup, Phase, At, InstallPhases
<1>2. /\ UNCHANGED <<files, marker, service, spent, past>>
      /\ host' = [host EXCEPT !.group = TRUE]
  BY DEF CreateGroup, Phase
<1>3. host' \in HostType /\ host'.group /\ host'.roots = host.roots
      /\ host'.user = host.user
  BY <1>2 DEF IInv, Types, HostType
<1>4. /\ run' \in RunType /\ run'.at = "user" /\ Standing /\ Carrying
      /\ run'.did = {}
      /\ Process' /\ Written' /\ Served' /\ Cleared' /\ RepairsSucceed'
      /\ Kept'
  BY <1>1, <1>2, <1>3, InstallRoute, AdvancingEarly DEF Early, CreateGroup
<1>5. Types' /\ Provided' /\ Transaction' /\ FilesHaveAnOwner'
  BY <1>2, <1>3, <1>4 DEF IInv, Types, Provided, Transaction,
     FilesHaveAnOwner, Place, At, Carrying
<1>6. QED
  BY <1>4, <1>5 DEF IInv

LEMMA CreateUserKeeps == ASSUME IInv, CreateUser PROVE IInv'
<1>1. Installing /\ run.at = "user"
  BY Whose DEF IInv, CreateUser, Phase, At, InstallPhases
<1>2. /\ UNCHANGED <<files, marker, service, spent, past>>
      /\ host' = [host EXCEPT !.user = TRUE]
  BY DEF CreateUser, Phase
<1>3. host' \in HostType /\ host'.user /\ host'.roots = host.roots
      /\ host'.group = host.group
  BY <1>2 DEF IInv, Types, HostType
<1>4. /\ run' \in RunType /\ run'.at = "rule" /\ Standing /\ Carrying
      /\ run'.did = {}
      /\ Process' /\ Written' /\ Served' /\ Cleared' /\ RepairsSucceed'
      /\ Kept'
  BY <1>1, <1>2, <1>3, InstallRoute, AdvancingEarly DEF Early, CreateUser
<1>5. host.group
  BY <1>1 DEF IInv, Provided, Place, At
<1>6. Types' /\ Provided' /\ Transaction' /\ FilesHaveAnOwner'
  BY <1>2, <1>3, <1>4, <1>5 DEF IInv, Types, Provided, Transaction,
     FilesHaveAnOwner, Place, At, Carrying
<1>7. QED
  BY <1>4, <1>6 DEF IInv

LEMMA EnsureRuleKeeps == ASSUME IInv, EnsureRule PROVE IInv'
<1>1. Installing /\ run.at = "rule" /\ ~At("idle")
  BY Whose DEF IInv, EnsureRule, Phase, At, InstallPhases
<1>2. UNCHANGED <<files, marker, service, spent, past>>
  BY DEF EnsureRule, Phase
<1>3. host.group /\ host.user
  BY <1>1 DEF IInv, Provided, Place, At
<1>4. CASE Advance /\ host' = [host EXCEPT !.rule = "current"]
  <2>1. host' \in HostType /\ host'.rule = "current" /\ host'.roots = host.roots
        /\ host'.group = host.group /\ host'.user = host.user
    BY <1>4 DEF IInv, Types, HostType
  <2>2. /\ run' \in RunType /\ run'.at = "roots" /\ Standing /\ Carrying
        /\ run'.did = {}
        /\ Process' /\ Written' /\ Served' /\ Cleared' /\ RepairsSucceed'
        /\ Kept'
    BY <1>1, <1>2, <1>4, <2>1, InstallRoute, AdvancingEarly DEF Early
  <2>3. Types' /\ Provided' /\ Transaction' /\ FilesHaveAnOwner'
    BY <1>2, <1>3, <2>1, <2>2 DEF IInv, Types, Provided, Transaction,
       FilesHaveAnOwner, Place, At, Carrying
  <2>4. QED
    BY <2>2, <2>3 DEF IInv
<1>5. CASE Fail /\ UNCHANGED host /\ host.rule = "torn"
  BY <1>1, <1>2, <1>5, RefusingEarly DEF Fail
<1>6. QED
  BY <1>4, <1>5 DEF EnsureRule, IInv, Types, HostType

LEMMA EnsureDirectoriesKeeps == ASSUME IInv, EnsureDirectories PROVE IInv'
<1>1. Installing /\ run.at = "roots" /\ ~At("idle")
  BY Whose DEF IInv, EnsureDirectories, Phase, At, InstallPhases
<1>2. UNCHANGED <<files, marker, service, spent, past>>
  BY DEF EnsureDirectories, Phase
<1>3. host.group /\ host.user
  BY <1>1 DEF IInv, Provided, Place, At
<1>4. CASE Missing = {} /\ Advance /\ UNCHANGED host
  <2>1. {"configuration", "state", "logs"} \subseteq host.roots
    BY <1>4 DEF Missing, Roots
  <2>2. /\ run' \in RunType /\ run'.at = "audit" /\ Standing /\ Carrying
        /\ run'.did = {}
        /\ Process' /\ Written' /\ Served' /\ Cleared' /\ RepairsSucceed'
        /\ Kept'
    BY <1>1, <1>2, <1>4, InstallRoute, AdvancingEarly DEF Early
  <2>3. Types' /\ Provided' /\ Transaction' /\ FilesHaveAnOwner'
    BY <1>1, <1>2, <1>3, <1>4, <2>1, <2>2 DEF IInv, Types, Provided,
       Transaction, FilesHaveAnOwner, Place, At, Carrying, Installing
  <2>4. QED
    BY <2>2, <2>3 DEF IInv
<1>5. ASSUME UNCHANGED run, NEW i \in Missing,
             host' = [host EXCEPT !.roots = @ \cup {Roots[i]}]
      PROVE  IInv'
  <2>1. Roots[i] \in RootNames
    BY <1>5 DEF Missing, Roots, RootNames
  <2>2. host' \in HostType /\ host.roots \subseteq host'.roots
        /\ host'.group /\ host'.user /\ host'.rule = host.rule
    BY <1>3, <1>5, <2>1 DEF IInv, Types, HostType
  <2>3. run.did = {}
    BY <1>1 DEF IInv, Transaction, Deploying, Concluding
  <2>4. Process' /\ Written' /\ Served' /\ Cleared' /\ RepairsSucceed'
    BY <1>1, <1>5, <2>3, MovingEarly DEF Early
  <2>5. Kept'
    BY <1>1, <1>2, <1>5, <2>2, LeavingTheWorker DEF Deploying
  <2>6. Types' /\ FilesHaveAnOwner'
    BY <1>2, <1>5, <2>2 DEF IInv, Types, FilesHaveAnOwner
  <2>7. Provided'
    <3>1. Place = "roots" /\ Place' = "roots" /\ host.rule = "current"
      BY <1>1, <1>5 DEF IInv, Provided, Place, At
    <3>2. QED
      BY <2>2, <3>1 DEF Provided
  <2>8. Transaction'
    BY <1>5 DEF IInv, Transaction, Installing
  <2>9. QED
    BY <2>4, <2>5, <2>6, <2>7, <2>8 DEF IInv
<1>6. QED
  BY <1>4, <1>5 DEF EnsureDirectories

LEMMA EnsureAuditFileKeeps == ASSUME IInv, EnsureAuditFile PROVE IInv'
<1>1. Installing /\ run.at = "audit"
  BY Whose DEF IInv, EnsureAuditFile, Phase, At, InstallPhases
<1>2. /\ UNCHANGED <<files, marker, service, spent, past>>
      /\ host' = [host EXCEPT !.roots = @ \cup {"audit"}]
  BY DEF EnsureAuditFile, Phase
<1>3. /\ host' \in HostType /\ host.roots \subseteq host'.roots
      /\ "audit" \in host'.roots /\ host'.rule = host.rule
      /\ host'.user = host.user /\ host'.group = host.group
  BY <1>2 DEF IInv, Types, HostType, RootNames
<1>4. /\ run' \in RunType /\ run'.at = "conf" /\ Standing /\ Carrying
      /\ run'.did = {}
      /\ Process' /\ Written' /\ Served' /\ Cleared' /\ RepairsSucceed'
      /\ Kept'
  BY <1>1, <1>2, <1>3, InstallRoute, AdvancingEarly DEF Early, EnsureAuditFile
<1>5. Types' /\ Provided' /\ Transaction' /\ FilesHaveAnOwner'
  BY <1>1, <1>2, <1>3, <1>4 DEF IInv, Types, Provided, Transaction,
     FilesHaveAnOwner, Place, At, Carrying
<1>6. QED
  BY <1>4, <1>5 DEF IInv

(* A program that ends without an answer: nobody relies on it.             *)
LEMMA Vanishing ==
  ASSUME IInv, Types', run' = [Idle EXCEPT !.outcome = "interrupted"],
         FilesHaveAnOwner'
  PROVE  IInv'
<1>1. /\ run'.at = "idle" /\ run'.outcome = "interrupted" /\ run'.did = {}
      /\ run'.req = None /\ ~run'.botched
  BY DEF Idle
<1>2. Process' /\ Provided' /\ Written' /\ Transaction' /\ Served' /\ Cleared'
  BY <1>1, Stopping
<1>3. Kept' /\ RepairsSucceed'
  BY <1>1 DEF Kept, RepairsSucceed, Installing, Ended
<1>4. QED
  BY <1>2, <1>3 DEF IInv

LEMMA VanishingIsTyped ==
  ASSUME Types
  PROVE  [Idle EXCEPT !.outcome = "interrupted"] \in RunType
<1>1. 0 \in 0..3 /\ {} \in SUBSET {"unit", "enable", "start"}
  OBVIOUS
<1>2. QED
  BY <1>1 DEF Idle, RunType, Outcomes

LEMMA CrashIsTyped ==
  ASSUME Types, spent.crashes < MaxCrashes,
         spent' = [spent EXCEPT !.crashes = @ + 1]
  PROVE  spent' \in [runs : 0..MaxRuns, faults : 0..MaxFaults,
                     crashes : 0..MaxCrashes, deaths : 0..MaxDeaths]
BY BoundsAreNaturals DEF Types

LEMMA TearRuleKeeps == ASSUME IInv, TearRule PROVE IInv'
<1>1. host' \in HostType /\ host'.roots = host.roots
      /\ host'.group = host.group /\ host'.user = host.user
  BY DEF IInv, Types, HostType, TearRule
<1>2. Types'
  BY <1>1, CrashIsTyped, VanishingIsTyped DEF IInv, Types, TearRule
<1>3. FilesHaveAnOwner'
  BY <1>1 DEF IInv, FilesHaveAnOwner
<1>4. QED
  BY <1>2, <1>3, Vanishing DEF TearRule

(* What is left of a tool concerns nothing else of the host.               *)
LEMMA CutShortIsTyped ==
  ASSUME Types, NEW t \in Tools, CutShort(t)
  PROVE  /\ host' \in HostType /\ host'.roots = host.roots
         /\ host'.group = host.group /\ host'.user = host.user
<1>1. PICK tree \in SUBSET {t}, conf \in SUBSET {t}, lost \in SUBSET SetAside(t) :
        host' = [host EXCEPT !.trees = @ \cup tree, !.confs = @ \cup conf,
                             !.records = @ \ lost]
  BY DEF CutShort
<1>2. /\ host.trees \cup tree \in SUBSET Tools
      /\ host.confs \cup conf \in SUBSET Tools
      /\ host.records \ lost \in SUBSET Tools
  BY DEF Types, HostType
<1>3. QED
  BY <1>1, <1>2 DEF Types, HostType

LEMMA InterruptKeeps == ASSUME IInv, Interrupt PROVE IInv'
<1>1. host' \in HostType /\ host'.roots = host.roots
      /\ host'.group = host.group /\ host'.user = host.user
  BY CutShortIsTyped DEF IInv, Types, Interrupt
<1>2. Types'
  BY <1>1, CrashIsTyped, VanishingIsTyped DEF IInv, Types, Interrupt
<1>3. FilesHaveAnOwner'
  BY <1>1 DEF IInv, FilesHaveAnOwner
<1>4. QED
  BY <1>2, <1>3, Vanishing DEF Interrupt

LEMMA StepFailsKeeps == ASSUME IInv, StepFails PROVE IInv'
<1>1. PICK p \in {"preflight", "group", "user", "rule", "roots", "audit",
                  "inputs", "query", "health", "acceptance"} : Fault(p)
  BY DEF StepFails
<1>2. Installing /\ run.at = p /\ ~At("idle")
  BY <1>1, FaultIsTyped, Whose DEF IInv, At, InstallPhases
<1>3. UNCHANGED <<host, files, marker, service, past>>
  BY <1>1 DEF StepFails, Keep, Fault
<1>4. /\ run' \in RunType /\ run'.at = "idle" /\ run'.outcome = "failed"
      /\ Standing /\ run'.faulted /\ run'.before = None /\ run'.did = {}
  BY FaultEnding DEF IInv, StepFails
<1>5. Types'
  BY <1>1, <1>3, <1>4, FaultIsTyped DEF IInv, Types
<1>6. RepairsSucceed'
  BY <1>4 DEF RepairsSucceed
<1>7. QED
  BY <1>2, <1>3, <1>4, <1>5, <1>6, GivingUp

(* The guided command and the uninstaller begin afresh.                    *)
LEMMA BeginKeeps == ASSUME IInv, NEW req \in Requests, Begin(req) PROVE IInv'
<1>1. /\ UNCHANGED <<host, files, marker, service>>
      /\ past' = [ran |-> service.state = "on" /\ Startable, agreed |-> Agree]
  BY DEF Begin, NewRun, Keep
<1>2. /\ spent' \in [runs : 0..MaxRuns, faults : 0..MaxFaults,
                     crashes : 0..MaxCrashes, deaths : 0..MaxDeaths]
      /\ past' \in [ran : BOOLEAN, agreed : BOOLEAN]
  BY BoundsAreNaturals DEF IInv, Types, Begin, NewRun, Startable,
     ConfigurationLoads, DirectoriesUsable, SettingsLoad, UsersLoad, TokenLoads,
     Agree
<1>3. /\ run'.req = req /\ run'.before = None /\ run'.did = {}
      /\ run'.written = 0 /\ ~run'.botched /\ ~run'.faulted
      /\ run'.at \in {"onboard", "preflight"}
      /\ req.telegram /\ req.answered => run'.at = "onboard"
  BY DEF Begin, Idle
<1>4. run' \in RunType
  <2>1. 0 \in 0..3 /\ {} \in SUBSET {"unit", "enable", "start"}
    OBVIOUS
  <2>2. QED
    BY <2>1 DEF Begin, Idle, RunType, Outcomes, InstallPhases
<1>5. Types'
  BY <1>1, <1>2, <1>4 DEF IInv, Types
<1>6. Installing' /\ Place' = run'.at /\ ~(At("idle"))'
  BY <1>3, NoneIsDistinct, RequestsAreTyped DEF Installing, Place, At
<1>7. Process'
  BY <1>3, <1>6 DEF Process, InstallPhases, Undoing, Ended, At
<1>8. Provided' /\ Written' /\ Transaction' /\ Served' /\ Cleared'
  BY <1>3, <1>6 DEF Provided, Written, Transaction, Served, Cleared,
     Connected, Connecting, Deploying, Concluding
<1>9. Kept'
  BY <1>1, <1>3 DEF Kept, Startable, ConfigurationLoads, DirectoriesUsable,
     SettingsLoad, UsersLoad, TokenLoads, Agree, Deploying, Holding, At
<1>10. FilesHaveAnOwner' /\ RepairsSucceed'
  BY <1>1, <1>6 DEF IInv, FilesHaveAnOwner, RepairsSucceed, Ended
<1>11. QED
  BY <1>5, <1>7, <1>8, <1>9, <1>10 DEF IInv

-----------------------------------------------------------------------------
(* The base configuration and the toolchains.                              *)
LEMMA SnapshotIsTyped ==
  ASSUME Types
  PROVE  /\ Snapshot \in SnapshotType
         /\ Snapshot.files = files /\ Snapshot.marker = marker
         /\ Snapshot.service = service
BY DEF Types, Snapshot, SnapshotType

LEMMA RunIsTyped ==
  ASSUME run \in RunType, NEW p \in InstallPhases, NEW n \in 0..3,
         NEW b \in SnapshotType \cup {None},
         run' = [run EXCEPT !.before = b, !.written = n, !.at = p]
  PROVE  run' \in RunType
BY DEF RunType

LEMMA FileIsTyped ==
  ASSUME NEW g \in FilesType, NEW f \in ManagedFiles, NEW text \in Texts(f),
         NEW h, h = [g EXCEPT ![f] = text]
  PROVE  /\ h \in FilesType /\ h[f] = text
         /\ \A e \in ManagedFiles \ {f} : h[e] = g[e]
<1>1. text \in {None, "plain", "telegram"} \cup Identities
  BY DEF Texts
<1>2. QED
  BY <1>1 DEF FilesType

LEMMA RuntimeTextIsTyped ==
  ASSUME Types
  PROVE  /\ [files EXCEPT !["runtime"] = RuntimeText] \in FilesType
         /\ Installing => NewMarker \in MarkerType
<1>1. RuntimeText \in Texts("runtime")
  BY DEF RuntimeText, Texts
<1>2. [files EXCEPT !["runtime"] = RuntimeText] \in FilesType
  BY <1>1, FileIsTyped DEF Types, ManagedFiles
<1>3. QED
  BY <1>2, Requested DEF MarkerType, NewMarker

(* Rewriting the runtime configuration leaves the worker's files good.     *)
LEMMA RewritingRuntime ==
  ASSUME IInv, Installing,
         files' = [files EXCEPT !["runtime"] = RuntimeText]
  PROVE  /\ files' \in FilesType /\ files'["runtime"] = RuntimeText
         /\ files'["users"] = files["users"] /\ files'["token"] = files["token"]
         /\ files'["runtime"] \in {files["runtime"], "telegram"}
              \/ ~run.req.telegram
BY RuntimeTextIsTyped DEF IInv, Types, FilesType, ManagedFiles, RuntimeText

LEMMA WriteConfigurationKeeps == ASSUME IInv, WriteConfiguration PROVE IInv'
<1>1. Installing /\ run.at = "conf" /\ ~At("idle")
  BY Whose DEF IInv, WriteConfiguration, Phase, At, InstallPhases
<1>2. /\ UNCHANGED <<host, marker, service, spent, past>>
      /\ files' = [files EXCEPT !["runtime"] = RuntimeText]
  BY DEF WriteConfiguration, Phase
<1>3. run.did = {}
  BY <1>1 DEF IInv, Transaction, Deploying, Concluding
<1>4. /\ run' \in RunType /\ run'.at = "marker" /\ Standing
      /\ run'.before = Snapshot /\ run'.did = {} /\ run'.faulted = run.faulted
  <2>1. run' = [run EXCEPT !.at = "marker", !.before = Snapshot]
    BY <1>1, InstallRoute DEF WriteConfiguration
  <2>2. run \in RunType /\ Snapshot \in SnapshotType /\ "marker" \in InstallPhases
    BY SnapshotIsTyped DEF IInv, Types, InstallPhases
  <2>3. run' \in RunType
    BY <2>1, <2>2 DEF RunType
  <2>4. QED
    BY <1>3, <2>1, <2>2, <2>3 DEF RunType, Standing
<1>5. Process' /\ Written' /\ Served' /\ Cleared' /\ RepairsSucceed'
  BY <1>1, <1>4, MovingEarly DEF Early, Standing
<1>6. Kept'
  BY <1>1, <1>2, <1>4, RewritingRuntime, SnapshotIsTyped, LeavingTheWorker
     DEF IInv, Deploying, Standing
<1>7. Types' /\ FilesHaveAnOwner'
  BY <1>1, <1>2, <1>4, RewritingRuntime DEF IInv, Types, FilesHaveAnOwner
<1>8. Provided'
  <2>1. files'["runtime"] = (RuntimeText)'
    BY <1>1, <1>2, <1>4, RewritingRuntime DEF RuntimeText, Standing
  <2>2. Place = "conf" /\ Place' = "marker"
    BY <1>1, <1>4 DEF Place, At
  <2>3. QED
    BY <1>1, <1>2, <2>1, <2>2 DEF IInv, Provided
<1>9. Transaction'
  BY <1>4, SnapshotIsTyped DEF IInv, Transaction
<1>10. QED
  BY <1>5, <1>6, <1>7, <1>8, <1>9 DEF IInv

LEMMA WriteMarkerKeeps == ASSUME IInv, WriteMarker PROVE IInv'
<1>1. Installing /\ run.at = "marker" /\ ~At("idle")
  BY Whose DEF IInv, WriteMarker, Phase, At, InstallPhases
<1>2. UNCHANGED <<host, files, service, spent, past>> /\ marker' = NewMarker
  BY DEF WriteMarker, Phase
<1>3. run.did = {}
  BY <1>1 DEF IInv, Transaction, Deploying, Concluding
<1>4. /\ run' \in RunType /\ run'.at = "taskwarrior" /\ Standing
      /\ run'.before = None /\ run'.written = 0 /\ run'.did = {}
      /\ run'.faulted = run.faulted
  BY <1>1, <1>3, InstallRoute, Committing
     DEF IInv, WriteMarker, Phases, InstallPhases
<1>5. Process' /\ Written' /\ Served' /\ Cleared' /\ RepairsSucceed'
  BY <1>1, <1>4, MovingEarly DEF Early, Standing
<1>6. Kept'
  BY <1>1, <1>2, <1>4, LeavingTheWorker DEF Deploying, Standing
<1>7. Types' /\ FilesHaveAnOwner'
  BY <1>1, <1>2, <1>4, RuntimeTextIsTyped DEF IInv, Types, FilesHaveAnOwner
<1>8. Provided'
  <2>1. Place = "marker" /\ Place' = "taskwarrior"
    BY <1>1, <1>4 DEF Place, At
  <2>2. marker' = NewMarker' /\ RuntimeText' = RuntimeText
    BY <1>2, <1>4 DEF NewMarker, RuntimeText, Standing
  <2>3. QED
    BY <1>1, <1>2, <2>1, <2>2 DEF IInv, Provided
<1>9. Transaction'
  BY <1>4 DEF IInv, Transaction
<1>10. QED
  BY <1>5, <1>6, <1>7, <1>8, <1>9 DEF IInv

(* The transaction of the base configuration fails, and will be undone.    *)
LEMMA BaseFailing ==
  ASSUME IInv, Installing, run.at \in {"conf", "marker"}, Types',
         UNCHANGED <<host, service, past>>,
         files' = files \/ files' = [files EXCEPT !["runtime"] = RuntimeText],
         run'.at = "undo_base", Standing, run'.did = {}, run'.faulted,
         run'.before \in SnapshotType,
         \/ run.at = "marker" /\ run'.before = run.before
         \/ run'.before.files = files
  PROVE  IInv'
<1>1. ~At("idle") /\ Place' = "undo_base" /\ Place = run.at
  BY DEF At, Place
<1>2. Process' /\ Written' /\ Served' /\ Cleared' /\ RepairsSucceed'
  BY MovingEarly DEF Early, Standing
<1>3. Kept'
  BY <1>1, RewritingRuntime, LeavingTheWorker DEF IInv, Deploying, Standing
<1>4. Provided' /\ FilesHaveAnOwner'
  BY <1>1 DEF IInv, Provided, FilesHaveAnOwner
<1>5. Transaction'
  BY DEF Transaction
<1>6. QED
  BY <1>2, <1>3, <1>4, <1>5 DEF IInv

LEMMA BaseConfigurationFailsKeeps ==
  ASSUME IInv, BaseConfigurationFails PROVE IInv'
<1>1. ASSUME Fault("conf"),
             files' \in {files, [files EXCEPT !["runtime"] = RuntimeText]},
             run' = [Struck EXCEPT !.at = "undo_base", !.before = Snapshot],
             UNCHANGED <<host, marker, service>>
      PROVE  IInv'
  <2>1. Installing /\ run.at = "conf" /\ past' = past
    BY <1>1, FaultIsTyped, Whose DEF IInv, InstallPhases
  <2>2. run.did = {}
    BY <2>1 DEF IInv, Transaction, Deploying, Concluding
  <2>3. /\ run' \in RunType /\ run'.at = "undo_base" /\ Standing
        /\ run'.before = Snapshot /\ run'.did = {} /\ run'.faulted
    BY <1>1, <2>2, SnapshotIsTyped
       DEF IInv, Types, RunType, Standing, Struck, InstallPhases
  <2>4. Types'
    BY <1>1, <2>1, <2>3, FaultIsTyped, RuntimeTextIsTyped DEF IInv, Types
  <2>5. QED
    BY <1>1, <2>1, <2>3, <2>4, SnapshotIsTyped, BaseFailing DEF IInv
<1>2. ASSUME Fault("marker"), marker' \in {marker, NewMarker},
             FaultedAt("undo_base"), UNCHANGED <<host, files, service>>
      PROVE  IInv'
  <2>1. Installing /\ run.at = "marker" /\ past' = past
    BY <1>2, FaultIsTyped, Whose DEF IInv, InstallPhases
  <2>2. run.did = {} /\ run.before \in SnapshotType
    BY <2>1 DEF IInv, Transaction, Deploying, Concluding
  <2>3. /\ run' \in RunType /\ run'.at = "undo_base" /\ Standing /\ Carrying
        /\ run'.faulted
    BY <1>2, Faulting DEF IInv, Phases, InstallPhases
  <2>4. Types'
    BY <1>2, <2>1, <2>3, FaultIsTyped, RuntimeTextIsTyped DEF IInv, Types
  <2>5. QED
    BY <1>2, <2>1, <2>2, <2>3, <2>4, BaseFailing DEF Carrying
<1>3. QED
  BY <1>1, <1>2 DEF BaseConfigurationFails

LEMMA UndoBaseKeeps == ASSUME IInv, UndoBase PROVE IInv'
<1>1. Installing /\ run.at = "undo_base" /\ ~At("idle")
  BY Whose DEF IInv, UndoBase, Phase, At, InstallPhases
<1>2. /\ UNCHANGED <<host, service, spent, past>>
      /\ marker' = run.before.marker
      /\ files' = [files EXCEPT !["runtime"] = run.before.files["runtime"]]
  BY DEF UndoBase, Phase
<1>3. run.before \in SnapshotType /\ run.faulted
  BY <1>1 DEF IInv, Transaction, Process, Undoing
<1>4. /\ run' \in RunType /\ run'.at = "idle" /\ run'.outcome = "failed"
      /\ Standing /\ run'.faulted = run.faulted
      /\ run'.before = None /\ run'.did = {}
  BY Finishing DEF IInv, UndoBase, Fail, Outcomes
<1>5. /\ files' \in FilesType /\ marker' \in MarkerType \cup {None}
      /\ files'["runtime"] = run.before.files["runtime"]
      /\ files'["users"] = files["users"] /\ files'["token"] = files["token"]
  BY <1>2, <1>3 DEF IInv, Types, FilesType, ManagedFiles, SnapshotType
<1>6. Types' /\ FilesHaveAnOwner'
  BY <1>2, <1>4, <1>5 DEF IInv, Types, FilesHaveAnOwner
<1>7. Process' /\ Provided' /\ Written' /\ Transaction' /\ Served' /\ Cleared'
  BY <1>3, <1>4, Stopping
<1>8. past.ran /\ run.req.telegram => files'["runtime"] = "telegram"
  BY <1>1, <1>5 DEF IInv, Kept, Holding, Loads
<1>9. Kept'
  BY <1>1, <1>2, <1>4, <1>5, <1>8, LeavingTheWorker DEF Standing, Deploying
<1>10. RepairsSucceed'
  BY <1>3, <1>4 DEF RepairsSucceed
<1>11. QED
  BY <1>6, <1>7, <1>9, <1>10 DEF IInv

(* An undo that fails itself: nothing is promised, and the run says so.    *)
Botched == [Idle EXCEPT !.req = run.req, !.identity = run.identity,
                        !.outcome = "failed", !.faulted = TRUE, !.botched = TRUE]
LEMMA Botching ==
  ASSUME IInv, NEW p, Fault(p), run' = Botched,
         host' = host, files' \in FilesType, marker' \in MarkerType \cup {None},
         service' \in ServiceType
  PROVE  IInv'
<1>1. 0 \in 0..3 /\ {} \in SUBSET {"unit", "enable", "start"}
  OBVIOUS
<1>2. run' \in RunType
  BY <1>1 DEF IInv, Types, RunType, Botched, Idle, Outcomes
<1>3. Types'
  BY <1>2, FaultIsTyped DEF IInv, Types
<1>4. /\ run'.at = "idle" /\ run'.outcome = "failed" /\ run'.did = {}
      /\ run'.faulted /\ run'.botched
  BY DEF Botched, Idle
<1>5. Process' /\ Provided' /\ Written' /\ Transaction' /\ Served' /\ Cleared'
  BY <1>4, Stopping
<1>6. Kept' /\ RepairsSucceed' /\ FilesHaveAnOwner'
  BY <1>4 DEF IInv, Kept, RepairsSucceed, FilesHaveAnOwner, At, BacksOut
<1>7. QED
  BY <1>3, <1>5, <1>6 DEF IInv

LEMMA UndoBaseFailsKeeps == ASSUME IInv, UndoBaseFails PROVE IInv'
<1>1. Fault("undo_base") /\ run' = Botched
  BY DEF UndoBaseFails, Botched
<1>2. run.before \in SnapshotType
  BY <1>1 DEF IInv, Transaction, Fault, At
<1>3. QED
  BY <1>1, <1>2, Botching DEF UndoBaseFails, IInv, Types, SnapshotType

LEMMA InstallToolKeeps ==
  ASSUME IInv, NEW t \in Tools, InstallTool(t) PROVE IInv'
<1>1. Installing /\ run.at = t /\ ~At("idle")
  BY Whose DEF IInv, InstallTool, Phase, At, InstallPhases, Tools
<1>2. UNCHANGED <<files, marker, service, spent, past>>
  BY DEF InstallTool, Phase
<1>3. /\ host' \in HostType /\ host'.roots = host.roots
      /\ host'.group = host.group /\ host'.user = host.user
      /\ host'.rule = host.rule /\ host'.broken = host.broken \ {t}
      /\ host'.trees = host.trees \cup {t}
      /\ host'.records = host.records \cup {t}
  BY DEF IInv, Types, HostType, InstallTool
<1>4. PICK q \in {"calendar", "inputs", "health"} :
        /\ Follower(run.at) = q
        /\ q = "calendar" => t = "taskwarrior"
        /\ q = "inputs" => run.req.telegram
        /\ q = "health" => ~run.req.telegram
        /\ q # "calendar" => t = "calendar" \/ ~run.req.calendar
  BY <1>1, InstallRoute DEF Tools
<1>5. /\ run' \in RunType /\ run'.at = q /\ Standing /\ Carrying
      /\ run'.did = {}
      /\ Process' /\ Written' /\ Served' /\ Cleared' /\ RepairsSucceed'
      /\ Kept'
  BY <1>1, <1>2, <1>3, <1>4, AdvancingEarly DEF Early, Tools, InstallTool
<1>6. Place = t /\ Place' = q
  BY <1>1, <1>4, <1>5 DEF Place, At
<1>7. /\ (ToolHealthy("taskwarrior"))'
      /\ q # "calendar" /\ run'.req.calendar => (ToolHealthy("calendar"))'
  BY <1>1, <1>3, <1>4, <1>5, <1>6
     DEF IInv, Provided, ToolHealthy, Tools, Standing
<1>8. Provided'
  <2>1. RuntimeText' = RuntimeText /\ NewMarker' = NewMarker
    BY <1>5 DEF RuntimeText, NewMarker, Standing
  <2>2. QED
    BY <1>1, <1>2, <1>3, <1>4, <1>6, <1>7, <2>1 DEF IInv, Provided, Tools
<1>9. Transaction'
  BY <1>1, <1>4, <1>5 DEF IInv, Transaction, Carrying, Tools
<1>10. Types' /\ FilesHaveAnOwner'
  BY <1>2, <1>3, <1>5 DEF IInv, Types, FilesHaveAnOwner
<1>11. QED
  BY <1>5, <1>8, <1>9, <1>10 DEF IInv

(* A refusal names the tool, and what was found of it is still there.      *)
LEMMA RefuseToolKeeps ==
  ASSUME IInv, NEW t \in Tools, RefuseTool(t) PROVE IInv'
<1>1. /\ Installing /\ run.at = t /\ ~At("idle") /\ Found(t)
      /\ UNCHANGED <<host, files, marker, service, spent, past>>
  BY Whose DEF IInv, RefuseTool, Phase, Keep, At, InstallPhases, Tools
<1>2. run.before = None /\ run.did = {}
  BY <1>1 DEF IInv, Transaction, Deploying, Concluding, Tools
<1>3. /\ run' \in RunType /\ run'.at = "idle" /\ run'.outcome = "failed"
      /\ Standing /\ run'.faulted = run.faulted /\ run'.refused = t
      /\ run'.before = None /\ run'.did = {}
  <2>1. t \in Tools \cup {"none"}
    OBVIOUS
  <2>2. QED
    BY <1>2, <2>1 DEF IInv, Types, RunType, RefuseTool, Standing, Outcomes
<1>4. Types'
  BY <1>1, <1>3 DEF IInv, Types
<1>5. RepairsSucceed'
  <2>1. Installing' /\ run'.refused = t /\ (Found(t))'
    BY <1>1, <1>3 DEF Installing, Standing, Found
  <2>2. QED
    BY <2>1 DEF RepairsSucceed
<1>6. QED
  BY <1>1, <1>3, <1>4, <1>5, GivingUp DEF Tools

LEMMA ToolFailsKeeps ==
  ASSUME IInv, NEW t \in Tools, ToolFails(t) PROVE IInv'
<1>1. Fault(t) /\ FaultEnds /\ UNCHANGED <<files, marker, service>>
  BY DEF ToolFails
<1>2. Installing /\ run.at = t /\ ~At("idle") /\ past' = past
  BY <1>1, FaultIsTyped, Whose DEF IInv, At, InstallPhases, Tools
<1>3. host' \in HostType /\ host'.roots = host.roots
      /\ host'.group = host.group /\ host'.user = host.user
  <2>1. CASE CutShort(t)
    BY <2>1, CutShortIsTyped DEF IInv
  <2>2. CASE host' = [host EXCEPT !.records = @ \cup {t}, !.confs = @ \cup {t}]
    BY <2>2 DEF IInv, Types, HostType
  <2>3. QED
    BY <2>1, <2>2 DEF ToolFails
<1>4. /\ run' \in RunType /\ run'.at = "idle" /\ run'.outcome = "failed"
      /\ Standing /\ run'.faulted /\ run'.before = None /\ run'.did = {}
  BY <1>1, FaultEnding DEF IInv
<1>5. Types'
  BY <1>1, <1>3, <1>4, FaultIsTyped DEF IInv, Types
<1>6. RepairsSucceed'
  BY <1>4 DEF RepairsSucceed
<1>7. QED
  BY <1>1, <1>2, <1>3, <1>4, <1>5, <1>6, GivingUp DEF Tools

-----------------------------------------------------------------------------
(* The Telegram part: what it keeps of what was provided before it.        *)
LEMMA Continuing ==
  ASSUME IInv, Installing, run.at \in AfterTools, run'.at \in AfterTools,
         Standing, run.faulted \/ run'.at \in Undoing => run'.faulted,
         UNCHANGED <<host, marker>>, files'["runtime"] = files["runtime"]
  PROVE  /\ Installing' /\ Place = run.at /\ Place' = run'.at /\ ~At("idle")
         /\ Process' /\ Provided' /\ Cleared' /\ FilesHaveAnOwner'
         /\ RepairsSucceed'
<1>1. /\ Installing' /\ Place = run.at /\ Place' = run'.at /\ ~At("idle")
      /\ ~(At("idle"))'
  BY DEF Installing, Standing, Place, At
<1>2. Process'
  BY <1>1 DEF IInv, Process, Standing, Ended, InstallPhases
<1>3. Provided'
  <2>1. RuntimeText' = RuntimeText /\ NewMarker' = NewMarker
    BY DEF RuntimeText, NewMarker, Standing
  <2>2. (ToolHealthy("taskwarrior"))' = ToolHealthy("taskwarrior")
        /\ (ToolHealthy("calendar"))' = ToolHealthy("calendar")
    BY DEF ToolHealthy
  <2>3. QED
    BY <1>1, <2>1, <2>2 DEF IInv, Provided, Standing
<1>4. Cleared' /\ FilesHaveAnOwner' /\ RepairsSucceed'
  BY <1>1 DEF IInv, Cleared, FilesHaveAnOwner, RepairsSucceed, Ended
<1>5. QED
  BY <1>1, <1>2, <1>3, <1>4

(* What a run knows of its identity while it connects and deploys.         *)
LEMMA Identified ==
  ASSUME IInv, Installing, run.at \in (Connecting \ {"inputs"}) \cup Deploying
  PROVE  /\ run.req.telegram /\ run.req.answered
         /\ run.identity \in Identities /\ run.identity # None
         /\ Place = run.at
<1>1. Place = run.at /\ run.at \notin {"idle", "onboard"}
  BY DEF Place, At, Connecting, Deploying
<1>2. QED
  BY <1>1, NoneIsDistinct DEF IInv, Written

LEMMA TextsKeep ==
  ASSUME Standing
  PROVE  \A f : (TextOf(f))' = TextOf(f)
BY DEF TextOf, Standing

LEMMA ResolveTelegramInputsKeeps ==
  ASSUME IInv, ResolveTelegramInputs PROVE IInv'
<1>1. Installing /\ run.at = "inputs" /\ ~At("idle")
  BY Whose DEF IInv, ResolveTelegramInputs, Phase, At, InstallPhases
<1>2. UNCHANGED <<host, files, marker, service, spent, past>>
  BY DEF ResolveTelegramInputs, Phase, Wait, Keep
<1>3. run.req.telegram /\ run.did = {} /\ run.before = None /\ run.written = 0
  BY <1>1 DEF IInv, Written, Transaction, Place, At, Connecting, Deploying,
     Concluding
<1>4. CASE run.req.answered /\ Advance
  <2>1. /\ run' \in RunType /\ run'.at = "persist" /\ Standing /\ Carrying
        /\ run'.faulted = run.faulted
    BY <1>1, <1>4, TelegramRoute, Advancing DEF IInv, Phases, InstallPhases
  <2>2. /\ Installing' /\ Place' = "persist"
        /\ Process' /\ Provided' /\ Cleared' /\ FilesHaveAnOwner'
        /\ RepairsSucceed'
    BY <1>1, <1>2, <2>1, Continuing DEF Undoing
  <2>3. Types'
    BY <1>2, <2>1 DEF IInv, Types
  <2>4. Written'
    <3>1. run'.identity \in Identities
      BY <1>1, <1>3, <1>4, <2>1 DEF IInv, Written, Place, At, Standing
    <3>2. QED
      BY <1>3, <1>4, <2>1, <2>2, <3>1
         DEF Written, Standing, Carrying, Connected, Deploying, Concluding
  <2>5. Transaction' /\ Served'
    BY <1>3, <2>1, <2>2
       DEF Transaction, Served, Carrying, Connected, Deploying, Concluding
  <2>6. Kept'
    BY <1>1, <1>2, <1>3, <2>1, LeavingTheWorker
       DEF Deploying, Standing, Carrying
  <2>7. QED
    BY <2>2, <2>3, <2>4, <2>5, <2>6 DEF IInv
<1>5. CASE ~run.req.answered /\ Wait
  <2>1. Finish("waiting") \/ Finish("failed")
    BY <1>5 DEF Wait
  <2>2. QED
    BY <1>1, <1>2, <1>3, <1>5, <2>1, RefusingEarly
<1>6. QED
  BY <1>4, <1>5 DEF ResolveTelegramInputs

(* Writing the file that is due: each file is its own, and leaves the      *)
(* worker's files good.                                                    *)
LEMMA TelegramOrder ==
  /\ TelegramFiles[1] = "runtime" /\ TelegramFiles[2] = "users"
  /\ TelegramFiles[3] = "token" /\ Len(TelegramFiles) = 3
BY DEF TelegramFiles

LEMMA Persisting ==
  ASSUME IInv, run.at = "persist", NEW n, n = run.written + 1,
         UNCHANGED host,
         files' \in {files, [files EXCEPT ![TelegramFiles[n]] =
                                            TextOf(TelegramFiles[n])]}
  PROVE  /\ n \in 1..3 /\ run.written \in 0..2
         /\ files' \in FilesType /\ files'["runtime"] = files["runtime"]
         /\ past.ran /\ Startable => Startable'
         /\ \A k \in 1..run.written : files'[TelegramFiles[k]] = TextOf(TelegramFiles[k])
         /\ files' # files => files'[TelegramFiles[n]] = TextOf(TelegramFiles[n])
<1>1. Installing
  BY Whose DEF IInv, InstallPhases
<1>2. run.written \in 0..2 /\ n \in 1..3
  BY DEF IInv, Types, RunType, Transaction
<1>3. /\ run.req.telegram /\ run.identity \in Identities /\ run.identity # None
      /\ Place = "persist"
  BY <1>1, Identified DEF Connecting
<1>4. files["runtime"] = "telegram"
  BY <1>1, <1>3 DEF IInv, Provided, RuntimeText
<1>5. /\ TelegramFiles[n] \in ManagedFiles
      /\ TextOf(TelegramFiles[n]) \in Texts(TelegramFiles[n])
      /\ TextOf("runtime") = "telegram"
      /\ TextOf("users") # None /\ TextOf("token") # None
      /\ \A k \in 1..run.written : TelegramFiles[k] \in ManagedFiles \ {TelegramFiles[n]}
  BY <1>2, <1>3, TelegramOrder DEF ManagedFiles, TextOf, Texts
<1>6. /\ files' \in FilesType
      /\ \A f \in ManagedFiles :
           \/ files'[f] = files[f]
           \/ f = TelegramFiles[n] /\ files'[f] = TextOf(f)
      /\ files' # files => files'[TelegramFiles[n]] = TextOf(TelegramFiles[n])
  <2>1. CASE files' = files
    BY <2>1 DEF IInv, Types
  <2>2. CASE files' = [files EXCEPT ![TelegramFiles[n]] = TextOf(TelegramFiles[n])]
    <3>1. /\ files' \in FilesType
          /\ \A h \in ManagedFiles \ {TelegramFiles[n]} : files'[h] = files[h]
          /\ files'[TelegramFiles[n]] = TextOf(TelegramFiles[n])
      <4>1. PICK f, text :
              /\ f \in ManagedFiles /\ text \in Texts(f)
              /\ f = TelegramFiles[n] /\ text = TextOf(TelegramFiles[n])
        BY <1>5
      <4>2. files' = [files EXCEPT ![f] = text]
        BY <2>2, <4>1
      <4>3. files \in FilesType
        BY DEF IInv, Types
      <4>4. /\ files' \in FilesType /\ files'[f] = text
            /\ \A h \in ManagedFiles \ {f} : files'[h] = files[h]
        <5>1. text \in {None, "plain", "telegram"} \cup Identities
          BY <4>1 DEF Texts
        <5>2. files' \in [ManagedFiles -> {None, "plain", "telegram"} \cup Identities]
          BY <4>1, <4>2, <4>3, <5>1 DEF FilesType
        <5>3. files'[f] = text /\ \A h \in ManagedFiles \ {f} : files'[h] = files[h]
          BY <4>1, <4>2, <4>3, <5>1 DEF FilesType
        <5>4. QED
          BY <4>1, <4>3, <5>2, <5>3 DEF FilesType
      <4>5. QED
        BY <4>1, <4>4
    <3>2. QED
      BY <3>1
  <2>3. QED
    BY <2>1, <2>2
<1>7. files'["runtime"] = files["runtime"]
  BY <1>4, <1>5, <1>6 DEF ManagedFiles
<1>8. Startable => Startable'
  BY <1>5, <1>6, <1>7 DEF Startable, ConfigurationLoads, DirectoriesUsable,
     SettingsLoad, UsersLoad, TokenLoads, ManagedFiles
<1>9. \A k \in 1..run.written : files[TelegramFiles[k]] = TextOf(TelegramFiles[k])
  BY <1>1, <1>3 DEF IInv, Written
<1>10. \A k \in 1..run.written : files'[TelegramFiles[k]] = TextOf(TelegramFiles[k])
  BY <1>5, <1>6, <1>9
<1>11. QED
  BY <1>2, <1>6, <1>7, <1>8, <1>10

(* What a run restores if it cannot finish its files.                      *)
LEMMA Remembering ==
  ASSUME IInv, Installing, run.at = "persist", UNCHANGED past,
         run'.before = IF run.written = 0 THEN Snapshot ELSE run.before
  PROVE  /\ run'.before \in SnapshotType
         /\ past.ran => Loads(run'.before.files)
         /\ past.agreed =>
              run'.before.files["users"] = run'.before.files["token"]
         /\ past.ran => Startable /\ service.state = "on"
<1>1. run.req.telegram /\ ~At("idle")
  BY Identified DEF Connecting, At
<1>2. run.written \in 0..2
  BY DEF IInv, Types, RunType, Transaction
<1>3. past.ran => Startable /\ service.state = "on"
  BY <1>1 DEF IInv, Kept, At
<1>4. CASE run.written = 0
  BY <1>1, <1>3, <1>4, SnapshotIsTyped
     DEF IInv, Kept, Holding, At, Agree, Loads, Startable, SettingsLoad,
         UsersLoad, TokenLoads
<1>5. CASE run.written > 0
  BY <1>1, <1>3, <1>5 DEF IInv, Kept, Holding, At, Transaction
<1>6. QED
  BY <1>2, <1>3, <1>4, <1>5

LEMMA WriteTelegramFileKeeps == ASSUME IInv, WriteTelegramFile PROVE IInv'
<1>1. Installing /\ run.at = "persist" /\ ~At("idle")
  BY Whose DEF IInv, WriteTelegramFile, Phase, At, InstallPhases
<1>2. UNCHANGED <<host, marker, service, spent, past>>
  BY DEF WriteTelegramFile, Phase
<1>3. CASE run.written = 0 /\ ReplacementRefused /\ Fail /\ UNCHANGED files
  BY <1>1, <1>2, <1>3, RefusingEarly DEF Fail, ReplacementRefused
<1>4. CASE ~(run.written = 0 /\ ReplacementRefused)
  <2> DEFINE n == run.written + 1
  <2>1. /\ files' = [files EXCEPT ![TelegramFiles[n]] = TextOf(TelegramFiles[n])]
        /\ run' = [run EXCEPT
                     !.before = IF n = 1 THEN Snapshot ELSE @,
                     !.written = n,
                     !.at = IF n = 3 THEN "validate" ELSE @]
    <3>1. Follower(run.at) = "validate" /\ Len(TelegramFiles) = 3
      BY <1>1, TelegramOrder, TelegramRoute
    <3>2. QED
      BY <1>4, <3>1 DEF WriteTelegramFile
  <2>2. /\ n \in 1..3 /\ run.written \in 0..2 /\ files' \in FilesType
        /\ files'["runtime"] = files["runtime"]
        /\ past.ran /\ Startable => Startable'
        /\ \A k \in 1..run.written :
             files'[TelegramFiles[k]] = TextOf(TelegramFiles[k])
    BY <1>1, <1>2, <2>1, Persisting
  <2>3. files'[TelegramFiles[n]] = TextOf(TelegramFiles[n])
    BY <2>1, <2>2, TelegramOrder DEF IInv, Types, FilesType, ManagedFiles
  <2>4. /\ run'.before = IF run.written = 0 THEN Snapshot ELSE run.before
        /\ run'.written = n /\ run'.did = run.did /\ Standing
        /\ run'.at = IF n = 3 THEN "validate" ELSE "persist"
        /\ run'.faulted = run.faulted
    BY <1>1, <2>1, <2>2 DEF IInv, Types, RunType, Standing
  <2>5. /\ run'.before \in SnapshotType
        /\ past.ran => Loads(run'.before.files)
        /\ past.agreed =>
             run'.before.files["users"] = run'.before.files["token"]
        /\ past.ran => Startable /\ service.state = "on"
    BY <1>1, <1>2, <2>4, Remembering
  <2>6. run' \in RunType
    <3>1. n \in 0..3 /\ (IF n = 3 THEN "validate" ELSE run.at) \in InstallPhases
      BY <1>1, <2>2 DEF InstallPhases
    <3>2. (IF n = 1 THEN Snapshot ELSE run.before) \in SnapshotType \cup {None}
      BY SnapshotIsTyped DEF IInv, Types, RunType
    <3>3. run \in RunType
      BY DEF IInv, Types
    <3>4. QED
      BY <2>1, <3>1, <3>2, <3>3, RunIsTyped
  <2>7. Types'
    BY <1>2, <2>2, <2>6 DEF IInv, Types
  <2>8. /\ Installing' /\ Place' = run'.at
        /\ Process' /\ Provided' /\ Cleared' /\ FilesHaveAnOwner'
        /\ RepairsSucceed'
    BY <1>1, <1>2, <2>2, <2>4, Continuing DEF Undoing
  <2>9. \A k \in 1..n : files'[TelegramFiles[k]] = (TextOf(TelegramFiles[k]))'
    BY <2>2, <2>3, <2>4, TextsKeep
  <2>10. Written'
    <3>1. n = 3 => \A f \in ManagedFiles : files'[f] = (TextOf(f))'
      BY <2>9, TelegramOrder DEF ManagedFiles
    <3>2. run'.req.telegram /\ run'.req.answered /\ run'.identity \in Identities
      BY <1>1, <2>4, Identified DEF Connecting, Standing
    <3>3. QED
      BY <2>4, <2>8, <2>9, <3>1, <3>2
         DEF Written, Connected, Deploying, Concluding
  <2>11. run.did = {}
    BY <1>1 DEF IInv, Transaction, Deploying, Concluding
  <2>12. Transaction' /\ Served'
    BY <2>2, <2>4, <2>5, <2>8, <2>11
       DEF Transaction, Served, Connected, Deploying, Concluding
  <2>13. Kept'
    BY <1>2, <2>2, <2>4, <2>5 DEF Kept, Holding, At, Deploying
  <2>14. QED
    BY <2>7, <2>8, <2>10, <2>12, <2>13 DEF IInv
<1>5. QED
  BY <1>3, <1>4 DEF WriteTelegramFile

LEMMA WriteTelegramFailsKeeps == ASSUME IInv, WriteTelegramFails PROVE IInv'
<1>1. Fault("persist") /\ UNCHANGED <<host, marker, service>>
  BY DEF WriteTelegramFails
<1>2. Installing /\ run.at = "persist" /\ ~At("idle") /\ past' = past
  BY <1>1, FaultIsTyped, Whose DEF IInv, At, InstallPhases
<1>3. /\ files' \in FilesType /\ files'["runtime"] = files["runtime"]
      /\ past.ran /\ Startable => Startable'
  <2>1. files' \in {files, [files EXCEPT ![TelegramFiles[run.written + 1]] =
                              TextOf(TelegramFiles[run.written + 1])]}
    BY DEF WriteTelegramFails
  <2>2. QED
    BY <1>1, <1>2, <2>1, Persisting
<1>4. /\ run'.before = IF run.written = 0 THEN Snapshot ELSE run.before
      /\ run'.did = run.did /\ Standing /\ run'.at = "undo_telegram"
      /\ run'.faulted
  BY DEF IInv, Types, RunType, WriteTelegramFails, Struck, Standing
<1>5. /\ run'.before \in SnapshotType
      /\ past.ran => Loads(run'.before.files)
      /\ past.agreed => run'.before.files["users"] = run'.before.files["token"]
      /\ past.ran => Startable /\ service.state = "on"
  BY <1>2, <1>4, Remembering
<1>6. run' \in RunType
  <2>1. run \in RunType /\ "undo_telegram" \in InstallPhases
    BY DEF IInv, Types, InstallPhases
  <2>2. (IF run.written = 0 THEN Snapshot ELSE run.before) \in SnapshotType \cup {None}
    BY <2>1, SnapshotIsTyped DEF IInv, RunType
  <2>3. run' = [run EXCEPT !.faulted = TRUE, !.at = "undo_telegram",
                  !.before = IF run.written = 0 THEN Snapshot ELSE run.before]
    BY <2>1 DEF WriteTelegramFails, Struck, RunType
  <2> DEFINE before == IF run.written = 0 THEN Snapshot ELSE run.before
             struck == [run EXCEPT !.faulted = TRUE]
             parked == [struck EXCEPT !.at = "undo_telegram"]
  <2>4. struck \in RunType
    BY <2>1 DEF RunType
  <2>5. parked \in RunType
    BY <2>1, <2>4 DEF RunType
  <2>6. before \in SnapshotType \cup {None}
    BY <2>2
  <2>7. run' = [parked EXCEPT !.before = before]
    BY <2>1, <2>3 DEF RunType
  <2> HIDE DEF before, parked
  <2>8. QED
    BY <2>5, <2>6, <2>7 DEF RunType
<1>7. Types'
  BY <1>1, <1>2, <1>3, <1>6, FaultIsTyped DEF IInv, Types
<1>8. /\ Installing' /\ Place' = run'.at
      /\ Process' /\ Provided' /\ Cleared' /\ FilesHaveAnOwner'
      /\ RepairsSucceed'
  BY <1>1, <1>2, <1>3, <1>4, Continuing
<1>9. Written'
  <2>1. run'.req.telegram /\ run'.req.answered /\ run'.identity \in Identities
    BY <1>2, <1>4, Identified DEF Connecting, Standing
  <2>2. QED
    BY <1>4, <1>8, <2>1 DEF Written, Connected, Deploying, Concluding
<1>10. run.did = {}
  BY <1>2 DEF IInv, Transaction, Deploying, Concluding
<1>11. Transaction' /\ Served'
  BY <1>4, <1>5, <1>8, <1>10
     DEF Transaction, Served, Connected, Deploying, Concluding
<1>12. Kept'
  BY <1>1, <1>2, <1>3, <1>4, <1>5 DEF Kept, Holding, At, Deploying
<1>13. QED
  BY <1>7, <1>8, <1>9, <1>11, <1>12 DEF IInv

(* Once the files are written, a worker can start with them.               *)
LEMMA FilesAreReady ==
  ASSUME IInv, Installing,
         Connected \/ run.at \in {"validate", "query"}
  PROVE  /\ \A f \in ManagedFiles : files[f] = TextOf(f)
         /\ Startable /\ Agree /\ files["users"] \in Identities
         /\ run.req.telegram /\ run.req.answered /\ run.identity \in Identities
<1>1. \/ Connected
      \/ Place \in {"validate", "query"} /\ Place = run.at
  BY DEF Place, At
<1>2. run.req.telegram /\ run.req.answered /\ run.identity \in Identities
      /\ run.identity # None /\ Place \in AfterTools
  BY <1>1, NoneIsDistinct DEF IInv, Written, Connected, Connecting, Deploying,
     Concluding
<1>3. \A f \in ManagedFiles : files[f] = TextOf(f)
  BY <1>1 DEF IInv, Written
<1>4. /\ files["runtime"] = "telegram" /\ files["users"] = run.identity
      /\ files["token"] = run.identity
  BY <1>3 DEF ManagedFiles, TextOf
<1>5. DirectoriesUsable
  BY <1>2 DEF IInv, Provided, DirectoriesUsable
<1>6. Startable /\ Agree
  BY <1>2, <1>4, <1>5, NoneIsDistinct DEF Startable, ConfigurationLoads,
     SettingsLoad, UsersLoad, TokenLoads, Agree
<1>7. QED
  BY <1>2, <1>3, <1>4, <1>6

LEMMA ValidateGeneratedFilesKeeps ==
  ASSUME IInv, ValidateGeneratedFiles PROVE IInv'
<1>1. Installing /\ run.at = "validate" /\ ~At("idle")
  BY Whose DEF IInv, ValidateGeneratedFiles, Phase, At, InstallPhases
<1>2. UNCHANGED <<host, files, marker, service, spent, past>>
  BY DEF ValidateGeneratedFiles, Phase, Keep
<1>3. /\ \A f \in ManagedFiles : files[f] = TextOf(f)
      /\ run.req.telegram /\ run.req.answered /\ run.identity \in Identities
  BY <1>1, FilesAreReady
<1>4. Commit
  BY <1>1, FilesAreReady DEF ValidateGeneratedFiles, GeneratedFilesValid
<1>5. run.did = {}
  BY <1>1 DEF IInv, Transaction, Deploying, Concluding
<1>6. /\ run' \in RunType /\ run'.at = "query" /\ Standing /\ run'.did = {}
      /\ run'.faulted = run.faulted
  BY <1>1, <1>4, <1>5, TelegramRoute, Committing DEF IInv, Phases, InstallPhases
<1>7. /\ Installing' /\ Place' = run'.at
      /\ Process' /\ Provided' /\ Cleared' /\ FilesHaveAnOwner'
      /\ RepairsSucceed'
  BY <1>1, <1>2, <1>6, Continuing DEF Undoing
<1>8. Types'
  BY <1>2, <1>6 DEF IInv, Types
<1>9. Written'
  BY <1>2, <1>3, <1>6, <1>7, TextsKeep DEF Written, Standing
<1>10. Transaction' /\ Served'
  BY <1>6, <1>7 DEF Transaction, Served, Connected, Deploying, Concluding
<1>11. Kept'
  BY <1>1, <1>2, <1>6, LeavingTheWorker DEF Deploying, Standing
<1>12. QED
  BY <1>7, <1>8, <1>9, <1>10, <1>11 DEF IInv

LEMMA ValidationFailsKeeps == ASSUME IInv, ValidationFails PROVE IInv'
<1>1. Fault("validate") /\ UNCHANGED <<host, files, marker, service>>
  BY DEF ValidationFails, Keep
<1>2. Installing /\ run.at = "validate" /\ ~At("idle") /\ past' = past
  BY <1>1, FaultIsTyped, Whose DEF IInv, At, InstallPhases
<1>3. /\ run.req.telegram /\ run.req.answered /\ run.identity \in Identities
      /\ Startable
  BY <1>2, FilesAreReady
<1>4. run.did = {} /\ run.before \in SnapshotType
  BY <1>2 DEF IInv, Transaction, Deploying, Concluding
<1>5. /\ run' \in RunType /\ run'.at = "undo_telegram" /\ Standing /\ Carrying
      /\ run'.faulted
  BY Faulting DEF IInv, ValidationFails, Phases, InstallPhases
<1>6. /\ Installing' /\ Place' = run'.at
      /\ Process' /\ Provided' /\ Cleared' /\ FilesHaveAnOwner'
      /\ RepairsSucceed'
  BY <1>1, <1>2, <1>5, Continuing
<1>7. Types'
  BY <1>1, <1>2, <1>5, FaultIsTyped DEF IInv, Types
<1>8. Written'
  BY <1>3, <1>5, <1>6
     DEF Written, Connected, Deploying, Concluding, Standing
<1>9. Transaction' /\ Served'
  BY <1>4, <1>5, <1>6
     DEF Transaction, Served, Connected, Deploying, Concluding, Carrying
<1>10. Kept'
  <2>1. Startable'
    BY <1>1, <1>3 DEF Startable, ConfigurationLoads, DirectoriesUsable,
       SettingsLoad, UsersLoad, TokenLoads
  <2>2. /\ past.ran => service.state = "on" /\ Loads(run.before.files)
        /\ past.agreed => run.before.files["users"] = run.before.files["token"]
    BY <1>2, <1>3 DEF IInv, Kept, Holding, At
  <2>3. QED
    BY <1>1, <1>2, <1>5, <2>1, <2>2 DEF Kept, Deploying, Carrying, Holding
<1>11. QED
  BY <1>6, <1>7, <1>8, <1>9, <1>10 DEF IInv

LEMMA UndoTelegramKeeps == ASSUME IInv, UndoTelegram PROVE IInv'
<1>1. Installing /\ run.at = "undo_telegram" /\ ~At("idle")
  BY Whose DEF IInv, UndoTelegram, Phase, At, InstallPhases
<1>2. /\ UNCHANGED <<host, marker, service, spent, past>>
      /\ files' = run.before.files
  BY DEF UndoTelegram, Phase
<1>3. run.before \in SnapshotType /\ run.faulted
  BY <1>1 DEF IInv, Transaction, Process, Undoing
<1>4. /\ run' \in RunType /\ run'.at = "idle" /\ run'.outcome = "failed"
      /\ Standing /\ run'.faulted = run.faulted
      /\ run'.before = None /\ run'.did = {}
  BY Finishing DEF IInv, UndoTelegram, Fail, Outcomes
<1>5. Types' /\ FilesHaveAnOwner'
  BY <1>2, <1>3, <1>4 DEF IInv, Types, SnapshotType, FilesHaveAnOwner
<1>6. Process' /\ Provided' /\ Written' /\ Transaction' /\ Served' /\ Cleared'
  BY <1>3, <1>4, Stopping
<1>7. RepairsSucceed'
  BY <1>3, <1>4 DEF RepairsSucceed
<1>8. run.req.telegram
  BY <1>1, Identified DEF Connecting
<1>9. Kept'
  <2>1. /\ past.ran => /\ Startable /\ service.state = "on"
                       /\ Loads(run.before.files)
        /\ past.agreed => run.before.files["users"] = run.before.files["token"]
    BY <1>1, <1>8 DEF IInv, Kept, Holding, At
  <2>2. past'.ran => Startable' /\ service'.state = "on"
    BY <1>2, <2>1, NoneIsDistinct DEF Loads, Startable, ConfigurationLoads,
       DirectoriesUsable, SettingsLoad, UsersLoad, TokenLoads
  <2>3. past'.agreed => Agree'
    BY <1>2, <2>1 DEF Agree
  <2>4. ~Holding' /\ run'.at \notin Deploying
    BY <1>4 DEF Holding, At, Deploying
  <2>5. QED
    BY <2>2, <2>3, <2>4 DEF Kept
<1>10. QED
  BY <1>5, <1>6, <1>7, <1>9 DEF IInv

LEMMA UndoTelegramFailsKeeps == ASSUME IInv, UndoTelegramFails PROVE IInv'
<1>1. Fault("undo_telegram") /\ run' = Botched
  BY DEF UndoTelegramFails, Botched
<1>2. run.before.files \in FilesType /\ files \in FilesType
  BY <1>1 DEF IInv, Types, Transaction, Fault, At, SnapshotType
<1>3. files' \in FilesType
  BY <1>2 DEF UndoTelegramFails, FilesType
<1>4. QED
  BY <1>1, <1>3, Botching DEF UndoTelegramFails, IInv, Types

-----------------------------------------------------------------------------
(* The deployment: it leaves the host, the files and the record alone.     *)
LEMMA DeployingOn ==
  ASSUME IInv, Installing, run.at \in Deploying \cup {"query"},
         run'.at \in Deploying, Standing,
         run.faulted \/ run'.at \in Undoing => run'.faulted,
         run'.before \in SnapshotType,
         UNCHANGED <<host, files, marker, past>>
  PROVE  /\ Installing' /\ Place = run.at /\ Place' = run'.at
         /\ Connected' /\ run.req.telegram
         /\ Process' /\ Provided' /\ Written' /\ Cleared' /\ FilesHaveAnOwner'
         /\ RepairsSucceed'
         /\ Startable /\ Startable' /\ Agree'
         /\ past.ran => \/ service.state = "on"
                        \/ run.at = "undo_service"
                           /\ (UnitDiffers \/ "start" \in run.did)
         /\ past.ran /\ run.at # "query" => WasActive
<1>1. /\ Installing' /\ Place = run.at /\ Place' = run'.at /\ ~At("idle")
      /\ Process' /\ Provided' /\ Cleared' /\ FilesHaveAnOwner'
      /\ RepairsSucceed'
  BY Continuing DEF Deploying
<1>2. run.req.telegram
  BY Identified DEF Connecting
<1>3. Connected \/ run.at = "query"
  BY <1>1, <1>2 DEF Connected
<1>4. /\ \A f \in ManagedFiles : files[f] = TextOf(f)
      /\ Startable /\ Agree
      /\ run.req.telegram /\ run.req.answered /\ run.identity \in Identities
  BY <1>3, FilesAreReady
<1>5. Startable' /\ Agree'
  BY <1>4 DEF Startable, ConfigurationLoads, DirectoriesUsable, SettingsLoad,
     UsersLoad, TokenLoads, Agree
<1>6. Connected'
  BY <1>1, <1>4 DEF Connected, Standing
<1>7. Written'
  <2>1. \A f \in ManagedFiles : files'[f] = (TextOf(f))'
    BY <1>4, TextsKeep
  <2>2. run'.req.telegram /\ run'.req.answered /\ run'.identity \in Identities
    BY <1>4 DEF Standing
  <2>3. Place' # "persist"
    BY <1>1 DEF Deploying
  <2>4. QED
    BY <2>1, <2>2, <2>3 DEF Written
<1>8. /\ past.ran => \/ service.state = "on"
                     \/ run.at = "undo_service"
                        /\ (UnitDiffers \/ "start" \in run.did)
      /\ past.ran /\ run.at # "query" => WasActive
  BY <1>1, <1>2 DEF IInv, Kept, At
<1>9. QED
  BY <1>1, <1>2, <1>4, <1>5, <1>6, <1>7, <1>8

(* The worker, once more: kept by a step of the deployment.                *)
LEMMA KeptDeploying ==
  ASSUME run'.at \in Deploying, Startable', Agree', past' = past,
         past.ran => /\ WasActive'
                     /\ \/ service'.state = "on"
                        \/ run'.at = "undo_service"
                           /\ (UnitDiffers' \/ "start" \in run'.did)
  PROVE  Kept'
<1>1. ~Holding' /\ ~(run'.at \in {"persist", "validate", "undo_telegram"})
  BY DEF Holding, At, Deploying
<1>2. QED
  BY <1>1 DEF Kept, At

LEMMA QueryServiceKeeps == ASSUME IInv, QueryService PROVE IInv'
<1>1. Installing /\ run.at = "query" /\ ~At("idle")
  BY Whose DEF IInv, QueryService, Phase, At, InstallPhases
<1>2. UNCHANGED <<host, files, marker, service, spent, past>>
  BY DEF QueryService, Phase, Keep
<1>3. CASE ~run.req.approved /\ Fail
  BY <1>1, <1>2, <1>3, RefusingEarly DEF Fail
<1>4. CASE run' = [run EXCEPT !.at = Follower(@), !.before = Snapshot]
  <2>1. run.did = {}
    BY <1>1 DEF IInv, Transaction, Deploying, Concluding
  <2>2. /\ run' \in RunType /\ run'.at = "unit" /\ Standing
        /\ run'.before = Snapshot /\ run'.did = {} /\ run'.faulted = run.faulted
    BY <1>1, <1>4, <2>1, TelegramRoute, SnapshotIsTyped
       DEF IInv, Types, RunType, Standing, InstallPhases
  <2>3. /\ Installing' /\ Place' = run'.at /\ Connected'
        /\ Process' /\ Provided' /\ Written' /\ Cleared' /\ FilesHaveAnOwner'
        /\ RepairsSucceed' /\ Startable' /\ Agree'
        /\ past.ran => service.state = "on"
        /\ run.req.telegram
    BY <1>1, <1>2, <2>2, SnapshotIsTyped, DeployingOn
       DEF IInv, Deploying, Undoing
  <2>4. Types'
    BY <1>2, <2>2 DEF IInv, Types
  <2>5. WasActive' = (service.state = "on")
    BY <2>2, SnapshotIsTyped DEF IInv, WasActive
  <2>6. Kept'
    BY <1>2, <2>2, <2>3, <2>5, KeptDeploying DEF Deploying
  <2>7. Transaction'
    BY <2>2, SnapshotIsTyped DEF IInv, Transaction
  <2>8. Served'
    BY <1>2, <2>2, <2>3, <2>5 DEF Served, Concluding, Connected, Deploying
  <2>9. QED
    BY <2>3, <2>4, <2>6, <2>7, <2>8 DEF IInv
<1>5. QED
  BY <1>3, <1>4, Requested DEF QueryService, IInv

LEMMA Doing ==
  ASSUME Types, NEW what \in {"unit", "enable", "start"}, Did(what) \/ Advance,
         Follower(run.at) \in Phases
  PROVE  /\ run' \in RunType /\ run'.at = Follower(run.at) /\ Standing
         /\ run'.before = run.before
         /\ run'.faulted = run.faulted
         /\ run'.did \in {run.did, run.did \cup {what}}
         /\ Did(what) => run'.did = run.did \cup {what}
         /\ ~Did(what) => run'.did = run.did
<1>1. run.did \cup {what} \in SUBSET {"unit", "enable", "start"}
  BY DEF Types, RunType
<1>2. CASE Did(what)
  BY <1>1, <1>2 DEF Types, RunType, Did, Standing, Phases
<1>3. CASE ~Did(what)
  BY <1>3, Advancing DEF Carrying
<1>4. QED
  BY <1>2, <1>3

LEMMA SameTransaction ==
  ASSUME Standing, run'.before = run.before
  PROVE  UnitDiffers' = UnitDiffers /\ WasActive' = WasActive
BY DEF Standing, UnitDiffers, WasActive

LEMMA InstallUnitKeeps == ASSUME IInv, InstallUnit PROVE IInv'
<1>1. Installing /\ run.at = "unit" /\ ~At("idle")
  BY Whose DEF IInv, InstallUnit, Phase, At, InstallPhases
<1>2. /\ UNCHANGED <<host, files, marker, spent, past>>
      /\ service' = [service EXCEPT !.unit = run.req.release]
  BY DEF InstallUnit, Phase
<1>3. run.did = {} /\ run.before \in SnapshotType
  BY <1>1 DEF IInv, Transaction
<1>4. /\ run' \in RunType /\ run'.at = "enable" /\ Standing
      /\ run'.before = run.before
      /\ run'.faulted = run.faulted /\ run'.did \in {{}, {"unit"}}
  BY <1>1, <1>3, Doing, TelegramRoute
     DEF IInv, InstallUnit, Phases, InstallPhases
<1>5. /\ Installing' /\ Place = run.at /\ Place' = run'.at /\ Connected'
      /\ Process' /\ Provided' /\ Written' /\ Cleared' /\ FilesHaveAnOwner'
      /\ RepairsSucceed' /\ Startable' /\ Agree'
      /\ past.ran => WasActive /\ service.state = "on"
  BY <1>1, <1>2, <1>3, <1>4, DeployingOn DEF Deploying, Undoing
<1>6. /\ service' \in ServiceType /\ service'.unit = run'.req.release
      /\ service'.state = service.state
  BY <1>1, <1>2, <1>4, Requested DEF IInv, Types, ServiceType, Standing
<1>7. Types'
  BY <1>2, <1>4, <1>6 DEF IInv, Types
<1>8. Kept'
  BY <1>2, <1>4, <1>5, <1>6, SameTransaction, KeptDeploying DEF Deploying
<1>9. Transaction'
  BY <1>3, <1>4 DEF Transaction, Deploying
<1>10. Served'
  BY <1>1, <1>4, <1>5, <1>6, SameTransaction
     DEF IInv, Served, Concluding
<1>11. QED
  BY <1>5, <1>7, <1>8, <1>9, <1>10 DEF IInv

LEMMA EnableServiceKeeps == ASSUME IInv, EnableService PROVE IInv'
<1>1. Installing /\ run.at = "enable" /\ ~At("idle")
  BY Whose DEF IInv, EnableService, Phase, At, InstallPhases
<1>2. /\ UNCHANGED <<host, files, marker, spent, past>>
      /\ service' = [service EXCEPT !.enabled = TRUE]
  BY DEF EnableService, Phase
<1>3. run.did \subseteq {"unit"} /\ run.before \in SnapshotType
  BY <1>1 DEF IInv, Transaction
<1>4. /\ run' \in RunType /\ run'.at = "start" /\ Standing
      /\ run'.before = run.before
      /\ run'.faulted = run.faulted /\ run'.did \subseteq {"unit", "enable"}
  BY <1>1, <1>3, Doing, TelegramRoute
     DEF IInv, EnableService, Phases, InstallPhases
<1>5. /\ Installing' /\ Place = run.at /\ Place' = run'.at /\ Connected'
      /\ Process' /\ Provided' /\ Written' /\ Cleared' /\ FilesHaveAnOwner'
      /\ RepairsSucceed' /\ Startable' /\ Agree' /\ run.req.telegram
      /\ past.ran => WasActive /\ service.state = "on"
  BY <1>1, <1>2, <1>3, <1>4, DeployingOn DEF Deploying, Undoing
<1>6. /\ service' \in ServiceType /\ service'.unit = service.unit
      /\ service'.state = service.state /\ service'.enabled
  BY <1>2 DEF IInv, Types, ServiceType
<1>7. service.unit = run.req.release
  BY <1>1, <1>5 DEF IInv, Served, Connected, Deploying
<1>8. Types'
  BY <1>2, <1>4, <1>6 DEF IInv, Types
<1>9. Kept'
  BY <1>2, <1>4, <1>5, <1>6, SameTransaction, KeptDeploying DEF Deploying
<1>10. Transaction'
  BY <1>3, <1>4 DEF Transaction, Deploying
<1>11. Served'
  BY <1>1, <1>4, <1>5, <1>6, <1>7, SameTransaction
     DEF IInv, Served, Concluding, Standing
<1>12. QED
  BY <1>5, <1>8, <1>9, <1>10, <1>11 DEF IInv

LEMMA RunningIsTyped ==
  ASSUME Types
  PROVE  /\ Running \in ServiceType /\ Running.unit = service.unit
         /\ Running.enabled = service.enabled /\ Running.state = "on"
         /\ Running.loaded = Loaded /\ Loaded \in LoadedType
<1>1. Loaded \in LoadedType
  BY DEF Types, FilesType, Texts, ManagedFiles, Loaded, LoadedType
<1>2. QED
  BY <1>1 DEF Types, ServiceType, Running

LEMMA StartServiceKeeps == ASSUME IInv, StartService PROVE IInv'
<1>1. Installing /\ run.at = "start" /\ ~At("idle")
  BY Whose DEF IInv, StartService, Phase, At, InstallPhases
<1>2. /\ UNCHANGED <<host, files, marker, spent, past>>
      /\ \/ WasActive /\ ~UnitDiffers /\ Advance /\ UNCHANGED service
         \/ Did("start") /\ service' = Running
  BY DEF StartService, Phase
<1>3. run.did \subseteq {"unit", "enable"} /\ run.before \in SnapshotType
  BY <1>1 DEF IInv, Transaction
<1>4. /\ run' \in RunType /\ run'.at = "verify" /\ Standing
      /\ run'.before = run.before /\ run'.faulted = run.faulted
  BY <1>1, <1>2, Doing, TelegramRoute DEF IInv, Phases, InstallPhases
<1>5. /\ Installing' /\ Place = run.at /\ Place' = run'.at /\ Connected'
      /\ Process' /\ Provided' /\ Written' /\ Cleared' /\ FilesHaveAnOwner'
      /\ RepairsSucceed' /\ Startable' /\ Agree' /\ run.req.telegram
      /\ past.ran => WasActive /\ service.state = "on"
  BY <1>1, <1>2, <1>3, <1>4, DeployingOn DEF Deploying, Undoing
<1>6. service.unit = run.req.release /\ service.enabled
  BY <1>1, <1>5 DEF IInv, Served, Connected, Deploying
<1>7. WasActive => service.state = "on"
  BY <1>1, <1>5 DEF IInv, Served
<1>8. /\ service' \in ServiceType /\ service'.unit = service.unit
      /\ service'.state = "on" /\ service'.enabled
      /\ "start" \in run'.did => service'.loaded = Loaded
  <2>1. CASE WasActive /\ ~UnitDiffers /\ Advance /\ UNCHANGED service
    <3>1. Carrying
      BY <1>1, <2>1, TelegramRoute, Advancing DEF IInv, Phases, InstallPhases
    <3>2. QED
      BY <1>3, <1>6, <1>7, <2>1, <3>1 DEF IInv, Types, Carrying
  <2>2. CASE service' = Running
    BY <1>6, <2>2, RunningIsTyped DEF IInv
  <2>3. QED
    BY <1>2, <2>1, <2>2
<1>9. Types'
  BY <1>2, <1>4, <1>8 DEF IInv, Types
<1>10. Kept'
  BY <1>2, <1>4, <1>5, <1>8, SameTransaction, KeptDeploying DEF Deploying
<1>11. Transaction'
  BY <1>3, <1>4, <1>5 DEF Transaction, Deploying, Standing
<1>12. Served'
  <2>1. Loaded' = Loaded
    BY <1>2 DEF Loaded
  <2>2. QED
    BY <1>4, <1>5, <1>6, <1>8, <2>1 DEF Served, Concluding, Standing
<1>13. QED
  BY <1>5, <1>9, <1>10, <1>11, <1>12 DEF IInv

(* The deployment is left, and the run concludes.                          *)
LEMMA ConcludingOn ==
  ASSUME IInv, Installing, run.at \in {"verify", "health", "acceptance"},
         run' \in RunType, run'.at \in Concluding, Standing,
         run'.did \subseteq run.did, run'.faulted = run.faulted,
         UNCHANGED <<host, files, marker, service, spent, past>>
  PROVE  IInv'
<1>1. /\ Installing' /\ Place = run.at /\ Place' = run'.at /\ ~At("idle")
      /\ Process' /\ Provided' /\ Cleared' /\ FilesHaveAnOwner'
      /\ RepairsSucceed'
  BY Continuing DEF Concluding, Undoing
<1>2. Types'
  BY DEF IInv, Types
<1>3. /\ run.at = "verify" => run.req.telegram
      /\ run'.req = run.req /\ Connected' = run.req.telegram
      /\ Connected = run.req.telegram
  BY <1>1, Identified, Requested
     DEF IInv, Deploying, Concluding, Connected, Standing
<1>4. Written'
  <2>1. Connected =>
          /\ \A f \in ManagedFiles : files'[f] = (TextOf(f))'
          /\ run.req.answered
    BY FilesAreReady, TextsKeep
  <2>2. run.req.telegram /\ run.req.answered => run'.identity \in Identities
    BY <1>1 DEF IInv, Written, Standing
  <2>3. Place' \notin Connecting \cup Deploying
        /\ Place' \notin {"persist", "validate", "query"}
    BY <1>1 DEF Concluding, Connecting, Deploying
  <2>4. QED
    BY <1>3, <2>1, <2>2, <2>3 DEF Written
<1>5. Transaction'
  BY <1>1, <1>3 DEF IInv, Transaction, Concluding
<1>6. Served'
  <2>1. Loaded' = Loaded
    BY DEF Loaded
  <2>2. QED
    BY <1>1, <1>3, <2>1 DEF IInv, Served, Concluding
<1>7. Kept'
  BY <1>1, LeavingTheWorker DEF Deploying, Concluding, Standing
<1>8. QED
  BY <1>1, <1>2, <1>4, <1>5, <1>6, <1>7 DEF IInv

LEMMA VerifyServiceKeeps == ASSUME IInv, VerifyService PROVE IInv'
<1>1. Installing /\ run.at = "verify"
  BY Whose DEF IInv, VerifyService, Phase, At, InstallPhases
<1>2. Established
  BY <1>1, Identified
     DEF IInv, Served, Connected, Established, Deploying
<1>3. Commit /\ UNCHANGED <<host, files, marker, service, spent, past>>
  BY <1>2 DEF VerifyService, Phase, Keep
<1>4. /\ run' \in RunType /\ run'.at = "health" /\ Standing
      /\ run'.faulted = run.faulted /\ run'.did \subseteq run.did
  BY <1>1, <1>3, TelegramRoute, Committing DEF IInv, Phases, InstallPhases
<1>5. QED
  BY <1>1, <1>3, <1>4, ConcludingOn DEF Concluding

(* What a run provided is what its health check asks for.                  *)
LEMMA HealthIsGood ==
  ASSUME IInv, Installing, run.at = "health"
  PROVE  Healthy
<1>1. Place = "health"
  BY DEF Place, At
<1>2. /\ host.group /\ host.user /\ marker = NewMarker
      /\ {"configuration", "state", "logs"} \subseteq host.roots
      /\ "audit" \in host.roots
      /\ files["runtime"] = RuntimeText
      /\ ToolHealthy("taskwarrior")
      /\ run.req.calendar => ToolHealthy("calendar")
  BY <1>1 DEF IInv, Provided
<1>3. host.roots = RootNames
  BY <1>2 DEF IInv, Types, HostType, RootNames
<1>4. marker # None /\ files["runtime"] # None
  BY <1>2, NoneIsDistinct, RuntimeTextIsTyped DEF IInv, RuntimeText
<1>5. RuntimeHealthy
  BY <1>2, <1>3, <1>4 DEF RuntimeHealthy, Readable, DirectoriesUsable,
     ConfigurationLoads
<1>6. run.req.telegram => TelegramHealthy
  <2>1. SUFFICES ASSUME run.req.telegram PROVE TelegramHealthy
    OBVIOUS
  <2>2. Connected
    BY <1>1, <2>1 DEF Connected, Concluding
  <2>3. Startable
    BY <2>2, FilesAreReady
  <2>4. service.unit = run.req.release /\ service.enabled /\ service.state = "on"
    BY <1>1, <2>2 DEF IInv, Served
  <2>5. QED
    BY <2>3, <2>4, Requested DEF TelegramHealthy, IInv
<1>7. QED
  BY <1>2, <1>5, <1>6 DEF Healthy

LEMMA RunHealthKeeps == ASSUME IInv, RunHealth PROVE IInv'
<1>1. Installing /\ run.at = "health"
  BY Whose DEF IInv, RunHealth, Phase, At, InstallPhases
<1>2. Advance /\ UNCHANGED <<host, files, marker, service, spent, past>>
  BY <1>1, HealthIsGood DEF RunHealth, Phase, Check, Keep
<1>3. /\ run' \in RunType /\ run'.at = "acceptance" /\ Standing
      /\ run'.faulted = run.faulted /\ run'.did = run.did
  BY <1>1, <1>2, InstallRoute, Advancing
     DEF IInv, Phases, InstallPhases, Carrying
<1>4. QED
  BY <1>1, <1>2, <1>3, ConcludingOn DEF Concluding

LEMMA RunAcceptanceKeeps == ASSUME IInv, RunAcceptance PROVE IInv'
<1>1. Installing /\ run.at = "acceptance" /\ Place = "acceptance"
  BY Whose DEF IInv, RunAcceptance, Phase, At, InstallPhases, Place
<1>2. /\ AcceptTool("taskwarrior")
      /\ run.req.calendar => AcceptTool("calendar")
  BY <1>1 DEF IInv, Provided, ToolHealthy, AcceptTool
<1>3. run.req.telegram => AcceptTelegram
  BY <1>1, FilesAreReady, NoneIsDistinct
     DEF Connected, Concluding, AcceptTelegram
<1>4. Advance /\ UNCHANGED <<host, files, marker, service, spent, past>>
  BY <1>2, <1>3 DEF RunAcceptance, Phase, Check, Keep
<1>5. /\ run' \in RunType /\ run'.at = "end" /\ Standing
      /\ run'.faulted = run.faulted /\ run'.did = run.did
  BY <1>1, <1>4, InstallRoute, Advancing
     DEF IInv, Phases, InstallPhases, Carrying
<1>6. QED
  BY <1>1, <1>4, <1>5, ConcludingOn DEF Concluding

(* A run that says it succeeded leaves what its last phase found.          *)
LEMMA SucceedKeeps == ASSUME IInv, Succeed PROVE IInv'
<1>1. Installing /\ run.at = "end" /\ Place = "end"
  BY DEF Succeed, Phase, At, Installing, Place
<1>2. UNCHANGED <<host, files, marker, service, spent, past>>
  BY DEF Succeed, Phase, Keep
<1>3. /\ run' \in RunType /\ run'.at = "idle" /\ run'.outcome = "succeeded"
      /\ Standing /\ run'.faulted = run.faulted
      /\ run'.before = None /\ run'.written = 0 /\ run'.did = {}
  BY Finishing DEF IInv, Succeed, Outcomes
<1>4. /\ Installing' /\ Place' = "end" /\ run'.req = run.req
      /\ run'.identity = run.identity
  BY <1>1, <1>3 DEF Installing, Place, At, Standing
<1>5. Types'
  BY <1>2, <1>3 DEF IInv, Types
<1>6. Process' /\ RepairsSucceed' /\ Kept' /\ FilesHaveAnOwner' /\ Cleared'
  BY <1>2, <1>3, <1>4 DEF IInv, Process, Ended, At, Undoing, RepairsSucceed,
     Kept, BacksOut, FilesHaveAnOwner, Standing, Cleared
<1>7. Connected' = Connected
  BY <1>1, <1>4 DEF Connected
<1>8. Provided'
  <2>1. RuntimeText' = RuntimeText /\ NewMarker' = NewMarker
        /\ (ToolHealthy("taskwarrior"))' = ToolHealthy("taskwarrior")
        /\ (ToolHealthy("calendar"))' = ToolHealthy("calendar")
    BY <1>2, <1>4 DEF RuntimeText, NewMarker, ToolHealthy
  <2>2. QED
    BY <1>1, <1>2, <1>4, <2>1 DEF IInv, Provided
<1>9. Written'
  BY <1>1, <1>2, <1>3, <1>4, <1>7, TextsKeep
     DEF IInv, Written, Deploying, Concluding, Connecting
<1>10. Transaction'
  BY <1>3 DEF Transaction
<1>11. Served'
  BY <1>1, <1>2, <1>3, <1>4, <1>7 DEF IInv, Served
<1>12. QED
  BY <1>5, <1>6, <1>8, <1>9, <1>10, <1>11 DEF IInv

-----------------------------------------------------------------------------
(* The deployment fails, and what it did is undone.                        *)
LEMMA FailingDeployment ==
  ASSUME IInv, Installing, run.at \in {"unit", "enable", "start", "verify"},
         run' \in RunType, run'.at = "undo_service", Standing, run'.faulted,
         run'.before = run.before,
         run'.did \in {run.did, run.did \cup {"unit"}, run.did \cup {"start"}},
         UNCHANGED <<host, files, marker, past>>, Types',
         \/ service'.state = service.state
         \/ service'.state = "on"
         \/ "start" \in run'.did /\ (UnitDiffers \/ ~WasActive)
  PROVE  IInv'
<1>1. run.before \in SnapshotType
  BY DEF IInv, Transaction
<1>2. /\ Installing' /\ Place' = run'.at /\ Connected' /\ run.req.telegram
      /\ Process' /\ Provided' /\ Written' /\ Cleared' /\ FilesHaveAnOwner'
      /\ RepairsSucceed' /\ Startable' /\ Agree'
      /\ past.ran => WasActive /\ service.state = "on"
  BY <1>1, DeployingOn DEF Deploying
<1>3. Kept'
  BY <1>2, SameTransaction, KeptDeploying DEF Deploying
<1>4. Transaction'
  BY <1>1, <1>2 DEF Transaction, Deploying, Standing
<1>5. Served'
  BY <1>2 DEF Served, Concluding
<1>6. QED
  BY <1>2, <1>3, <1>4, <1>5 DEF IInv

LEMMA DeploymentFailsKeeps == ASSUME IInv, DeploymentFails PROVE IInv'
<1>1. PICK p \in {"unit", "enable", "start", "verify"} : Fault(p)
  BY DEF DeploymentFails
<1>2. Installing /\ run.at = p /\ past' = past
  BY <1>1, FaultIsTyped, Whose DEF IInv, InstallPhases
<1>3. /\ UNCHANGED <<host, files, marker>>
      /\ \/ run' = [Struck EXCEPT !.at = "undo_service", !.did = @ \cup {"unit"}]
         \/ run' = [Struck EXCEPT !.at = "undo_service", !.did = @ \cup {"start"}]
         \/ FaultedAt("undo_service")
  BY DEF DeploymentFails, Keep
<1>4. /\ run' \in RunType /\ run'.at = "undo_service" /\ Standing
      /\ run'.faulted /\ run'.before = run.before
      /\ run'.did \in {run.did, run.did \cup {"unit"}, run.did \cup {"start"}}
  <2>1. run.did \cup {"unit"} \in SUBSET {"unit", "enable", "start"}
        /\ run.did \cup {"start"} \in SUBSET {"unit", "enable", "start"}
    BY DEF IInv, Types, RunType
  <2>2. ASSUME NEW what \in {"unit", "start"},
               run' = [Struck EXCEPT !.at = "undo_service", !.did = @ \cup {what}]
        PROVE  /\ run' \in RunType /\ run'.at = "undo_service" /\ Standing
               /\ run'.faulted /\ run'.before = run.before
               /\ run'.did = run.did \cup {what}
    <3>1. run.did \cup {what} \in SUBSET {"unit", "enable", "start"}
      BY <2>1, <2>2
    <3>2. /\ run'.at = "undo_service" /\ Standing
          /\ run'.faulted /\ run'.before = run.before
          /\ run'.did = run.did \cup {what}
      BY <2>2 DEF IInv, Types, RunType, Struck, Standing
    <3>3. run' \in RunType
      <4>1. Struck \in RunType /\ Struck.did = run.did
        BY DEF IInv, Types, RunType, Struck
      <4>2. run' = [Struck EXCEPT !.at = "undo_service",
                                  !.did = run.did \cup {what}]
        BY <2>2, <4>1
      <4> HIDE DEF Struck
      <4>3. QED
        BY <3>1, <4>1, <4>2 DEF RunType, InstallPhases
    <3>4. QED
      BY <3>2, <3>3
  <2>3. CASE FaultedAt("undo_service")
    BY <2>3, Faulting DEF IInv, Phases, InstallPhases, Carrying
  <2>4. QED
    BY <1>3, <2>2, <2>3
<1>5. /\ service' \in ServiceType
      /\ \/ service'.state = service.state
         \/ service'.state = "on"
         \/ "start" \in run'.did /\ (UnitDiffers \/ ~WasActive)
  <2>1. CASE run.at = "start"
    <3>1. /\ UnitDiffers \/ ~WasActive
          /\ service' \in {[service EXCEPT !.state = "off", !.loaded = None], Running}
          /\ run' = [Struck EXCEPT !.at = "undo_service", !.did = @ \cup {"start"}]
      BY <2>1 DEF DeploymentFails, Fault, At
    <3>2. "start" \in run'.did
      BY <3>1 DEF IInv, Types, RunType, Struck
    <3>3. service' \in ServiceType
      BY <3>1, RunningIsTyped DEF IInv, Types, ServiceType
    <3>4. QED
      BY <3>1, <3>2, <3>3
  <2>2. CASE run.at # "start"
    BY <1>2, <2>2, Requested
       DEF IInv, Types, ServiceType, DeploymentFails, Fault, At, Keep
  <2>3. QED
    BY <2>1, <2>2
<1>6. Types'
  BY <1>1, <1>3, <1>4, <1>5, FaultIsTyped DEF IInv, Types
<1>7. QED
  BY <1>2, <1>3, <1>4, <1>5, <1>6, FailingDeployment

LEMMA RestoredIsTyped ==
  ASSUME Types, run.before \in SnapshotType
  PROVE  /\ Restored \in ServiceType
         /\ Restored.state \in {"on", "off", service.state}
         /\ WasActive /\ (UnitDiffers \/ "start" \in run.did)
              => Restored.state = "on"
         /\ WasActive /\ ~(UnitDiffers \/ "start" \in run.did)
              => Restored.state = service.state
<1>1. /\ run.before.service \in ServiceType /\ service \in ServiceType
      /\ Loaded \in LoadedType
  BY RunningIsTyped DEF Types, SnapshotType
<1>2. QED
  BY <1>1 DEF Restored, ServiceType

LEMMA UndoServiceKeeps == ASSUME IInv, UndoService PROVE IInv'
<1>1. Installing /\ run.at = "undo_service" /\ ~At("idle")
  BY Whose DEF IInv, UndoService, Phase, At, InstallPhases
<1>2. /\ UNCHANGED <<host, files, marker, spent, past>>
      /\ service' = Restored
  BY DEF UndoService, Phase
<1>3. run.before \in SnapshotType /\ run.faulted
  BY <1>1 DEF IInv, Transaction, Process, Undoing
<1>4. /\ run' \in RunType /\ run'.at = "idle" /\ run'.outcome = "failed"
      /\ Standing /\ run'.faulted = run.faulted
      /\ run'.before = None /\ run'.did = {}
  BY Finishing DEF IInv, UndoService, Fail, Outcomes
<1>5. Types' /\ FilesHaveAnOwner'
  BY <1>2, <1>3, <1>4, RestoredIsTyped DEF IInv, Types, FilesHaveAnOwner
<1>6. Process' /\ Provided' /\ Written' /\ Transaction' /\ Served' /\ Cleared'
  BY <1>3, <1>4, Stopping
<1>7. RepairsSucceed'
  BY <1>3, <1>4 DEF RepairsSucceed
<1>8. run.req.telegram /\ Connected
  BY <1>1, Identified DEF Deploying, Connected
<1>9. Kept'
  <2>1. Startable /\ Agree
    BY <1>1, <1>8, FilesAreReady
  <2>2. past.ran => /\ WasActive
                    /\ \/ service.state = "on"
                       \/ UnitDiffers \/ "start" \in run.did
    BY <1>1, <1>8 DEF IInv, Kept, Deploying
  <2>3. past'.ran => service'.state = "on"
    BY <1>2, <1>3, <2>2, RestoredIsTyped DEF IInv
  <2>4. Startable' /\ Agree'
    BY <1>2, <2>1 DEF Startable, ConfigurationLoads, DirectoriesUsable,
       SettingsLoad, UsersLoad, TokenLoads, Agree
  <2>5. ~Holding' /\ run'.at \notin Deploying \cup {"persist", "validate", "undo_telegram"}
    BY <1>4 DEF Holding, At, Deploying
  <2>6. QED
    BY <2>3, <2>4, <2>5 DEF Kept
<1>10. QED
  BY <1>5, <1>6, <1>7, <1>9 DEF IInv

LEMMA UndoServiceFailsKeeps == ASSUME IInv, UndoServiceFails PROVE IInv'
<1>1. Fault("undo_service") /\ run' = Botched
      /\ UNCHANGED <<host, files, marker>>
  BY DEF UndoServiceFails, Botched
<1>2. run.before \in SnapshotType
  BY <1>1 DEF IInv, Transaction, Fault, At
<1>3. Restored \in ServiceType /\ service \in ServiceType
  BY <1>2, RestoredIsTyped DEF IInv, Types
<1>4. service' \in ServiceType
  BY <1>3 DEF UndoServiceFails, ServiceType
<1>5. QED
  BY <1>1, <1>4, Botching DEF IInv, Types

(* A worker is restarted only into the state it was in, if its files are   *)
(* still usable; and what relied on it made sure that they are.            *)
LEMMA RestartWorkerKeeps == ASSUME IInv, RestartWorker PROVE IInv'
<1>1. /\ UNCHANGED <<host, files, marker, run, past>>
      /\ service.state \in {"on", "retrying"} /\ service.unit # None
      /\ service' = IF Startable THEN Running
                    ELSE [service EXCEPT !.state = "retrying", !.loaded = None]
  BY DEF RestartWorker
<1>2. /\ service' \in ServiceType /\ service'.unit = service.unit
      /\ service'.enabled = service.enabled
      /\ Startable => service'.state = "on" /\ service'.loaded = Loaded
  BY <1>1, RunningIsTyped DEF IInv, Types, ServiceType
<1>3. spent' \in [runs : 0..MaxRuns, faults : 0..MaxFaults,
                  crashes : 0..MaxCrashes, deaths : 0..MaxDeaths]
  BY BoundsAreNaturals DEF IInv, Types, RestartWorker
<1>4. Types'
  BY <1>1, <1>2, <1>3 DEF IInv, Types
<1>5. /\ Installing' = Installing /\ Place' = Place /\ Connected' = Connected
      /\ Startable' = Startable /\ Loaded' = Loaded /\ Agree' = Agree
      /\ UnitDiffers' = UnitDiffers /\ WasActive' = WasActive
      /\ Holding' = Holding
  BY <1>1 DEF Installing, Place, At, Connected, Startable, ConfigurationLoads,
     DirectoriesUsable, SettingsLoad, UsersLoad, TokenLoads, Loaded, Agree,
     UnitDiffers, WasActive, Holding
<1>6. Process' /\ FilesHaveAnOwner'
  BY <1>1 DEF IInv, Process, FilesHaveAnOwner, Ended, At, Place, Installing
<1>7. Provided'
  BY <1>1 DEF IInv, Provided, Installing, Place, At, RuntimeText, NewMarker,
     ToolHealthy
<1>8. Written'
  BY <1>1 DEF IInv, Written, Installing, Place, At, Connected, TextOf
<1>9. Transaction' /\ RepairsSucceed'
  BY <1>1 DEF IInv, Transaction, RepairsSucceed, Installing, Ended, At, Found
<1>10. Served'
  <2>1. Installing /\ Place \in Deploying => run.req.telegram
    BY DEF IInv, Written
  <2>2. Installing /\ Connected => Startable
    BY FilesAreReady
  <2>3. Installing /\ Place \in {"unit", "enable", "start"} => Startable
    BY <2>1, <2>2 DEF Connected, Deploying
  <2>4. "start" \in run.did /\ Place \in Concluding \cup {"verify"}
          => Installing /\ Connected
    BY DEF IInv, Transaction, Connected, Deploying
  <2>5. QED
    BY <1>1, <1>2, <1>5, <2>2, <2>3, <2>4 DEF IInv, Served
<1>11. Kept'
  BY <1>1, <1>2, <1>5 DEF IInv, Kept, Ended, At, BacksOut
<1>12. Cleared'
  <2>1. ~Installing => Place \notin AfterStop
    BY <1>1 DEF IInv, Cleared
  <2>2. ~Installing => Place \notin AfterDisable \cup AfterUnlink
    BY <2>1 DEF AfterStop, AfterDisable
  <2>3. QED
    BY <1>1, <1>5, <2>1, <2>2 DEF Cleared, AfterStop, AfterDisable, AfterUnlink,
       AfterVolatile, AfterTaskwarrior, AfterCalendar, AfterConfiguration,
       AfterState, AfterLogs
<1>13. QED
  BY <1>4, <1>6, <1>7, <1>8, <1>9, <1>10, <1>11, <1>12 DEF IInv

-----------------------------------------------------------------------------
(* The purge.                                                              *)
USE DEF AfterLogs, AfterState, AfterConfiguration, AfterCalendar,
        AfterTaskwarrior, AfterVolatile, AfterUnlink, AfterDisable, AfterStop

LEMMA Purging ==
  ASSUME IInv, ~Installing, run.at \in UninstallPhases \ {"end"},
         run'.at \in UninstallPhases, Standing \/ run'.req = run.req,
         run'.did = run.did, run'.botched => run'.faulted,
         run'.at \in {"groupdel", "end"} => ~run'.botched
  PROVE  /\ ~Installing' /\ Place = run.at /\ Place' = run'.at /\ ~At("idle")
         /\ Process' /\ Provided' /\ Written' /\ Transaction' /\ Served'
         /\ Kept' /\ RepairsSucceed'
<1>1. /\ ~Installing' /\ Place = run.at /\ Place' = run'.at /\ ~At("idle")
      /\ ~(At("idle"))'
  BY DEF Installing, Standing, Place, At, UninstallPhases
<1>2. Process'
  BY <1>1 DEF Process, Ended, At, Undoing, UninstallPhases
<1>3. Provided' /\ Written' /\ Served' /\ Kept' /\ RepairsSucceed'
  BY <1>1 DEF Provided, Written, Served, Kept, RepairsSucceed, Ended
<1>4. run'.did = {}
  BY DEF IInv, Transaction, UninstallPhases, Deploying, Concluding
<1>5. Transaction'
  BY <1>4 DEF Transaction, UninstallPhases
<1>6. QED
  BY <1>1, <1>2, <1>3, <1>5

(* A step of the purge that completes. *)
LEMMA PurgingOn ==
  ASSUME IInv, ~Installing, run.at \in UninstallPhases \ {"end"},
         Advance, NEW q \in UninstallPhases, Follower(run.at) = q,
         q \in {"groupdel", "end"} => ~run.botched
  PROVE  /\ run' \in RunType /\ run'.at = q /\ run'.botched = run.botched
         /\ ~Installing' /\ Place = run.at /\ Place' = q
         /\ Process' /\ Provided' /\ Written' /\ Transaction' /\ Served'
         /\ Kept' /\ RepairsSucceed'
<1>1. /\ run' \in RunType /\ run'.at = q /\ Standing /\ Carrying
      /\ run'.faulted = run.faulted
  BY Advancing DEF IInv, Phases
<1>2. run'.botched => run'.faulted
  BY <1>1 DEF IInv, Process, Standing
<1>3. QED
  BY <1>1, <1>2, Purging DEF Standing, Carrying

LEMMA BeginUninstallKeeps == ASSUME IInv, BeginUninstall PROVE IInv'
<1>1. UNCHANGED <<host, files, marker, service>>
  BY DEF BeginUninstall, NewRun, Keep
<1>2. /\ spent' \in [runs : 0..MaxRuns, faults : 0..MaxFaults,
                     crashes : 0..MaxCrashes, deaths : 0..MaxDeaths]
      /\ past' \in [ran : BOOLEAN, agreed : BOOLEAN]
  BY BoundsAreNaturals DEF IInv, Types, BeginUninstall, NewRun, Startable,
     ConfigurationLoads, DirectoriesUsable, SettingsLoad, UsersLoad, TokenLoads,
     Agree
<1>3. /\ run'.req = None /\ run'.did = {} /\ ~run'.botched /\ run'.at = "stop"
      /\ ~run'.faulted
  BY DEF BeginUninstall, Idle
<1>4. run' \in RunType
  <2>1. 0 \in 0..3 /\ {} \in SUBSET {"unit", "enable", "start"}
    OBVIOUS
  <2>2. QED
    BY <2>1 DEF BeginUninstall, Idle, RunType, Outcomes, UninstallPhases
<1>5. Types'
  BY <1>1, <1>2, <1>4 DEF IInv, Types
<1>6. ~Installing' /\ Place' = "stop" /\ ~(At("idle"))'
  BY <1>3 DEF Installing, Place, At
<1>7. Process'
  BY <1>3, <1>6 DEF Process, UninstallPhases, Undoing, Ended, At
<1>8. Provided' /\ Written' /\ Served' /\ Kept' /\ Cleared' /\ RepairsSucceed'
  BY <1>6 DEF Provided, Written, Served, Kept, Cleared, RepairsSucceed, Ended
<1>9. Transaction' /\ FilesHaveAnOwner'
  BY <1>1, <1>3 DEF IInv, Transaction, FilesHaveAnOwner
<1>10. QED
  BY <1>5, <1>7, <1>8, <1>9 DEF IInv

LEMMA RemoveServiceKeeps ==
  ASSUME IInv, StopService \/ DisableService \/ UnlinkUnit PROVE IInv'
<1>1. /\ ~Installing /\ run.at \in {"stop", "disable", "unlink"} /\ Advance
      /\ UNCHANGED <<host, files, marker, spent, past>>
  BY Whose DEF IInv, StopService, DisableService, UnlinkUnit, RemoveService,
     Phase, At, UninstallPhases
<1>2. /\ service' \in ServiceType
      /\ run.at = "stop" => service'.state = "off" /\ service'.loaded = None
      /\ run.at = "disable" => /\ ~service'.enabled
                               /\ service'.state = service.state
                               /\ service'.loaded = service.loaded
      /\ run.at = "unlink" => /\ service'.unit = None
                              /\ service'.enabled = service.enabled
                              /\ service'.state = service.state
                              /\ service'.loaded = service.loaded
  <2>1. service \in ServiceType
    BY DEF IInv, Types
  <2>2. CASE run.at = "stop" /\ service' = Off
    BY <2>1, <2>2 DEF ServiceType, Off
  <2>3. CASE run.at = "disable" /\ service' = Disabled
    BY <2>1, <2>3 DEF ServiceType, Disabled
  <2>4. CASE run.at = "unlink" /\ service' = Unlinked
    BY <2>1, <2>4 DEF ServiceType, Unlinked
  <2>5. QED
    BY <2>2, <2>3, <2>4 DEF StopService, DisableService, UnlinkUnit,
       RemoveService, Phase, At
<1>3. PICK q \in {"disable", "unlink", "volatile"} :
        /\ Follower(run.at) = q
        /\ q = "disable" => run.at = "stop"
        /\ q = "unlink" => run.at = "disable"
        /\ q = "volatile" => run.at = "unlink"
  BY <1>1, UninstallRoute
<1>4. /\ run' \in RunType /\ run'.at = q /\ run'.botched = run.botched
      /\ ~Installing' /\ Place = run.at /\ Place' = q
      /\ Process' /\ Provided' /\ Written' /\ Transaction' /\ Served'
      /\ Kept' /\ RepairsSucceed'
  BY <1>1, <1>3, PurgingOn DEF UninstallPhases
<1>5. Types' /\ FilesHaveAnOwner'
  BY <1>1, <1>2, <1>4 DEF IInv, Types, FilesHaveAnOwner
<1>6. Cleared'
  BY <1>1, <1>2, <1>3, <1>4 DEF IInv, Cleared
<1>7. QED
  BY <1>4, <1>5, <1>6 DEF IInv

(* A purge that ends here leaves a service that is partly removed.         *)
LEMMA PurgeEnding ==
  ASSUME IInv, Types', ~Installing, run'.at = "idle", run'.outcome = "failed",
         Standing, run'.did = {}, run'.faulted, FilesHaveAnOwner'
  PROVE  IInv'
<1>1. Process' /\ Provided' /\ Written' /\ Transaction' /\ Served' /\ Cleared'
  BY Stopping
<1>2. Kept' /\ RepairsSucceed'
  BY DEF Kept, RepairsSucceed, Installing, Standing
<1>3. QED
  BY <1>1, <1>2 DEF IInv

LEMMA ServiceRemovalFailsKeeps ==
  ASSUME IInv, ServiceRemovalFails PROVE IInv'
<1>1. PICK p \in {"stop", "disable", "unlink"} : Fault(p)
  BY DEF ServiceRemovalFails
<1>2. ~Installing /\ UNCHANGED <<host, files, marker, past>>
  BY <1>1, FaultIsTyped, Whose DEF IInv, UninstallPhases, ServiceRemovalFails
<1>3. service' \in ServiceType
  BY DEF IInv, Types, ServiceType, ServiceRemovalFails, Off, Disabled, Unlinked
<1>4. /\ run' \in RunType /\ run'.at = "idle" /\ run'.outcome = "failed"
      /\ Standing /\ run'.faulted /\ run'.before = None /\ run'.did = {}
  BY FaultEnding DEF IInv, ServiceRemovalFails
<1>5. Types' /\ FilesHaveAnOwner'
  BY <1>1, <1>2, <1>3, <1>4, FaultIsTyped DEF IInv, Types, FilesHaveAnOwner
<1>6. QED
  BY <1>2, <1>4, <1>5, PurgeEnding

(* The directories: what one step removes, the later ones leave removed.   *)
LEMMA RemoveVolatileKeeps == ASSUME IInv, RemoveVolatile PROVE IInv'
<1>1. /\ ~Installing /\ run.at = "volatile" /\ Advance
      /\ UNCHANGED <<files, marker, service, spent, past>>
      /\ host' = NoRule
  BY Whose DEF IInv, RemoveVolatile, Phase, At, UninstallPhases
<1>2. /\ host' \in HostType /\ host'.rule = "absent"
      /\ host'.roots = host.roots /\ host'.group = host.group
      /\ host'.user = host.user
  BY <1>1 DEF IInv, Types, HostType, NoRule
<1>3. /\ run' \in RunType /\ run'.at = "drop_taskwarrior"
      /\ run'.botched = run.botched
      /\ ~Installing' /\ Place = run.at /\ Place' = "drop_taskwarrior"
      /\ Process' /\ Provided' /\ Written' /\ Transaction' /\ Served'
      /\ Kept' /\ RepairsSucceed'
  BY <1>1, UninstallRoute, PurgingOn DEF UninstallPhases
<1>4. Types' /\ FilesHaveAnOwner'
  BY <1>1, <1>2, <1>3 DEF IInv, Types, FilesHaveAnOwner
<1>5. Cleared'
  BY <1>1, <1>2, <1>3 DEF IInv, Cleared
<1>6. QED
  BY <1>3, <1>4, <1>5 DEF IInv

LEMMA DropToolKeeps == ASSUME IInv, NEW t \in Tools, DropTool(t) PROVE IInv'
<1>1. /\ run.at = Dropping[t] /\ Advance /\ host' = Gone(t)
      /\ UNCHANGED <<files, marker, service, spent, past>>
  BY DEF DropTool, Phase, At
<1>2. PICK q \in {"drop_calendar", "drop_configuration"} :
        \/ t = "taskwarrior" /\ run.at = "drop_taskwarrior" /\ q = "drop_calendar"
        \/ t = "calendar" /\ run.at = "drop_calendar" /\ q = "drop_configuration"
  BY <1>1 DEF Tools, Dropping
<1>3. ~Installing
  BY <1>2, Whose DEF IInv, UninstallPhases
<1>4. /\ run' \in RunType /\ run'.at = q /\ run'.botched = run.botched
      /\ ~Installing' /\ Place = run.at /\ Place' = q
      /\ Process' /\ Provided' /\ Written' /\ Transaction' /\ Served'
      /\ Kept' /\ RepairsSucceed'
  BY <1>1, <1>2, <1>3, UninstallRoute, PurgingOn DEF UninstallPhases
<1>5. /\ host' \in HostType /\ host'.rule = host.rule
      /\ host'.roots = host.roots /\ host'.group = host.group
      /\ host'.user = host.user
      /\ host'.trees = host.trees \ {t} /\ host'.broken = host.broken \ {t}
  BY <1>1 DEF IInv, Types, HostType, Gone
<1>6. Types' /\ FilesHaveAnOwner'
  BY <1>1, <1>4, <1>5 DEF IInv, Types, FilesHaveAnOwner
<1>7. Cleared'
  BY <1>1, <1>2, <1>3, <1>4, <1>5 DEF IInv, Cleared
<1>8. QED
  BY <1>4, <1>6, <1>7 DEF IInv

LEMMA DropConfigurationKeeps == ASSUME IInv, DropConfiguration PROVE IInv'
<1>1. /\ ~Installing /\ run.at = "drop_configuration" /\ Advance
      /\ UNCHANGED <<marker, service, spent, past>>
      /\ host' = [host EXCEPT !.roots = @ \ {"configuration"}, !.confs = {}]
      /\ files' = [f \in ManagedFiles |-> None]
  BY Whose DEF IInv, DropConfiguration, Phase, At, UninstallPhases
<1>2. /\ host' \in HostType /\ host'.roots = host.roots \ {"configuration"}
      /\ host'.confs = {}
      /\ host'.rule = host.rule /\ host'.group = host.group
      /\ host'.user = host.user
      /\ host'.trees = host.trees /\ host'.broken = host.broken
  BY <1>1 DEF IInv, Types, HostType
<1>3. files' \in FilesType /\ \A f \in ManagedFiles : files'[f] = None
  BY <1>1 DEF FilesType, Texts
<1>4. /\ run' \in RunType /\ run'.at = "drop_state"
      /\ run'.botched = run.botched
      /\ ~Installing' /\ Place = run.at /\ Place' = "drop_state"
      /\ Process' /\ Provided' /\ Written' /\ Transaction' /\ Served'
      /\ Kept' /\ RepairsSucceed'
  BY <1>1, UninstallRoute, PurgingOn DEF UninstallPhases
<1>5. Types' /\ FilesHaveAnOwner'
  BY <1>1, <1>2, <1>3, <1>4 DEF IInv, Types, FilesHaveAnOwner
<1>6. Cleared'
  BY <1>1, <1>2, <1>3, <1>4 DEF IInv, Cleared
<1>7. QED
  BY <1>4, <1>5, <1>6 DEF IInv

LEMMA DropStateKeeps == ASSUME IInv, DropState PROVE IInv'
<1>1. /\ ~Installing /\ run.at = "drop_state" /\ Advance
      /\ UNCHANGED <<files, service, spent, past>> /\ marker' = None
      /\ host' = [host EXCEPT !.roots = @ \ {"state", "audit"}, !.records = {}]
  BY Whose DEF IInv, DropState, Phase, At, UninstallPhases
<1>2. /\ host' \in HostType /\ host'.roots = host.roots \ {"state", "audit"}
      /\ host'.records = {} /\ host'.confs = host.confs
      /\ host'.rule = host.rule /\ host'.group = host.group
      /\ host'.user = host.user
      /\ host'.trees = host.trees /\ host'.broken = host.broken
  BY <1>1 DEF IInv, Types, HostType
<1>3. /\ run' \in RunType /\ run'.at = "drop_logs"
      /\ run'.botched = run.botched
      /\ ~Installing' /\ Place = run.at /\ Place' = "drop_logs"
      /\ Process' /\ Provided' /\ Written' /\ Transaction' /\ Served'
      /\ Kept' /\ RepairsSucceed'
  BY <1>1, UninstallRoute, PurgingOn DEF UninstallPhases
<1>4. Types' /\ FilesHaveAnOwner'
  BY <1>1, <1>2, <1>3 DEF IInv, Types, FilesHaveAnOwner
<1>5. Cleared'
  BY <1>1, <1>2, <1>3 DEF IInv, Cleared
<1>6. QED
  BY <1>3, <1>4, <1>5 DEF IInv

LEMMA DropLogsKeeps == ASSUME IInv, DropLogs PROVE IInv'
<1>1. /\ ~Installing /\ run.at = "drop_logs" /\ Advance
      /\ UNCHANGED <<files, marker, service, spent, past>>
      /\ host' = [host EXCEPT !.roots = @ \ {"logs"}]
  BY Whose DEF IInv, DropLogs, Phase, At, UninstallPhases
<1>2. /\ host' \in HostType /\ host'.roots = host.roots \ {"logs"}
      /\ host'.records = host.records /\ host'.confs = host.confs
      /\ host'.rule = host.rule /\ host'.group = host.group
      /\ host'.user = host.user
      /\ host'.trees = host.trees /\ host'.broken = host.broken
  BY <1>1 DEF IInv, Types, HostType
<1>3. /\ run' \in RunType /\ run'.at = "userdel"
      /\ run'.botched = run.botched
      /\ ~Installing' /\ Place = run.at /\ Place' = "userdel"
      /\ Process' /\ Provided' /\ Written' /\ Transaction' /\ Served'
      /\ Kept' /\ RepairsSucceed'
  BY <1>1, UninstallRoute, PurgingOn DEF UninstallPhases
<1>4. Types' /\ FilesHaveAnOwner'
  BY <1>1, <1>2, <1>3 DEF IInv, Types, FilesHaveAnOwner
<1>5. Cleared'
  BY <1>1, <1>2, <1>3 DEF IInv, Cleared
<1>6. QED
  BY <1>3, <1>4, <1>5 DEF IInv

(* A directory that is removed in part.                                    *)
LEMMA PartlyDroppedIsTyped ==
  ASSUME Types, PartlyDropped
  PROVE  /\ host' \in HostType /\ host'.roots \subseteq host.roots
         /\ host'.group = host.group /\ host'.user = host.user
         /\ files' \in FilesType /\ marker' \in MarkerType \cup {None}
<1> DEFINE Partly ==
             /\ host' \in HostType /\ host'.roots \subseteq host.roots
             /\ host'.group = host.group /\ host'.user = host.user
             /\ files' \in FilesType /\ marker' \in MarkerType \cup {None}
<1>1. ASSUME host' \in {host, NoRule}, UNCHANGED <<files, marker>>
      PROVE  Partly
  BY <1>1 DEF Types, HostType, NoRule
<1>2. ASSUME NEW t \in Tools, host' = [host EXCEPT !.broken = @ \cup {t}],
             UNCHANGED <<files, marker>>
      PROVE  Partly
  BY <1>2 DEF Types, HostType
<1>3. ASSUME NEW lost \in SUBSET ManagedFiles, UNCHANGED marker,
             NEW confs \in SUBSET host.confs, host' = [host EXCEPT !.confs = confs],
             files' = [f \in ManagedFiles |-> IF f \in lost THEN None ELSE files[f]]
      PROVE  Partly
  <2>1. files' \in FilesType
    BY <1>3 DEF Types, FilesType, Texts
  <2>2. QED
    BY <1>3, <2>1 DEF Types, HostType
<1>4. ASSUME NEW lost \in SUBSET host.records, NEW audit \in SUBSET {"audit"},
             host' = [host EXCEPT !.records = @ \ lost, !.roots = @ \ audit],
             marker' \in {marker, None}, UNCHANGED files
      PROVE  Partly
  BY <1>4 DEF Types, HostType
<1>5. ASSUME UNCHANGED <<host, files, marker>>
      PROVE  Partly
  BY <1>5 DEF Types
<1> HIDE DEF Partly
<1>6. Partly
  BY <1>1, <1>2, <1>3, <1>4, <1>5 DEF PartlyDropped
<1>7. QED
  BY <1>6 DEF Partly

LEMMA DropFailsKeeps == ASSUME IInv, DropFails PROVE IInv'
<1>1. PICK p \in Droppings : Fault(p)
  BY DEF DropFails
<1>2. /\ ~Installing /\ run.at = p /\ p \in UninstallPhases \ {"end"}
      /\ past' = past /\ service' = service
  BY <1>1, FaultIsTyped, Whose DEF IInv, UninstallPhases, Droppings, DropFails
<1>3. /\ host' \in HostType /\ host'.roots \subseteq host.roots
      /\ host'.group = host.group /\ host'.user = host.user
      /\ files' \in FilesType /\ marker' \in MarkerType \cup {None}
  BY PartlyDroppedIsTyped DEF IInv, DropFails
<1>4. PICK q \in AfterVolatile \ {"groupdel", "end"} : Follower(run.at) = q
  BY <1>2, UninstallRoute DEF UninstallPhases, Droppings
<1>5. /\ run' \in RunType /\ run'.at = q /\ run'.req = run.req
      /\ run'.did = run.did /\ run'.faulted /\ run'.botched
  <2>1. /\ Struck \in RunType /\ Struck.at = run.at /\ Struck.req = run.req
        /\ Struck.did = run.did /\ Struck.faulted
    BY DEF IInv, Types, RunType, Struck
  <2>2. run' = [Struck EXCEPT !.at = q, !.botched = TRUE]
    BY <1>4, <2>1 DEF DropFails
  <2> HIDE DEF Struck
  <2>3. QED
    BY <2>1, <2>2 DEF RunType, UninstallPhases
<1>6. /\ ~Installing' /\ Place = run.at /\ Place' = q
      /\ Process' /\ Provided' /\ Written' /\ Transaction' /\ Served'
      /\ Kept' /\ RepairsSucceed'
  BY <1>2, <1>4, <1>5, Purging DEF UninstallPhases
<1>7. Types'
  BY <1>1, <1>2, <1>3, <1>5, FaultIsTyped DEF IInv, Types
<1>8. FilesHaveAnOwner'
  BY <1>3 DEF IInv, FilesHaveAnOwner
<1>9. Cleared'
  BY <1>2, <1>4, <1>5, <1>6 DEF IInv, Cleared, Droppings
<1>10. QED
  BY <1>6, <1>7, <1>8, <1>9 DEF IInv

LEMMA InterruptDropKeeps == ASSUME IInv, InterruptDrop PROVE IInv'
<1>1. /\ host' \in HostType /\ host'.roots \subseteq host.roots
      /\ host'.group = host.group /\ host'.user = host.user
      /\ files' \in FilesType /\ marker' \in MarkerType \cup {None}
  BY PartlyDroppedIsTyped DEF IInv, InterruptDrop
<1>2. Types'
  BY <1>1, CrashIsTyped, VanishingIsTyped DEF IInv, Types, InterruptDrop
<1>3. FilesHaveAnOwner'
  BY <1>1 DEF IInv, FilesHaveAnOwner
<1>4. QED
  BY <1>2, <1>3, Vanishing DEF InterruptDrop

(* The account goes last, and only if every directory went.                *)
LEMMA NothingIsLeft ==
  ASSUME IInv, ~Installing, ~run.botched, Place \in AfterLogs
  PROVE  host.roots = {} /\ host.trees = {} /\ host.broken = {}
<1>1. /\ "configuration" \notin host.roots
      /\ host.roots \cap {"state", "audit"} = {} /\ "logs" \notin host.roots
      /\ "taskwarrior" \notin host.trees \cup host.broken
      /\ "calendar" \notin host.trees \cup host.broken
  BY DEF IInv, Cleared
<1>2. /\ host.roots \subseteq RootNames /\ host.trees \subseteq Tools
      /\ host.broken \subseteq Tools
  BY DEF IInv, Types, HostType
<1>3. QED
  BY <1>1, <1>2 DEF RootNames, Tools

LEMMA DeleteUserKeeps == ASSUME IInv, DeleteUser PROVE IInv'
<1>1. /\ ~Installing /\ run.at = "userdel" /\ Place = "userdel"
      /\ UNCHANGED <<files, marker, service, spent, past>>
  BY Whose DEF IInv, DeleteUser, Phase, At, UninstallPhases, Place
<1>2. CASE run.botched /\ Fail /\ UNCHANGED host
  <2>1. /\ run' \in RunType /\ run'.at = "idle" /\ run'.outcome = "failed"
        /\ Standing /\ run'.faulted = run.faulted
        /\ run'.before = None /\ run'.did = {}
    BY <1>2, Finishing DEF IInv, Fail, Outcomes
  <2>2. Types' /\ FilesHaveAnOwner'
    BY <1>1, <1>2, <2>1 DEF IInv, Types, FilesHaveAnOwner
  <2>3. run.faulted
    BY <1>2 DEF IInv, Process
  <2>4. QED
    BY <1>1, <2>1, <2>2, <2>3, PurgeEnding
<1>3. ASSUME ~run.botched, Advance, NEW b \in {FALSE, host.group},
             host' = [host EXCEPT !.user = FALSE,
                                  !.group = IF host.user THEN b ELSE @]
      PROVE  IInv'
  <2>1. host.roots = {} /\ host.trees = {} /\ host.broken = {}
    BY <1>1, <1>3, NothingIsLeft
  <2>2. /\ run' \in RunType /\ run'.at = "groupdel"
        /\ run'.botched = run.botched
        /\ ~Installing' /\ Place' = "groupdel"
        /\ Process' /\ Provided' /\ Written' /\ Transaction' /\ Served'
        /\ Kept' /\ RepairsSucceed'
    BY <1>1, <1>3, UninstallRoute, PurgingOn DEF UninstallPhases
  <2>3. (IF host.user THEN b ELSE host.group) \in BOOLEAN
    BY <1>3 DEF IInv, Types, HostType
  <2>4. /\ host' \in HostType /\ ~host'.user
        /\ host'.roots = {} /\ host'.trees = {} /\ host'.broken = {}
        /\ host'.records = host.records /\ host'.rule = host.rule
        /\ host'.confs = host.confs
    BY <1>3, <2>1, <2>3 DEF IInv, Types, HostType
  <2>5. Types' /\ FilesHaveAnOwner'
    BY <1>1, <2>2, <2>4 DEF IInv, Types, FilesHaveAnOwner
  <2>6. Cleared'
    BY <1>1, <2>2, <2>4 DEF IInv, Cleared
  <2>7. QED
    BY <2>2, <2>5, <2>6 DEF IInv
<1>4. QED
  BY <1>2, <1>3 DEF DeleteUser

LEMMA DeleteGroupKeeps == ASSUME IInv, DeleteGroup PROVE IInv'
<1>1. /\ ~Installing /\ run.at = "groupdel" /\ Place = "groupdel" /\ Advance
      /\ UNCHANGED <<files, marker, service, spent, past>>
      /\ host' = [host EXCEPT !.group = FALSE]
  BY Whose DEF IInv, DeleteGroup, Phase, At, UninstallPhases, Place
<1>2. ~run.botched
  BY <1>1 DEF IInv, Process
<1>3. host.roots = {} /\ host.trees = {} /\ host.broken = {}
  BY <1>1, <1>2, NothingIsLeft
<1>4. /\ run' \in RunType /\ run'.at = "end" /\ run'.botched = run.botched
      /\ ~Installing' /\ Place' = "end"
      /\ Process' /\ Provided' /\ Written' /\ Transaction' /\ Served'
      /\ Kept' /\ RepairsSucceed'
  BY <1>1, <1>2, UninstallRoute, PurgingOn DEF UninstallPhases
<1>5. /\ host' \in HostType /\ ~host'.group /\ host'.user = host.user
      /\ host'.roots = {} /\ host'.trees = {} /\ host'.broken = {}
      /\ host'.records = host.records /\ host'.rule = host.rule
      /\ host'.confs = host.confs
  BY <1>1, <1>3 DEF IInv, Types, HostType
<1>6. Types' /\ FilesHaveAnOwner'
  BY <1>1, <1>4, <1>5 DEF IInv, Types, FilesHaveAnOwner
<1>7. Cleared'
  BY <1>1, <1>4, <1>5 DEF IInv, Cleared
<1>8. QED
  BY <1>4, <1>6, <1>7 DEF IInv

LEMMA AccountFailsKeeps == ASSUME IInv, AccountFails PROVE IInv'
<1>1. PICK p \in {"userdel", "groupdel"} :
        Fault(p) /\ (p = "userdel" => ~run.botched)
  BY DEF AccountFails
<1>2. /\ ~Installing /\ run.at = p /\ Place = p
      /\ UNCHANGED <<files, marker, service, past>>
  BY <1>1, FaultIsTyped, Whose
     DEF IInv, UninstallPhases, AccountFails, Place, At
<1>3. ~run.botched
  BY <1>1, <1>2 DEF IInv, Process
<1>4. host.roots = {}
  BY <1>2, <1>3, NothingIsLeft
<1>5. host' \in HostType /\ host'.roots = host.roots
  BY DEF IInv, Types, HostType, AccountFails
<1>6. /\ run' \in RunType /\ run'.at = "idle" /\ run'.outcome = "failed"
      /\ Standing /\ run'.faulted /\ run'.before = None /\ run'.did = {}
  BY FaultEnding DEF IInv, AccountFails
<1>7. Types' /\ FilesHaveAnOwner'
  BY <1>1, <1>2, <1>4, <1>5, <1>6, FaultIsTyped DEF IInv, Types, FilesHaveAnOwner
<1>8. QED
  BY <1>2, <1>6, <1>7, PurgeEnding

LEMMA PurgedKeeps == ASSUME IInv, Purged PROVE IInv'
<1>1. /\ ~Installing /\ run.at = "end" /\ Place = "end"
      /\ UNCHANGED <<host, files, marker, service, spent, past>>
  BY DEF Purged, Phase, At, Installing, Place, Keep
<1>2. ~run.botched /\ Finish("purged")
  BY <1>1 DEF IInv, Process, Purged
<1>3. /\ run' \in RunType /\ run'.at = "idle" /\ run'.outcome = "purged"
      /\ Standing /\ run'.faulted = run.faulted
      /\ run'.before = None /\ run'.written = 0 /\ run'.did = {}
  BY <1>2, Finishing DEF IInv, Outcomes
<1>4. ~Installing' /\ Place' = "end"
  BY <1>1, <1>3 DEF Installing, Place, At, Standing
<1>5. Types' /\ FilesHaveAnOwner'
  BY <1>1, <1>3 DEF IInv, Types, FilesHaveAnOwner
<1>6. Process'
  BY <1>2, <1>3, <1>4 DEF Process, Ended, At, Undoing, Standing
<1>7. Provided' /\ Written' /\ Served' /\ Kept' /\ RepairsSucceed'
  BY <1>3, <1>4 DEF Provided, Written, Served, Kept, RepairsSucceed, Ended
<1>8. Transaction'
  BY <1>3 DEF Transaction
<1>9. Cleared'
  BY <1>1, <1>3, <1>4 DEF IInv, Cleared, Standing
<1>10. QED
  BY <1>5, <1>6, <1>7, <1>8, <1>9 DEF IInv

-----------------------------------------------------------------------------
(* Before the first run, nothing is asked of a run.                        *)
LEMMA InitialRun ==
  ASSUME Types, run = Idle, FilesHaveAnOwner
  PROVE  IInv
<1>1. ~Installing /\ Place = "idle" /\ At("idle") /\ run.did = {}
      /\ run.outcome = "none" /\ run.at = "idle" /\ ~run.botched
  BY DEF Idle, Installing, Place, At
<1>2. Process /\ Provided /\ Written /\ Transaction /\ Served /\ Kept
      /\ Cleared /\ RepairsSucceed
  BY <1>1 DEF Process, Provided, Written, Transaction, Served, Kept, Cleared,
     RepairsSucceed, Ended, Undoing
<1>3. QED
  BY <1>2 DEF IInv

LEMMA InitHolds == Init => IInv
<1>1. SUFFICES ASSUME Init PROVE IInv
  OBVIOUS
<1>2. run \in RunType /\ run = Idle
  <2>1. 0 \in 0..3 /\ {} \in SUBSET {"unit", "enable", "start"}
    OBVIOUS
  <2>2. QED
    BY <1>1, <2>1 DEF Init, Idle, RunType, Outcomes
<1>3. spent \in [runs : 0..MaxRuns, faults : 0..MaxFaults,
                 crashes : 0..MaxCrashes, deaths : 0..MaxDeaths]
      /\ past \in [ran : BOOLEAN, agreed : BOOLEAN]
  BY <1>1, BoundsAreNaturals DEF Init
<1>4. CASE NothingInstalled
  <2>1. host \in HostType /\ host.roots = {}
    BY <1>4 DEF NothingInstalled, HostType
  <2>2. files \in FilesType /\ marker \in MarkerType \cup {None}
    BY <1>4 DEF NothingInstalled, FilesType, Texts
  <2>3. service \in ServiceType
    BY <1>4 DEF NothingInstalled, ServiceType
  <2>4. QED
    BY <1>2, <1>3, <2>1, <2>2, <2>3, InitialRun DEF Types, FilesHaveAnOwner
<1>5. ASSUME NEW r \in Releases, NEW id \in Identities, EarlierRelease(r, id)
      PROVE  IInv
  <2>1. host \in HostType /\ host.group /\ host.user
    BY <1>5 DEF EarlierRelease, HostType, Tools
  <2>2. files \in FilesType
    BY <1>5 DEF EarlierRelease, FilesType, Texts
  <2>3. marker \in MarkerType /\ service \in ServiceType
    BY <1>5 DEF EarlierRelease, MarkerType, ServiceType, LoadedType
  <2>4. QED
    BY <1>2, <1>3, <2>1, <2>2, <2>3, InitialRun DEF Types, FilesHaveAnOwner
<1>6. QED
  BY <1>1, <1>4, <1>5 DEF Init

LEMMA StutteringKeeps == ASSUME IInv, UNCHANGED vars PROVE IInv'
<1>1. Types' /\ Process' /\ Transaction' /\ FilesHaveAnOwner'
  BY DEF vars, IInv, Types, Process, Transaction, FilesHaveAnOwner, At, Ended,
     Installing, Place
<1>2. Provided' /\ Written'
  BY DEF vars, IInv, Provided, Written, Installing, Place, At, RuntimeText,
     NewMarker, ToolHealthy, Connected, TextOf
<1>3. Served' /\ Kept'
  BY DEF vars, IInv, Served, Kept, Installing, Place, At, Connected, Loaded,
     Ended, BacksOut, Startable, ConfigurationLoads, DirectoriesUsable,
     SettingsLoad, UsersLoad, TokenLoads, Agree, UnitDiffers, WasActive,
     Holding
<1>4. Cleared' /\ RepairsSucceed'
  BY DEF vars, IInv, Cleared, RepairsSucceed, Installing, Place, At, Ended,
     Found
<1>5. QED
  BY <1>1, <1>2, <1>3, <1>4 DEF IInv

LEMMA NextKeeps == IInv /\ [Next]_vars => IInv'
<1> SUFFICES ASSUME IInv, [Next]_vars PROVE IInv'
  OBVIOUS
<1>1. CASE UNCHANGED vars
  BY <1>1, StutteringKeeps
<1>2. CASE Prepare
  BY <1>2, BeginKeeps, OnboardKeeps, DeclineIdentityKeeps, PreflightKeeps,
     RequireApprovalKeeps, CreateGroupKeeps, CreateUserKeeps, EnsureRuleKeeps,
     TearRuleKeeps, EnsureDirectoriesKeeps, EnsureAuditFileKeeps,
     StepFailsKeeps DEF Prepare
<1>3. CASE Configure
  BY <1>3, WriteConfigurationKeeps, WriteMarkerKeeps,
     BaseConfigurationFailsKeeps, UndoBaseKeeps, UndoBaseFailsKeeps,
     InstallToolKeeps, RefuseToolKeeps, ToolFailsKeeps DEF Configure
<1>4. CASE Connect
  BY <1>4, ResolveTelegramInputsKeeps, WriteTelegramFileKeeps,
     WriteTelegramFailsKeeps, ValidateGeneratedFilesKeeps,
     ValidationFailsKeeps, UndoTelegramKeeps, UndoTelegramFailsKeeps
     DEF Connect
<1>5. CASE Deploy
  BY <1>5, QueryServiceKeeps, InstallUnitKeeps, EnableServiceKeeps,
     StartServiceKeeps, VerifyServiceKeeps, DeploymentFailsKeeps,
     UndoServiceKeeps, UndoServiceFailsKeeps DEF Deploy
<1>6. CASE Conclude
  BY <1>6, RunHealthKeeps, RunAcceptanceKeeps, SucceedKeeps DEF Conclude
<1>7. CASE Uninstall
  BY <1>7, BeginUninstallKeeps, RemoveServiceKeeps, ServiceRemovalFailsKeeps,
     RemoveVolatileKeeps, DropToolKeeps, DropConfigurationKeeps,
     DropStateKeeps, DropLogsKeeps, DropFailsKeeps, InterruptDropKeeps,
     DeleteUserKeeps, DeleteGroupKeeps, AccountFailsKeeps, PurgedKeeps
     DEF Uninstall
<1>8. CASE Interrupt \/ RestartWorker
  BY <1>8, InterruptKeeps, RestartWorkerKeeps
<1>9. QED
  BY <1>1, <1>2, <1>3, <1>4, <1>5, <1>6, <1>7, <1>8 DEF Next

LEMMA Invariance == Spec => []IInv
<1>1. QED
  BY InitHolds, NextKeeps, PTL DEF Spec

LEMMA TypesSuffice == IInv => TypeOK
BY DEF IInv, Types, TypeOK, HostType, RunType

LEMMA ReadyWhenSucceeded == IInv => InstallationIsReady
<1> SUFFICES ASSUME IInv, Ended("succeeded") PROVE InstallationIsReady
  BY DEF InstallationIsReady
<1>1. Installing /\ Place = "end"
  BY DEF IInv, Process, Place, Ended
<1>2. /\ host.group /\ host.user /\ host.rule = "current"
      /\ {"configuration", "state", "logs"} \subseteq host.roots
      /\ "audit" \in host.roots /\ marker = NewMarker
      /\ ToolHealthy("taskwarrior")
      /\ run.req.calendar => ToolHealthy("calendar")
  BY <1>1 DEF IInv, Provided
<1>3. host.roots = RootNames
  BY <1>2 DEF IInv, Types, HostType, RootNames
<1>4. run.req.telegram => files = [f \in ManagedFiles |-> TextOf(f)]
  <2>1. run.req.telegram => \A f \in ManagedFiles : files[f] = TextOf(f)
    BY <1>1, FilesAreReady DEF Connected, Concluding
  <2>2. QED
    BY <2>1 DEF IInv, Types, FilesType
<1>5. run.req.telegram => Established
  BY <1>1 DEF IInv, Served, Connected, Concluding, Established
<1>6. QED
  BY <1>2, <1>3, <1>4, <1>5 DEF InstallationIsReady

LEMMA CleanWhenPurged == IInv => PurgeIsClean
<1> SUFFICES ASSUME IInv, Ended("purged") PROVE PurgeIsClean
  BY DEF PurgeIsClean
<1>1. ~Installing /\ Place = "end" /\ ~run.botched
  BY DEF IInv, Process, Place, Ended
<1>2. host.roots = {} /\ host.trees = {} /\ host.broken = {}
  BY <1>1, NothingIsLeft
<1>3. /\ ~host.group /\ ~host.user /\ host.rule = "absent"
      /\ host.records = {} /\ host.confs = {} /\ marker = None
      /\ \A f \in ManagedFiles : files[f] = None
      /\ service.unit = None /\ ~service.enabled /\ service.state = "off"
  BY <1>1 DEF IInv, Cleared
<1>4. host = [group |-> FALSE, user |-> FALSE, rule |-> "absent", roots |-> {},
              trees |-> {}, broken |-> {}, records |-> {}, confs |-> {}]
  BY <1>2, <1>3 DEF IInv, Types, HostType
<1>5. files = [f \in ManagedFiles |-> None]
  BY <1>3 DEF IInv, Types, FilesType
<1>6. QED
  BY <1>3, <1>4, <1>5 DEF PurgeIsClean

LEMMA StartedOnTheirFiles == IInv => StartedOnInstalledFiles
BY DEF IInv, Transaction, Served, StartedOnInstalledFiles, Place, At, Concluding

LEMMA FailuresKeep == IInv => FailureKeepsService
<1> SUFFICES ASSUME IInv, Ended("failed"), Installing, ~run.botched,
                    run.req.telegram
             PROVE  /\ past.ran => service.state = "on" /\ Startable
                    /\ past.agreed => Agree
  BY DEF FailureKeepsService
<1>1. BacksOut /\ run.at = "idle"
  BY DEF BacksOut, Ended, At
<1>2. QED
  BY <1>1 DEF IInv, Kept, At

-----------------------------------------------------------------------------
(* The state of the host, of systemd and of either program keeps its type. *)
(* Code: installers/release_candidate.                                     *)
THEOREM InstallationIsTyped == Spec => []TypeOK
<1>1. QED
  BY Invariance, TypesSuffice, PTL

(* An installation that says it succeeded left a host that is ready, and a *)
(* purge that says so left nothing, whatever came before: for any number   *)
(* of runs, failing steps, interruptions and deaths of the worker.         *)
(* Code: run_release_candidate_orchestration, orchestration_engine.py, and *)
(* execute_release_candidate_uninstall, uninstall_executor.py.             *)
THEOREM SuccessesAreReal == Spec => []SuccessIsReal
<1>1. IInv => SuccessIsReal
  BY ReadyWhenSucceeded, CleanWhenPurged, StartedOnTheirFiles DEF SuccessIsReal
<1>2. QED
  BY <1>1, Invariance, PTL

(* A repair or an upgrade that fails on its own leaves a worker that ran   *)
(* before it running, on files that belong together.                       *)
(* Code: the rollbacks of telegram_configuration.py and                    *)
(* systemd_service.py.                                                     *)
THEOREM ServicesSurviveFailures == Spec => []FailureKeepsService
<1>1. QED
  BY Invariance, FailuresKeep, PTL

(* Every managed directory belongs to an account that exists.              *)
(* Code: provision_system_layout, provisioning.py, and                     *)
(* _remove_system_account, uninstall_executor.py.                          *)
THEOREM DirectoriesHaveAnOwner == Spec => []FilesHaveAnOwner
<1>1. IInv => FilesHaveAnOwner
  BY DEF IInv
<1>2. QED
  BY <1>1, Invariance, PTL

(* An approved and answered repair that no step of its own fails succeeds, *)
(* whatever it finds, but for a torn rule and for what is there of a tool  *)
(* whose installer refused it.                                             *)
(* Code: the boundaries of orchestration_engine.py, and                    *)
(* _prepare_upgrade_record, calendar.py.                                   *)
THEOREM ApprovedRepairsSucceed == Spec => []RepairsSucceed
<1>1. IInv => RepairsSucceed
  BY DEF IInv
<1>2. QED
  BY <1>1, Invariance, PTL
=============================================================================
