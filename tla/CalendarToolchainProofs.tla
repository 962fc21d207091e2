---------------------- MODULE CalendarToolchainProofs ----------------------
(***************************************************************************)
(* What a calendar installation record stands for, what a failed run       *)
(* leaves and what an acknowledged installation may count on, for any      *)
(* versions, lock files, requests, number of runs, faults, crashes and     *)
(* edits.  The argument: a run removes only a root it moved into an empty  *)
(* place, and nothing that vouches for a root names an empty place; while  *)
(* it runs, the roots and the record are those it found, but for the root  *)
(* it moved and the record it set aside; and what it has tested so far     *)
(* goes with its phase.                                                    *)
(***************************************************************************)
EXTENDS CalendarToolchain, TLAPS

Mode == job.req.mode
Version == job.req.version

(* The phases a run of each mode can be in. *)
CommonPhases == {"prepare", "retire", "validate", "preflight", "versions",
                 "smoke", "layout", "configure", "write", "undo", "restore",
                 "end"}
PhasesOf(mode) ==
  CASE mode = "verified" ->
         CommonPhases \cup {"inspect", "match", "refresh", "stage",
                            "environment", "python", "move", "settle",
                            "repython"}
    [] mode = "bundled" ->
         CommonPhases \cup {"inspect", "match", "refresh", "stage",
                            "wheelhouse", "environment", "python", "move",
                            "settle", "repython"}
    [] mode = "external" ->
         CommonPhases \cup {"hash", "rehash", "register", "rehash2", "rehash3"}
AllPhases ==
  CommonPhases \cup
  {"idle", "caldav", "inspect", "match", "refresh", "stage", "wheelhouse",
   "environment", "python", "move", "settle", "repython", "hash", "rehash",
   "register", "rehash2", "rehash3"}

RootTypes == [Versions -> Trees \cup {None}]
Snapshots == [roots : RootTypes, record : Records \cup {None}]
JobType == [at : AllPhases, req : Requests \cup {None},
            staged : Trees \cup {None}, seen : Externals \cup {None},
            took : BOOLEAN, moved : BOOLEAN, already : BOOLEAN,
            outcome : {"none", "ok", "failed"}, before : Snapshots \cup {None}]
ConfigType == [dirs : BOOLEAN, khal : Zones \cup {None},
               vdir : {"none", "local", "caldav"}, saved : BOOLEAN,
               password : BOOLEAN]
SpentType == [attempts : Nat, faults : Nat, edits : Nat]
PastType == [acked : Records \cup {None}, refreshed : BOOLEAN,
             botched : BOOLEAN]

Types ==
  /\ lockFile \in Locks /\ external \in Externals
  /\ roots \in RootTypes
  /\ record \in Records \cup {None} /\ backup \in Records \cup {None}
  /\ config \in ConfigType
  /\ job \in JobType
  /\ spent \in SpentType
  /\ past \in PastType

Running == job.at \notin {"idle", "caldav"}

(* The process is idle, switches to CalDAV, or works on a request. *)
Process ==
  /\ job.at = "idle" => job = Idle
  /\ Running => /\ job.req \in Requests
                /\ job.at \in PhasesOf(Mode)
                /\ job.before \in Snapshots

(* The switch to CalDAV is only ever made with a password and a backup. *)
Switch ==
  config.vdir = "caldav" \/ job.at = "caldav" => config.saved /\ config.password

(* What a run has done by the time it is in this phase. *)
Flags ==
  /\ job.at \in {"prepare", "retire"} => ~job.took
  /\ job.at = "restore" => job.took
  /\ job.moved => job.at \in {"settle", "repython", "write", "undo", "restore", "end"}
  /\ job.already => job.at \in {"layout", "configure", "undo", "restore", "end"}
  /\ job.at = "end" => job.outcome \in {"ok", "failed"}
  /\ job.at \in {"undo", "restore"} => job.outcome = "failed"

Answered == job.at = "end" /\ job.outcome = "ok"

(* Until it has an answer, a run leaves the roots and the record as it     *)
(* found them, but for the root it moved, the record it set aside, and the *)
(* evidence an approved repair replaced.                                   *)
Snapshot ==
  Running /\ ~Answered /\ ~past.botched =>
    /\ IF job.moved /\ job.at \notin {"restore", "end"}
       THEN [roots EXCEPT ![Version] = None] = job.before.roots
       ELSE roots = job.before.roots
    /\ IF job.took /\ job.at # "end"
       THEN record = None /\ backup = job.before.record
       ELSE record = job.before.record \/ EvidenceReplaced

(* Only an upgrade sets a record aside, once it is linked as a backup. *)
SetAside ==
  /\ job.at = "retire" => record # None /\ backup = record
  /\ job.at \in {"prepare", "retire"} => job.req.install = "upgrade"

Staged == {"wheelhouse", "environment", "python", "versions", "smoke",
           "layout", "configure", "move", "settle", "repython", "write"}

(* What a managed run knows of the environment it builds. *)
Tested ==
  Running /\ Mode \in Managed /\ ~job.already =>
    /\ job.at \in Staged =>
         job.staged \in Trees /\ job.staged.quality \in Qualities
    /\ job.at \in {"smoke", "layout", "configure", "move", "settle",
                   "repython", "write"} => job.staged.quality # "wrong"
    /\ job.at \in {"layout", "configure", "move", "settle", "repython", "write"}
         => job.staged.quality # "broken"
    /\ job.at \in {"repython", "write"} => job.staged.quality # "pinned"
    /\ job.at = "write" => job.staged.quality # "shifted"
    /\ job.at \in {"settle", "repython", "write"} => roots[Version] = job.staged

(* What an external run knows of the executables it registers: they are    *)
(* never replaced by good ones, so the ones it saw were good if these are. *)
Seen ==
  Running /\ Mode = "external" =>
    /\ job.at \in {"versions", "rehash", "register", "smoke", "rehash2",
                   "layout", "configure", "rehash3", "write"}
         => job.seen \in Externals /\ (external = "good" => job.seen = "good")
    /\ job.at \in {"rehash", "register", "smoke", "rehash2", "layout",
                   "configure", "rehash3", "write"} => job.seen = "good"

Whole(v) == roots[v] # None /\ IntactTree(roots[v])
Vouches(r) ==
  IF r.mode = "external" THEN r.evidence = "good"
  ELSE /\ roots[r.version] # None
       /\ roots[r.version].quality = "good"
       /\ roots[r.version].lock = r.evidence \/ past.refreshed
Sound(r) == r.mode \in Managed => Whole(r.version)

Vouched ==
  ~past.botched => /\ record # None => Vouches(record)
                   /\ backup # None => Vouches(backup)

(* The root that a run moves is not one that a record stands for. *)
Apart ==
  job.moved /\ job.at \in {"settle", "repython", "write", "undo"} =>
    /\ roots[Version] # None
    /\ past.acked # None /\ past.acked.mode \in Managed
         => past.acked.version # Version
    /\ ~past.botched =>
         /\ record # None /\ record.mode \in Managed => record.version # Version
         /\ backup # None /\ backup.mode \in Managed => backup.version # Version

(* An installation that is found, or answered, is whole. *)
Found ==
  /\ job.at = "match" => record # None /\ Whole(Version)
  /\ job.at = "refresh" =>
       /\ MayRefresh(job.req)
       /\ record # None /\ record.version = Version /\ record.mode = Mode
       /\ Whole(Version)
  /\ (job.at \in {"layout", "configure"} /\ job.already) \/ Answered =>
       record # None /\ Sound(record)

(* The record in place is the one that was last acknowledged. *)
Remembered ==
  past.acked # None =>
    /\ Sound(past.acked)
    /\ ~past.botched /\ ~past.refreshed =>
         /\ past.acked \in {record, backup}
         /\ record # None /\ ~Answered => past.acked = record

IInv ==
  /\ Types /\ Process /\ Switch /\ Flags /\ Snapshot /\ SetAside /\ Tested
  /\ Seen /\ Vouched /\ Apart /\ Found /\ Remembered

-----------------------------------------------------------------------------
(* Requests, phases and routes.                                            *)
ManagedPhases == {"inspect", "match", "refresh", "stage", "environment",
                  "python", "move", "settle", "repython"}
Checks == {"hash", "rehash", "register", "rehash2", "rehash3"}

LEMMA Requested ==
  ASSUME Process, Running
  PROVE  /\ job.req \in Requests /\ job.req \in RequestType /\ job.req # None
         /\ Mode \in {"verified", "bundled", "external"}
         /\ Mode \in Managed <=> Mode # "external"
         /\ Version \in Versions /\ job.req.lock \in Locks
         /\ job.req.zone \in Zones
         /\ job.before \in Snapshots
         /\ job.at \in PhasesOf(Mode)
  BY RequestsAreTyped, NoneIsDistinct
     DEF Process, RequestType, Managed, Mode, Version

LEMMA PhaseSets ==
  /\ Mode \in Managed =>
       /\ CommonPhases \cup ManagedPhases \subseteq PhasesOf(Mode)
       /\ PhasesOf(Mode) \subseteq CommonPhases \cup ManagedPhases \cup {"wheelhouse"}
  /\ Mode = "bundled" => "wheelhouse" \in PhasesOf(Mode)
  /\ Mode = "verified" => "wheelhouse" \notin PhasesOf(Mode)
  /\ Mode = "external" => PhasesOf(Mode) = CommonPhases \cup Checks
  BY DEF PhasesOf, CommonPhases, ManagedPhases, Checks, Managed

LEMMA PhasesAreKnown ==
  ASSUME Process, Running
  PROVE  PhasesOf(Mode) \subseteq AllPhases
  <1>1. CommonPhases \cup ManagedPhases \cup Checks \cup {"wheelhouse"}
          \subseteq AllPhases
    BY DEF AllPhases, CommonPhases, ManagedPhases, Checks
  <1> QED
    BY <1>1, PhaseSets, Requested

LEMMA Routes ==
  /\ Mode \in Managed =>
       /\ Route(Mode).first = "inspect"
       /\ Follower("inspect") = "preflight" /\ Follower("preflight") = "stage"
       /\ Mode = "bundled" =>
            Follower("stage") = "wheelhouse" /\ Follower("wheelhouse") = "environment"
       /\ Mode = "verified" => Follower("stage") = "environment"
       /\ Follower("environment") = "python" /\ Follower("python") = "versions"
       /\ Follower("versions") = "smoke" /\ Follower("smoke") = "layout"
       /\ Follower("layout") = "configure" /\ Follower("configure") = "move"
       /\ Follower("settle") = "repython" /\ Follower("repython") = "write"
  /\ Mode = "external" =>
       /\ Route(Mode).first = "preflight"
       /\ Follower("preflight") = "hash" /\ Follower("hash") = "versions"
       /\ Follower("versions") = "rehash" /\ Follower("rehash") = "register"
       /\ Follower("register") = "smoke" /\ Follower("smoke") = "rehash2"
       /\ Follower("rehash2") = "layout" /\ Follower("layout") = "configure"
       /\ Follower("configure") = "rehash3" /\ Follower("rehash3") = "write"
  <1>1. CASE Mode = "verified"
    <2>1. Route(Mode) = [first |-> "inspect", build |-> VerifiedBuild,
                         commit |-> VerifiedCommit]
      BY <1>1 DEF Route
    <2> QED
      BY <1>1, <2>1 DEF Follower, Mode, VerifiedBuild, VerifiedCommit, Managed
  <1>2. CASE Mode = "bundled"
    <2>1. Route(Mode) = [first |-> "inspect", build |-> BundledBuild,
                         commit |-> BundledCommit]
      BY <1>2 DEF Route
    <2> QED
      BY <1>2, <2>1 DEF Follower, Mode, BundledBuild, BundledCommit, Managed
  <1>3. CASE Mode = "external"
    <2>1. Route(Mode) = [first |-> "preflight", build |-> ExternalChecks,
                         commit |-> ExternalCommit]
      BY <1>3 DEF Route
    <2> QED
      BY <1>3, <2>1 DEF Follower, Mode, ExternalChecks, ExternalCommit, Managed
  <1> QED
    BY <1>1, <1>2, <1>3 DEF Managed

-----------------------------------------------------------------------------
(* What the ways to change the job leave of it.                            *)
Same == /\ job'.req = job.req /\ job'.before = job.before
        /\ job'.took = job.took /\ job'.moved = job.moved

LEMMA Going ==
  ASSUME job \in JobType, NEW p \in AllPhases, Go(p)
  PROVE  /\ job' \in JobType /\ job'.at = p /\ Same
         /\ job'.staged = job.staged /\ job'.seen = job.seen
         /\ job'.already = job.already /\ job'.outcome = job.outcome
  BY DEF Go, JobType, Same

LEMMA Failing ==
  ASSUME job \in JobType, Fail
  PROVE  /\ job' \in JobType /\ job'.at = "undo" /\ Same
         /\ job'.already = job.already /\ job'.outcome = "failed"
  BY DEF Fail, JobType, AllPhases, CommonPhases, Same

LEMMA Succeeding ==
  ASSUME job \in JobType, Succeed
  PROVE  /\ job' \in JobType /\ job'.at = "end" /\ Same
         /\ job'.staged = job.staged /\ job'.seen = job.seen
         /\ job'.already = job.already /\ job'.outcome = "ok"
  BY DEF Succeed, JobType, AllPhases, CommonPhases, Same

LEMMA Holding ==
  ASSUME job \in JobType, NEW p \in AllPhases, NEW t \in Trees,
         job' = [job EXCEPT !.at = p, !.staged = t]
  PROVE  /\ job' \in JobType /\ job'.at = p /\ Same
         /\ job'.staged = t /\ job'.seen = job.seen
         /\ job'.already = job.already /\ job'.outcome = job.outcome
  BY DEF JobType, Same

LEMMA Built ==
  ASSUME job \in JobType, job.staged \in Trees, NEW p \in AllPhases,
         NEW q \in Qualities,
         job' = [job EXCEPT !.at = p, !.staged.quality = q]
  PROVE  /\ job' \in JobType /\ job'.at = p /\ Same
         /\ job'.staged \in Trees /\ job'.staged.quality = q
         /\ job'.seen = job.seen
         /\ job'.already = job.already /\ job'.outcome = job.outcome
  <1> DEFINE t == [job.staged EXCEPT !.quality = q]
  <1>1. t \in Trees /\ t.quality = q
    BY DEF Trees
  <1>2. job' = [job EXCEPT !.at = p, !.staged = t]
    BY DEF JobType
  <1> QED
    BY <1>1, <1>2, Holding

LEMMA Seeing ==
  ASSUME job \in JobType, NEW p \in AllPhases, NEW e \in Externals,
         job' = [job EXCEPT !.at = p, !.seen = e]
  PROVE  /\ job' \in JobType /\ job'.at = p /\ Same
         /\ job'.staged = job.staged /\ job'.seen = e
         /\ job'.already = job.already /\ job'.outcome = job.outcome
  BY DEF JobType, Same

LEMMA Settling ==
  ASSUME job \in JobType, Settled
  PROVE  /\ job' \in JobType /\ job'.at = "layout" /\ Same
         /\ job'.staged = job.staged /\ job'.seen = job.seen
         /\ job'.already /\ job'.outcome = job.outcome
  BY DEF Settled, JobType, AllPhases, CommonPhases, Same

LEMMA IdleIsTyped ==
  /\ Idle \in JobType /\ Idle.at = "idle" /\ ~Idle.took /\ ~Idle.moved
  /\ ~Idle.already
  BY DEF Idle, JobType, AllPhases

LEMMA Spending ==
  ASSUME spent \in SpentType
  PROVE  /\ [spent EXCEPT !.attempts = @ + 1] \in SpentType
         /\ [spent EXCEPT !.faults = @ + 1] \in SpentType
         /\ [spent EXCEPT !.edits = @ + 1] \in SpentType
  BY DEF SpentType

-----------------------------------------------------------------------------
LEMMA SameEvidence ==
  ASSUME job'.req = job.req, job'.before = job.before, record' = record
  PROVE  EvidenceReplaced' <=> EvidenceReplaced
  BY DEF EvidenceReplaced, MayRefresh, IdentityMatches

(* Steps that leave the roots, the record and its backup alone.            *)
Ordinary == AllPhases \ {"idle", "caldav", "undo", "restore", "end"}
Steady == UNCHANGED <<lockFile, external, roots, record, backup, past>>

LEMMA Looking ==
  ASSUME IInv, job.at \in Ordinary, Steady,
         config' \in ConfigType, Switch', spent' \in SpentType,
         job' \in JobType, Same,
         job'.at \in PhasesOf(Mode) \ {"restore"},
         job'.at = "end" => job'.outcome = "ok",
         Flags', SetAside', Tested', Seen', Found'
  PROVE  IInv'
  <1>1. Running
    BY DEF Ordinary, Running
  <1>2. job'.at \notin {"idle", "caldav"}
    BY <1>1, PhaseSets, Requested
       DEF IInv, CommonPhases, ManagedPhases, Checks
  <1>3. Types' /\ Process'
    BY <1>1, <1>2, Requested
       DEF IInv, Types, Process, Steady, Same, Running, Mode
  <1>4. ~Answered /\ (job'.at = "end" => Answered')
    BY DEF Answered, Ordinary
  <1>5. Snapshot'
    BY <1>1, <1>4, SameEvidence
       DEF IInv, Snapshot, Steady, Same, Version, Running, Answered, Ordinary
  <1>6. Vouched'
    BY DEF IInv, Vouched, Vouches, Steady
  <1>7. Apart'
    BY DEF IInv, Apart, Flags, Steady, Same, Version, Ordinary
  <1>8. Remembered'
    BY <1>4 DEF IInv, Remembered, Sound, Whole, Steady
  <1> QED
    BY <1>3, <1>5, <1>6, <1>7, <1>8 DEF IInv

(* A phase goes well. *)
LEMMA Continuing ==
  ASSUME IInv, job.at \in Ordinary, Steady, UNCHANGED spent,
         config' \in ConfigType, Switch',
         job' \in JobType, Same,
         job'.already = job.already, job'.outcome = job.outcome,
         job'.at \in PhasesOf(Mode) \ {"prepare", "retire", "match", "refresh",
                                       "undo", "restore", "end"},
         job.moved => job'.at \in {"settle", "repython", "write"},
         job.already => job'.at = "configure",
         Tested', Seen'
  PROVE  IInv'
  <1>1. Flags' /\ SetAside'
    BY DEF IInv, Flags, SetAside, Same
  <1>2. Found'
    <2>1. ~Answered' /\ (job'.already => job.at \in {"layout", "configure"})
      BY DEF IInv, Flags, Answered, Ordinary
    <2> QED
      BY <2>1 DEF IInv, Found, Sound, Whole, Steady
  <1> QED
    BY <1>1, <1>2, Looking DEF IInv, Types

(* A phase gives up. *)
LEMMA GivingUp ==
  ASSUME IInv, job.at \in Ordinary, Steady, spent' \in SpentType,
         config' \in ConfigType, Switch', Fail
  PROVE  IInv'
  <1>1. /\ job' \in JobType /\ job'.at = "undo" /\ Same
        /\ job'.already = job.already /\ job'.outcome = "failed"
    BY Failing DEF IInv, Types
  <1>2. job'.at \in PhasesOf(Mode)
    BY <1>1, PhaseSets, Requested DEF IInv, Ordinary, Running, CommonPhases
  <1>3. Flags' /\ SetAside' /\ Tested' /\ Seen' /\ Found'
    BY <1>1 DEF IInv, Flags, SetAside, Tested, Staged, Seen, Found, Answered, Same
  <1> QED
    BY <1>1, <1>2, <1>3, Looking

(* Nothing but the job changes. *)
LEMMA SwitchKept ==
  ASSUME Switch, UNCHANGED config, job'.at # "caldav"
  PROVE  Switch'
  BY DEF Switch

LEMMA Refusing ==
  ASSUME IInv, job.at \in Ordinary, UNCHANGED <<inputs, spent, past>>, UNCHANGED files, Fail
  PROVE  IInv'
  <1>1. job'.at = "undo"
    BY Failing DEF IInv, Types
  <1>2. Switch' /\ config' \in ConfigType /\ spent' \in SpentType /\ Steady
    BY <1>1, SwitchKept DEF IInv, Types, files, inputs, Steady
  <1> QED
    BY <1>2, GivingUp

-----------------------------------------------------------------------------
(* The phases that look and build.                                         *)

(* What a phase that leaves the files alone starts from. *)
LEMMA Starting ==
  ASSUME IInv, NEW p \in Ordinary, Phase(p), UNCHANGED files
  PROVE  /\ job.at = p /\ Steady /\ UNCHANGED <<inputs, spent, config>>
         /\ Running /\ job \in JobType /\ spent' \in SpentType
         /\ config' \in ConfigType
         /\ job.moved => p \in {"settle", "repython", "write"}
         /\ job.already => p \in {"layout", "configure"}
         /\ job.at \in PhasesOf(Mode) /\ Mode \in {"verified", "bundled", "external"}
         /\ Version \in Versions
  BY Requested
     DEF IInv, Phase, At, Types, Flags, Steady, files, inputs, Running, Ordinary

(* It goes on to the phase that its route names. *)
Onto(q) == /\ job' \in JobType /\ job'.at = q /\ Same
           /\ job'.staged = job.staged /\ job'.seen = job.seen
           /\ job'.already = job.already /\ job'.outcome = job.outcome

LEMMA Advancing ==
  ASSUME IInv, NEW p \in Ordinary \ {"layout", "configure"}, Phase(p),
         UNCHANGED files, NEW q \in PhasesOf(Mode), Go(q),
         q \notin {"prepare", "retire", "match", "refresh", "undo", "restore", "end"},
         p \in {"settle", "repython"} => q \in {"repython", "write"},
         p # "write",
         Onto(q) => Tested' /\ Seen'
  PROVE  IInv'
  <1>1. /\ job.at = p /\ Steady /\ UNCHANGED spent /\ job \in JobType
        /\ config' = config /\ config' \in ConfigType /\ Running
        /\ job.moved => p \in {"settle", "repython"}
        /\ ~job.already
    BY Starting
  <1>2. q \in AllPhases
    BY <1>1, PhasesAreKnown DEF IInv
  <1>3. Onto(q)
    BY <1>1, <1>2, Going DEF Onto
  <1>4. q # "caldav"
    BY <1>1, PhaseSets, Requested
       DEF IInv, CommonPhases, ManagedPhases, Checks
  <1>5. Switch'
    BY <1>1, <1>3, <1>4, SwitchKept DEF IInv, Onto
  <1> QED
    BY <1>1, <1>3, <1>5, Continuing DEF Onto

LEMMA ValidateStep ==
  ASSUME IInv, ValidateConfig
  PROVE  IInv'
  <1>1. /\ Phase("validate") /\ UNCHANGED files /\ "validate" \in Ordinary
        /\ UNCHANGED <<inputs, spent, past>>
    BY DEF ValidateConfig, Phase, Ordinary, AllPhases, CommonPhases
  <1>2. /\ job.at = "validate" /\ Running
        /\ Mode \in {"verified", "bundled", "external"}
    BY <1>1, Starting
  <1>3. CASE Fail
    BY <1>1, <1>2, <1>3, Refusing
  <1>4. CASE Go(Route(Mode).first)
    <2> DEFINE q == Route(Mode).first
    <2>1. q \in PhasesOf(Mode) /\ q \in {"inspect", "preflight"}
      BY <1>2, Routes, PhaseSets DEF CommonPhases, ManagedPhases, Managed
    <2>2. Onto(q) => Tested' /\ Seen'
      BY <2>1 DEF Onto, Tested, Seen, Staged
    <2> QED
      BY <1>1, <1>4, <2>1, <2>2, Advancing
  <1> QED
    BY <1>3, <1>4 DEF ValidateConfig, Mode

LEMMA InspectTracesStep ==
  ASSUME IInv, InspectTraces
  PROVE  IInv'
  <1>1. /\ Phase("inspect") /\ UNCHANGED files /\ "inspect" \in Ordinary
        /\ UNCHANGED <<inputs, spent, past>>
    BY DEF InspectTraces, Phase, Ordinary, AllPhases
  <1>2. /\ job.at = "inspect" /\ Running /\ Mode \in Managed /\ Mode # "external"
        /\ Steady /\ job \in JobType /\ config' = config /\ spent' \in SpentType
        /\ ~job.moved /\ ~job.already
    BY <1>1, Starting, PhaseSets, Requested
       DEF Managed, CommonPhases, Checks, IInv, Types
  <1>3. CASE Fail
    BY <1>1, <1>2, <1>3, Refusing
  <1>4. CASE Go(Follower(job.at))
    <2>1. Follower("inspect") = "preflight" /\ "preflight" \in PhasesOf(Mode)
      BY <1>2, Routes, PhaseSets DEF CommonPhases
    <2>2. Onto("preflight") => Tested' /\ Seen'
      BY DEF Onto, Tested, Seen, Staged
    <2> QED
      BY <1>1, <1>2, <1>4, <2>1, <2>2, Advancing
  <1>5. CASE /\ roots[Version] # None /\ record # None
             /\ InspectActivated(roots[Version]) /\ Go("match")
    <2>1. /\ job' \in JobType /\ job'.at = "match" /\ Same
          /\ job'.already = job.already /\ job'.outcome = job.outcome
      BY <1>2, <1>5, Going DEF AllPhases
    <2>2. Flags' /\ SetAside' /\ Tested' /\ Seen'
      BY <1>2, <2>1 DEF Flags, SetAside, Tested, Staged, Seen, Same
    <2>3. Found'
      BY <1>2, <1>5, <2>1
         DEF Found, Whole, InspectActivated, Steady, Same, Version, Answered
    <2>4. "match" \in PhasesOf(Mode)
      BY <1>2, PhaseSets DEF ManagedPhases
    <2>5. Switch' /\ config' \in ConfigType
      BY <1>2, <2>1 DEF IInv, Switch, Types
    <2> QED
      BY <1>1, <1>2, <2>1, <2>2, <2>3, <2>4, <2>5, Looking
  <1> QED
    BY <1>3, <1>4, <1>5 DEF InspectTraces, Advance, Version

LEMMA MatchStep ==
  ASSUME IInv, MatchRecord
  PROVE  IInv'
  <1>1. /\ Phase("match") /\ UNCHANGED files /\ "match" \in Ordinary
        /\ UNCHANGED <<inputs, spent, past>>
    BY DEF MatchRecord, Phase, Ordinary, AllPhases
  <1>2. /\ job.at = "match" /\ Running /\ Mode \in Managed /\ Mode # "external"
        /\ Steady /\ job \in JobType /\ config' = config /\ spent' \in SpentType
        /\ ~job.moved /\ ~job.already
    BY <1>1, Starting, PhaseSets, Requested
       DEF Managed, CommonPhases, Checks, IInv, Types
  <1>3. record # None /\ Whole(Version)
    BY <1>2 DEF IInv, Found
  <1>4. CASE Fail
    BY <1>1, <1>2, <1>4, Refusing
  <1>5. CASE RecordMatches(record, job.req) /\ Settled
    <2>1. /\ job' \in JobType /\ job'.at = "layout" /\ Same
          /\ job'.already /\ job'.outcome = job.outcome
      BY <1>2, <1>5, Settling
    <2>2. Flags' /\ SetAside' /\ Tested' /\ Seen'
      BY <1>2, <2>1 DEF Flags, SetAside, Tested, Staged, Seen, Same, Mode
    <2>3. Sound(record)
      BY <1>3, <1>5 DEF Sound, RecordMatches, Version
    <2>4. Found'
      BY <1>2, <1>3, <2>1, <2>3 DEF Found, Sound, Whole, Steady, Answered
    <2>5. "layout" \in PhasesOf(Mode)
      BY <1>2, PhaseSets DEF CommonPhases
    <2>6. Switch' /\ config' \in ConfigType
      BY <1>2, <2>1 DEF IInv, Switch, Types
    <2> QED
      BY <1>1, <1>2, <2>1, <2>2, <2>4, <2>5, <2>6, Looking
  <1>6. CASE MayRefresh(job.req) /\ IdentityMatches(record, job.req)
             /\ Go("refresh")
    <2>1. /\ job' \in JobType /\ job'.at = "refresh" /\ Same
          /\ job'.already = job.already /\ job'.outcome = job.outcome
      BY <1>2, <1>6, Going DEF AllPhases
    <2>2. Flags' /\ SetAside' /\ Tested' /\ Seen'
      BY <1>2, <2>1 DEF Flags, SetAside, Tested, Staged, Seen, Same
    <2>3. Found'
      BY <1>2, <1>3, <1>6, <2>1
         DEF Found, Whole, IdentityMatches, MayRefresh, Steady, Same, Version,
             Mode, Answered
    <2>4. "refresh" \in PhasesOf(Mode)
      BY <1>2, PhaseSets DEF ManagedPhases
    <2>5. Switch' /\ config' \in ConfigType
      BY <1>2, <2>1 DEF IInv, Switch, Types
    <2> QED
      BY <1>1, <1>2, <2>1, <2>2, <2>3, <2>4, <2>5, Looking
  <1> QED
    BY <1>4, <1>5, <1>6 DEF MatchRecord

(* An external registration that matches is answered as it stands. *)
LEMMA RegisterStep ==
  ASSUME IInv, InspectRegistration
  PROVE  IInv'
  <1>1. /\ Phase("register") /\ UNCHANGED files /\ "register" \in Ordinary
        /\ UNCHANGED <<inputs, spent, past>>
    BY DEF InspectRegistration, Phase, Ordinary, AllPhases
  <1>2. /\ job.at = "register" /\ Running /\ Mode = "external"
        /\ Steady /\ job \in JobType /\ config' = config /\ spent' \in SpentType
        /\ UNCHANGED external /\ ~job.moved /\ ~job.already
    BY <1>1, Starting, PhaseSets, Requested
       DEF Managed, CommonPhases, ManagedPhases, IInv, Types, inputs
  <1>3. job.seen = "good" /\ job.seen \in Externals
    BY <1>2 DEF IInv, Seen, Externals
  <1>4. CASE Fail
    BY <1>1, <1>2, <1>4, Refusing
  <1>5. CASE Go(Follower(job.at))
    <2>1. Follower("register") = "smoke" /\ "smoke" \in PhasesOf(Mode)
      BY <1>2, Routes, PhaseSets DEF CommonPhases
    <2>2. Onto("smoke") => Tested' /\ Seen'
      BY <1>2, <1>3 DEF Onto, Tested, Seen, Same, Mode, Managed
    <2> QED
      BY <1>1, <1>2, <1>5, <2>1, <2>2, Advancing
  <1>6. CASE /\ record # None /\ RegistrationMatches(record, job.req, job.seen)
             /\ Settled
    <2>1. /\ job' \in JobType /\ job'.at = "layout" /\ Same
          /\ job'.already /\ job'.outcome = job.outcome /\ job'.seen = job.seen
      BY <1>2, <1>6, Settling
    <2>2. Flags' /\ SetAside' /\ Tested' /\ Seen'
      BY <1>2, <1>3, <2>1 DEF Flags, SetAside, Tested, Staged, Seen, Same, Mode
    <2>3. Sound(record)
      BY <1>6 DEF Sound, RegistrationMatches, Managed
    <2>4. Found'
      BY <1>2, <1>6, <2>1, <2>3 DEF Found, Sound, Whole, Steady, Answered
    <2>5. "layout" \in PhasesOf(Mode)
      BY <1>2, PhaseSets DEF CommonPhases
    <2>6. Switch' /\ config' \in ConfigType
      BY <1>2, <2>1 DEF IInv, Switch, Types
    <2> QED
      BY <1>1, <1>2, <2>1, <2>2, <2>4, <2>5, <2>6, Looking
  <1> QED
    BY <1>4, <1>5, <1>6 DEF InspectRegistration, Advance

(* A phase that makes a test goes on or gives up. *)
LEMMA Checking ==
  ASSUME IInv, NEW p \in Ordinary \ {"layout", "configure", "write"}, Phase(p),
         UNCHANGED files, NEW q \in PhasesOf(Mode),
         q \notin {"prepare", "retire", "match", "refresh", "undo", "restore", "end"},
         p \in {"settle", "repython"} => q \in {"repython", "write"},
         \/ Fail
         \/ Go(q) /\ (Onto(q) => Tested' /\ Seen')
  PROVE  IInv'
  <1>1. CASE Fail
    BY <1>1, Refusing, Starting DEF Phase
  <1>2. CASE Go(q) /\ (Onto(q) => Tested' /\ Seen')
    BY <1>2, Advancing
  <1> QED
    BY <1>1, <1>2

LEMMA PreflightStep ==
  ASSUME IInv, Preflight
  PROVE  IInv'
  <1> DEFINE q == Follower("preflight")
  <1>1. /\ Phase("preflight") /\ UNCHANGED files
        /\ "preflight" \in Ordinary \ {"layout", "configure", "write"}
        /\ Fail \/ Go(q)
    BY DEF Preflight, Check, Advance, Phase, At, Ordinary, AllPhases, CommonPhases
  <1>2. Running /\ Mode \in {"verified", "bundled", "external"}
    BY <1>1, Starting
  <1>3. q \in PhasesOf(Mode) /\ q \in {"stage", "hash"}
    BY <1>2, Routes, PhaseSets DEF Managed, ManagedPhases, Checks
  <1>4. Onto(q) => Tested' /\ Seen'
    BY <1>3 DEF Onto, Tested, Seen, Staged
  <1> QED
    BY <1>1, <1>3, <1>4, Checking

(* The lock file is copied into staging. *)
LEMMA StageStep ==
  ASSUME IInv, CreateStaging
  PROVE  IInv'
  <1> DEFINE q == Follower("stage")
  <1>1. /\ Phase("stage") /\ UNCHANGED files /\ "stage" \in Ordinary
        /\ UNCHANGED <<inputs, spent, past>>
    BY DEF CreateStaging, Phase, Ordinary, AllPhases
  <1>2. /\ job.at = "stage" /\ Running /\ Mode \in {"verified", "bundled"}
        /\ Steady /\ job \in JobType /\ config' = config /\ config' \in ConfigType
        /\ ~job.moved /\ ~job.already /\ lockFile \in Locks
    BY <1>1, Starting, PhaseSets, Requested
       DEF Managed, CommonPhases, Checks, IInv, Types
  <1>3. CASE Fail
    BY <1>1, <1>2, <1>3, Refusing
  <1>4. CASE job' = [job EXCEPT !.at = q,
                                !.staged = [lock |-> lockFile, quality |-> "good"]]
    <2>1. q \in PhasesOf(Mode) /\ q \in {"wheelhouse", "environment"}
      BY <1>2, Routes, PhaseSets DEF Managed, ManagedPhases
    <2>2. [lock |-> lockFile, quality |-> "good"] \in Trees
      BY <1>2 DEF Trees, Qualities
    <2>3. q \in AllPhases
      BY <1>2, <2>1, PhasesAreKnown DEF IInv
    <2>4. /\ job' \in JobType /\ job'.at = q /\ Same
          /\ job'.staged = [lock |-> lockFile, quality |-> "good"]
          /\ job'.already = job.already /\ job'.outcome = job.outcome
      BY <1>2, <1>4, <2>2, <2>3, Holding
    <2>5. Tested' /\ Seen'
      BY <2>1, <2>2, <2>4 DEF Tested, Seen, Qualities
    <2>6. Switch'
      BY <1>2, <2>1, <2>4, SwitchKept DEF IInv
    <2> QED
      BY <1>1, <1>2, <2>1, <2>4, <2>5, <2>6, Continuing
  <1> QED
    BY <1>3, <1>4 DEF CreateStaging

LEMMA WheelhouseStep ==
  ASSUME IInv, ExtractWheelhouse
  PROVE  IInv'
  <1> DEFINE q == Follower("wheelhouse")
  <1>1. /\ Phase("wheelhouse") /\ UNCHANGED files
        /\ "wheelhouse" \in Ordinary \ {"layout", "configure", "write"}
        /\ Fail \/ Go(q)
    BY DEF ExtractWheelhouse, Check, Advance, Phase, At, Ordinary, AllPhases
  <1>2. /\ job.at = "wheelhouse" /\ Running /\ Mode = "bundled" /\ ~job.already
    BY <1>1, Starting, PhaseSets DEF CommonPhases, Checks
  <1>3. q \in PhasesOf(Mode) /\ q = "environment"
    BY <1>2, Routes, PhaseSets DEF Managed, ManagedPhases
  <1>4. job.staged \in Trees /\ job.staged.quality \in Qualities
    BY <1>2 DEF IInv, Tested, Staged, Managed
  <1>5. Onto(q) => Tested' /\ Seen'
    BY <1>2, <1>3, <1>4 DEF Onto, Tested, Seen
  <1> QED
    BY <1>1, <1>3, <1>5, Checking

(* Only the checks that follow can tell what was built. *)
LEMMA EnvironmentStep ==
  ASSUME IInv, ExecuteEnvironmentPlan
  PROVE  IInv'
  <1> DEFINE p == Follower("environment")
  <1>1. /\ Phase("environment") /\ UNCHANGED files /\ "environment" \in Ordinary
    BY DEF ExecuteEnvironmentPlan, Phase, Ordinary, AllPhases
  <1>2. /\ job.at = "environment" /\ Running /\ Mode \in {"verified", "bundled"}
        /\ Steady /\ UNCHANGED spent /\ job \in JobType /\ config' = config
        /\ config' \in ConfigType /\ ~job.moved /\ ~job.already
    BY <1>1, Starting, PhaseSets DEF CommonPhases, Checks
  <1>3. job.staged \in Trees
    BY <1>2 DEF IInv, Tested, Staged, Managed
  <1>4. PICK q \in Qualities :
           job' = [job EXCEPT !.at = p, !.staged.quality = q]
    BY DEF ExecuteEnvironmentPlan
  <1>5. p = "python" /\ p \in PhasesOf(Mode) /\ p \in AllPhases
    BY <1>2, Routes, PhaseSets DEF Managed, ManagedPhases, AllPhases
  <1>6. /\ job' \in JobType /\ job'.at = p /\ Same
        /\ job'.staged \in Trees /\ job'.staged.quality = q
        /\ job'.already = job.already /\ job'.outcome = job.outcome
    BY <1>2, <1>3, <1>4, <1>5, Built
  <1>7. Tested' /\ Seen'
    BY <1>5, <1>6 DEF Tested, Seen
  <1>8. Switch'
    BY <1>2, <1>5, <1>6, SwitchKept DEF IInv
  <1> QED
    BY <1>1, <1>2, <1>5, <1>6, <1>7, <1>8, Continuing

LEMMA PythonStep ==
  ASSUME IInv, InspectStagedPython
  PROVE  IInv'
  <1> DEFINE q == Follower("python")
  <1>1. /\ Phase("python") /\ UNCHANGED files
        /\ "python" \in Ordinary \ {"layout", "configure", "write"}
        /\ Fail \/ Go(q)
    BY DEF InspectStagedPython, Check, Advance, Phase, At, Ordinary, AllPhases
  <1>2. /\ job.at = "python" /\ Running /\ Mode \in {"verified", "bundled"}
        /\ ~job.already
    BY <1>1, Starting, PhaseSets DEF CommonPhases, Checks
  <1>3. q \in PhasesOf(Mode) /\ q = "versions"
    BY <1>2, Routes, PhaseSets DEF Managed, CommonPhases
  <1>4. job.staged \in Trees /\ job.staged.quality \in Qualities
    BY <1>2 DEF IInv, Tested, Staged, Managed
  <1>5. Onto(q) => Tested' /\ Seen'
    BY <1>2, <1>3, <1>4 DEF Onto, Tested, Seen, Same, Mode
  <1> QED
    BY <1>1, <1>3, <1>5, Checking

(* The executables that answered are the ones that were seen. *)
LEMMA VersionsStep ==
  ASSUME IInv, ValidateVersions
  PROVE  IInv'
  <1> DEFINE q == Follower("versions")
  <1>1. /\ Phase("versions") /\ UNCHANGED files
        /\ "versions" \in Ordinary \ {"layout", "configure", "write"}
        /\ \/ Fail
           \/ ReportsVersions(Probed, "staging") /\ Go(q)
    BY DEF ValidateVersions, Check, Advance, Phase, At, Ordinary, AllPhases,
       CommonPhases
  <1>2. /\ job.at = "versions" /\ Running /\ ~job.already
        /\ Mode \in {"verified", "bundled", "external"}
        /\ external \in Externals
    BY <1>1, Starting DEF IInv, Types
  <1>3. /\ q \in PhasesOf(Mode) /\ q \in {"smoke", "rehash"}
        /\ q = "rehash" <=> Mode = "external"
    BY <1>2, Routes, PhaseSets DEF Managed, CommonPhases, Checks
  <1>4. ReportsVersions(Probed, "staging") /\ Onto(q) => Tested'
    BY <1>2, <1>3
       DEF Onto, IInv, Tested, Staged, Same, Mode, Probed, ReportsVersions, Managed
  <1>5. ReportsVersions(Probed, "staging") /\ Mode = "external"
          => job.seen = "good"
    BY <1>2 DEF IInv, Seen, Probed, ReportsVersions, Qualities, Externals, Mode
  <1>6. ReportsVersions(Probed, "staging") /\ Onto(q) => Seen'
    BY <1>2, <1>3, <1>5 DEF Onto, Seen, Same, Mode, Externals
  <1> QED
    BY <1>1, <1>3, <1>4, <1>6, Checking

LEMMA SmokeStep ==
  ASSUME IInv, SmokeTest
  PROVE  IInv'
  <1> DEFINE q == Follower("smoke")
  <1>1. /\ Phase("smoke") /\ UNCHANGED files
        /\ "smoke" \in Ordinary \ {"layout", "configure", "write"}
        /\ \/ Fail
           \/ PassesSmoke(Probed) /\ Go(q)
    BY DEF SmokeTest, Check, Advance, Phase, At, Ordinary, AllPhases, CommonPhases
  <1>2. /\ job.at = "smoke" /\ Running /\ ~job.already
        /\ Mode \in {"verified", "bundled", "external"}
    BY <1>1, Starting
  <1>3. /\ q \in PhasesOf(Mode) /\ q \in {"layout", "rehash2"}
        /\ q = "rehash2" <=> Mode = "external"
    BY <1>2, Routes, PhaseSets DEF Managed, CommonPhases, Checks
  <1>4. PassesSmoke(Probed) /\ Onto(q) => Tested'
    BY <1>2, <1>3
       DEF Onto, IInv, Tested, Staged, Same, Mode, Probed, PassesSmoke, Managed
  <1>5. PassesSmoke(Probed) /\ Onto(q) => Seen'
    BY <1>2, <1>3 DEF Onto, IInv, Seen, Same, Mode, Externals
  <1> QED
    BY <1>1, <1>3, <1>4, <1>5, Checking

LEMMA HashStep ==
  ASSUME IInv, HashExternal
  PROVE  IInv'
  <1>1. /\ Phase("hash") /\ UNCHANGED files /\ "hash" \in Ordinary
        /\ UNCHANGED <<inputs, spent, past>>
    BY DEF HashExternal, Phase, Ordinary, AllPhases
  <1>2. /\ job.at = "hash" /\ Running /\ Mode = "external"
        /\ Steady /\ job \in JobType /\ config' = config /\ config' \in ConfigType
        /\ ~job.moved /\ ~job.already /\ external \in Externals
    BY <1>1, Starting, PhaseSets
       DEF Managed, CommonPhases, ManagedPhases, IInv, Types
  <1>3. CASE Fail
    BY <1>1, <1>2, <1>3, Refusing
  <1>4. CASE job' = [job EXCEPT !.at = Follower("hash"), !.seen = external]
    <2>1. /\ Follower("hash") = "versions" /\ "versions" \in PhasesOf(Mode)
          /\ "versions" \in AllPhases
      BY <1>2, Routes, PhaseSets DEF CommonPhases, AllPhases
    <2>2. /\ job' \in JobType /\ job'.at = "versions" /\ Same
          /\ job'.seen = external
          /\ job'.already = job.already /\ job'.outcome = job.outcome
      BY <1>2, <1>4, <2>1, Seeing
    <2>3. Tested' /\ Seen'
      BY <1>1, <1>2, <2>2 DEF Tested, Seen, Same, Mode, Managed, inputs
    <2>4. Switch'
      BY <1>2, <2>2, SwitchKept DEF IInv
    <2> QED
      BY <1>1, <1>2, <2>1, <2>2, <2>3, <2>4, Continuing
  <1> QED
    BY <1>3, <1>4 DEF HashExternal

LEMMA RecheckStep ==
  ASSUME IInv, RecheckHashes
  PROVE  IInv'
  <1>1. PICK p \in {"rehash", "rehash2", "rehash3"} :
           Phase(p) /\ Check(HasDigest(external, job.seen))
    BY DEF RecheckHashes
  <1> DEFINE q == Follower(p)
  <1>2. /\ UNCHANGED files /\ p \in Ordinary \ {"layout", "configure", "write"}
        /\ Fail \/ Go(q)
    BY <1>1 DEF Check, Advance, Phase, At, Ordinary, AllPhases, CommonPhases
  <1>3. job.at = p /\ Running /\ Mode = "external"
    BY <1>1, <1>2, Starting, PhaseSets DEF CommonPhases, ManagedPhases, Managed
  <1>4. q \in PhasesOf(Mode) /\ q \in {"register", "layout", "write"}
    BY <1>3, Routes, PhaseSets DEF CommonPhases, Checks
  <1>5. Onto(q) => Tested' /\ Seen'
    BY <1>3, <1>4 DEF Onto, IInv, Tested, Seen, Same, Mode, Managed, Externals
  <1> QED
    BY <1>1, <1>2, <1>4, <1>5, Checking

-----------------------------------------------------------------------------
(* Directories and configuration files, and the moved environment.         *)
LEMMA LayoutStep ==
  ASSUME IInv, ProvisionLayout
  PROVE  IInv'
  <1>1. /\ job.at = "layout" /\ UNCHANGED <<inputs, spent, past, roots, record, backup>>
        /\ config' = [config EXCEPT !.dirs = TRUE]
        /\ Running /\ "layout" \in Ordinary
    BY DEF ProvisionLayout, Phase, At, Running, Ordinary, AllPhases, CommonPhases
  <1>2. Steady /\ ~job.moved /\ job \in JobType
    BY <1>1 DEF Steady, inputs, IInv, Flags, Types
  <1>3. config' \in ConfigType /\ config'.vdir = config.vdir
        /\ config'.saved = config.saved /\ config'.password = config.password
    BY <1>1 DEF IInv, Types, ConfigType
  <1>4. Mode \in {"verified", "bundled", "external"}
    BY <1>1, Requested DEF IInv
  <1>5. /\ Go("configure") /\ "configure" \in PhasesOf(Mode)
        /\ "configure" \in AllPhases
    BY <1>1, <1>4, Routes, PhaseSets
       DEF ProvisionLayout, CommonPhases, Managed, AllPhases
  <1>6. Onto("configure")
    BY <1>2, <1>5, Going DEF Onto
  <1>7. Tested' /\ Seen'
    BY <1>1, <1>6 DEF Onto, IInv, Tested, Seen, Same, Mode, Running, Staged, inputs
  <1>8. Switch'
    BY <1>3, <1>6 DEF IInv, Switch, Onto
  <1> QED
    BY <1>1, <1>2, <1>3, <1>5, <1>6, <1>7, <1>8, Continuing DEF Onto

LEMMA ConfigurationWritten ==
  ASSUME config \in ConfigType, NEW z \in Zones, Switch,
         \/ config' = [config EXCEPT !.khal = z,
                                     !.vdir = IF @ = "none" THEN "local" ELSE @]
         \/ config' = [config EXCEPT !.khal = z]
         \/ config' = config,
         job'.at # "caldav"
  PROVE  config' \in ConfigType /\ Switch'
  BY DEF ConfigType, Switch

LEMMA ConfigureStep ==
  ASSUME IInv, PersistConfiguration
  PROVE  IInv'
  <1>1. /\ job.at = "configure" /\ UNCHANGED <<inputs, spent, past, roots, record, backup>>
        /\ Running /\ "configure" \in Ordinary /\ Phase("configure")
    BY DEF PersistConfiguration, Phase, At, Running, Ordinary, AllPhases,
           CommonPhases, Refuse, files
  <1>2. Steady /\ ~job.moved /\ job \in JobType /\ spent' \in SpentType
    BY <1>1 DEF Steady, inputs, IInv, Flags, Types
  <1>3. Mode \in {"verified", "bundled", "external"} /\ job.req.zone \in Zones
    BY <1>1, Requested DEF IInv
  <1>4. CASE Refuse
    BY <1>1, <1>4, Refusing DEF Refuse
  <1>5. CASE config' = WithConfig /\ job.already /\ Succeed
    <2>1. /\ job' \in JobType /\ job'.at = "end" /\ Same
          /\ job'.already = job.already /\ job'.outcome = "ok"
      BY <1>2, <1>5, Succeeding
    <2>2. config' \in ConfigType /\ Switch'
      BY <1>3, <1>5, <2>1, ConfigurationWritten DEF WithConfig, IInv, Types
    <2>3. "end" \in PhasesOf(Mode)
      BY <1>3, PhaseSets DEF CommonPhases, Managed
    <2>4. Flags' /\ SetAside' /\ Tested' /\ Seen'
      BY <1>2, <2>1 DEF Flags, SetAside, Tested, Staged, Seen, Same
    <2>5. Found'
      BY <1>1, <1>5, <2>1 DEF IInv, Found, Sound, Whole, Answered
    <2> QED
      BY <1>1, <1>2, <2>1, <2>2, <2>3, <2>4, <2>5, Looking
  <1>6. CASE config' = WithConfig /\ ~job.already /\ Go(Follower("configure"))
    <2> DEFINE q == Follower("configure")
    <2>1. /\ q \in PhasesOf(Mode) /\ q \in {"move", "rehash3"}
          /\ q = "rehash3" <=> Mode = "external"
      BY <1>3, Routes, PhaseSets DEF Managed, ManagedPhases, Checks
    <2>2. Onto(q)
      BY <1>2, <1>6, <2>1, Going DEF Onto, AllPhases
    <2>3. config' \in ConfigType /\ Switch'
      BY <1>3, <1>6, <2>1, <2>2, ConfigurationWritten
         DEF WithConfig, IInv, Types, Onto
    <2>4. Tested' /\ Seen'
      BY <1>1, <1>6, <2>1, <2>2
         DEF Onto, IInv, Tested, Seen, Same, Mode, Running, Staged, inputs, Externals,
             Managed
    <2> QED
      BY <1>1, <1>2, <1>6, <2>1, <2>2, <2>3, <2>4, Continuing DEF Onto
  <1> QED
    BY <1>1, <1>4, <1>5, <1>6 DEF PersistConfiguration, Advance

(* What a fault leaves of the inputs and the counters. *)
LEMMA Faulting ==
  ASSUME IInv, NEW p, Fault(p)
  PROVE  /\ job.at = p /\ UNCHANGED <<lockFile, external>> /\ spent' \in SpentType
         /\ job \in JobType
  BY Spending DEF Fault, At, inputs, IInv, Types

LEMMA ConfigureFailsStep ==
  ASSUME IInv, PersistFails
  PROVE  IInv'
  <1>1. /\ job.at = "configure" /\ Steady /\ spent' \in SpentType /\ Fail
        /\ job \in JobType
        /\ config' \in {config, [config EXCEPT !.khal = job.req.zone]}
    BY Faulting DEF PersistFails, Steady
  <1>2. job.at \in Ordinary /\ Running
    BY <1>1 DEF Ordinary, Running, AllPhases, CommonPhases
  <1>3. job.req.zone \in Zones
    BY <1>2, Requested DEF IInv
  <1>4. job'.at # "caldav"
    BY <1>1, Failing
  <1>5. config' \in ConfigType /\ Switch'
    BY <1>1, <1>3, <1>4, ConfigurationWritten DEF IInv, Types
  <1> QED
    BY <1>1, <1>2, <1>5, GivingUp

LEMMA PhaseFailsStep ==
  ASSUME IInv, PhaseFails
  PROVE  IInv'
  <1>1. PICK p \in {"prepare", "validate", "inspect", "match", "register",
                    "preflight", "stage", "wheelhouse", "environment",
                    "python", "versions", "smoke", "hash", "rehash",
                    "rehash2", "rehash3", "layout", "move", "settle",
                    "repython"} :
           Fault(p) /\ Fail /\ UNCHANGED files /\ UNCHANGED past
    BY DEF PhaseFails, Refuse
  <1>2. job.at = p /\ UNCHANGED <<lockFile, external>> /\ spent' \in SpentType
    BY <1>1, Faulting
  <1>3. p \in Ordinary
    BY DEF Ordinary, AllPhases, CommonPhases
  <1>4. Steady /\ UNCHANGED config
    BY <1>1, <1>2 DEF Steady, files
  <1>5. Switch' /\ config' \in ConfigType
    BY <1>1, <1>4, Failing, SwitchKept DEF IInv, Types
  <1> QED
    BY <1>1, <1>2, <1>3, <1>4, <1>5, GivingUp

LEMMA SettleStep ==
  ASSUME IInv, NormaliseToolchain
  PROVE  IInv'
  <1>1. /\ Phase("settle") /\ UNCHANGED files
        /\ "settle" \in Ordinary \ {"layout", "configure", "write"}
        /\ \/ Fail
           \/ ReportsVersions(Probed, "root") /\ Go(Follower("settle"))
    BY DEF NormaliseToolchain, Check, Advance, Phase, At, Ordinary, AllPhases
  <1>2. /\ job.at = "settle" /\ Running /\ Mode \in {"verified", "bundled"}
        /\ ~job.already /\ Steady
    BY <1>1, Starting, PhaseSets DEF CommonPhases, Checks
  <1>3. Follower("settle") = "repython" /\ "repython" \in PhasesOf(Mode)
    BY <1>2, Routes, PhaseSets DEF Managed, ManagedPhases
  <1>4. ReportsVersions(Probed, "root") => job.staged.quality # "pinned"
    BY <1>2 DEF ReportsVersions, Probed, Mode
  <1>5. ReportsVersions(Probed, "root") /\ Onto("repython") => Tested' /\ Seen'
    BY <1>2, <1>4
       DEF Onto, IInv, Tested, Staged, Seen, Same, Mode, Managed, Version, Steady
  <1> QED
    BY <1>1, <1>3, <1>5, Checking

LEMMA RepythonStep ==
  ASSUME IInv, InspectFinalPython
  PROVE  IInv'
  <1>1. /\ Phase("repython") /\ UNCHANGED files
        /\ "repython" \in Ordinary \ {"layout", "configure", "write"}
        /\ \/ Fail
           \/ SamePython(Probed) /\ Go(Follower("repython"))
    BY DEF InspectFinalPython, Check, Advance, Phase, At, Ordinary, AllPhases
  <1>2. /\ job.at = "repython" /\ Running /\ Mode \in {"verified", "bundled"}
        /\ ~job.already /\ Steady
    BY <1>1, Starting, PhaseSets DEF CommonPhases, Checks
  <1>3. Follower("repython") = "write" /\ "write" \in PhasesOf(Mode)
    BY <1>2, Routes, PhaseSets DEF Managed, CommonPhases
  <1>4. SamePython(Probed) => job.staged.quality # "shifted"
    BY <1>2 DEF SamePython, Probed, Mode
  <1>5. SamePython(Probed) /\ Onto("write") => Tested' /\ Seen'
    BY <1>2, <1>4
       DEF Onto, IInv, Tested, Staged, Seen, Same, Mode, Managed, Version, Steady
  <1> QED
    BY <1>1, <1>3, <1>5, Checking

-----------------------------------------------------------------------------
(* Steps that change the roots or a record.                                *)

(* What stands on other roots is not touched by a change of one. *)
LEMMA Elsewhere ==
  ASSUME roots \in RootTypes, NEW v \in Versions, NEW t \in Trees \cup {None},
         roots' = [roots EXCEPT ![v] = t]
  PROVE  /\ roots' \in RootTypes /\ roots'[v] = t
         /\ \A w \in Versions \ {v} : roots'[w] = roots[w]
  BY DEF RootTypes

LEMMA TornIsTyped ==
  ASSUME roots \in RootTypes, NEW v \in Versions, roots[v] # None
  PROVE  /\ [roots[v] EXCEPT !.quality = "partial"] \in Trees
         /\ [roots EXCEPT ![v].quality = "partial"]
              = [roots EXCEPT ![v] = [roots[v] EXCEPT !.quality = "partial"]]
  BY DEF RootTypes, Trees

LEMMA StandsElsewhere ==
  ASSUME NEW v \in Versions, NEW r \in Records,
         \A w \in Versions \ {v} : roots'[w] = roots[w],
         r.mode \in Managed => r.version # v
  PROVE  /\ Sound(r) => Sound(r)'
         /\ Vouches(r) /\ (past.refreshed => past'.refreshed) => Vouches(r)'
  BY DEF Records, Managed, Sound, Whole, Vouches

(* What a refreshed history leaves of it. *)
LEMMA StandsStill ==
  ASSUME NEW r, UNCHANGED roots
  PROVE  /\ Sound(r) => Sound(r)'
         /\ Vouches(r) /\ (past.refreshed => past'.refreshed) => Vouches(r)'
  BY DEF Sound, Whole, Vouches

(* The types after a step of a run that goes on. *)
LEMMA RunsOn ==
  ASSUME IInv, Running, job' \in JobType, Same, job'.at \in PhasesOf(Mode),
         UNCHANGED <<lockFile, external, config>>, spent' \in SpentType,
         past' \in PastType, roots' \in RootTypes,
         record' \in Records \cup {None}, backup' \in Records \cup {None}
  PROVE  Types' /\ Process' /\ Switch'
  <1>1. job'.at \notin {"idle", "caldav"}
    BY PhaseSets, Requested DEF IInv, CommonPhases, ManagedPhases, Checks
  <1>2. Types' /\ Process'
    BY <1>1, Requested DEF IInv, Types, Process, Same, Running, Mode
  <1> QED
    BY <1>1, <1>2 DEF IInv, Switch

(* After an undo step has failed, nothing is promised but the types and    *)
(* that acknowledged roots stay whole.                                     *)
LEMMA Botching ==
  ASSUME IInv, Types', Process', Switch', Flags', past'.botched,
         past'.acked = past.acked, Same,
         job'.at \in {"undo", "restore", "end"}, job'.outcome = "failed",
         past.acked # None => Sound(past.acked)',
         job'.at = "undo" /\ job.moved =>
           job.at \in {"settle", "repython", "write", "undo"} /\ UNCHANGED roots
  PROVE  IInv'
  <1>1. Snapshot' /\ SetAside' /\ Tested' /\ Seen' /\ Vouched' /\ Found'
    BY DEF Snapshot, SetAside, Tested, Staged, Seen, Vouched, Found, Answered
  <1>2. Apart' /\ Remembered'
    BY DEF IInv, Apart, Remembered, Same, Version
  <1> QED
    BY <1>1, <1>2 DEF IInv

LEMMA PrepareStep ==
  ASSUME IInv, PrepareUpgradeRecord
  PROVE  IInv'
  <1>1. /\ Phase("prepare") /\ "prepare" \in Ordinary /\ job.at = "prepare"
        /\ UNCHANGED <<inputs, spent, past>> /\ Running
        /\ UNCHANGED <<lockFile, external>>
    BY DEF PrepareUpgradeRecord, Phase, At, Ordinary, AllPhases, CommonPhases,
           Running, inputs
  <1>2. Mode \in {"verified", "bundled", "external"}
    BY <1>1, Requested DEF IInv
  <1>3. CASE Refuse
    BY <1>1, <1>3, Refusing DEF Refuse
  <1>4. CASE Go("validate") /\ UNCHANGED files
    <2>1. "validate" \in PhasesOf(Mode)
      BY <1>2, PhaseSets DEF CommonPhases, Managed
    <2>2. Onto("validate") => Tested' /\ Seen'
      BY DEF Onto, Tested, Seen, Staged
    <2> QED
      BY <1>1, <1>4, <2>1, <2>2, Advancing
  <1>5. CASE /\ record # None /\ backup = None /\ backup' = record /\ Go("retire")
             /\ UNCHANGED <<roots, record, config>>
    <2>1. Onto("retire")
      BY <1>5, Going DEF Onto, IInv, Types, AllPhases, CommonPhases
    <2>2. /\ job'.at = "retire" /\ Same /\ job' \in JobType
          /\ "retire" \in PhasesOf(Mode) /\ ~job.moved /\ ~job.took /\ ~job.already
      BY <1>1, <1>2, <2>1, PhaseSets
         DEF Onto, CommonPhases, Managed, IInv, Flags
    <2>3. Types' /\ Process' /\ Switch'
      BY <1>1, <1>5, <2>2, RunsOn DEF IInv, Types
    <2>4. Flags' /\ Tested' /\ Seen' /\ Found'
      BY <1>1, <1>5, <2>1, <2>2
         DEF Flags, Tested, Staged, Seen, Found, Answered, Same, Onto
    <2>5. SetAside'
      BY <1>1, <1>5, <2>2 DEF IInv, SetAside, Same
    <2>6. Snapshot'
      BY <1>1, <1>5, <2>2, SameEvidence DEF IInv, Snapshot, Same, Running, Answered
    <2>7. Vouched' /\ Apart'
      BY <1>1, <1>5, <2>2, StandsStill DEF IInv, Vouched, Apart, Same
    <2>8. Remembered'
      BY <1>1, <1>5, <2>2, StandsStill DEF IInv, Remembered, Answered
    <2> QED
      BY <2>3, <2>4, <2>5, <2>6, <2>7, <2>8 DEF IInv
  <1> QED
    BY <1>3, <1>4, <1>5 DEF PrepareUpgradeRecord

LEMMA RetireStep ==
  ASSUME IInv, RetireRecord
  PROVE  IInv'
  <1>1. /\ job.at = "retire" /\ Running /\ record' = None
        /\ UNCHANGED <<lockFile, external, spent, past, roots, backup, config>>
        /\ job' = [job EXCEPT !.at = "validate", !.took = TRUE]
    BY DEF RetireRecord, Phase, At, Running, inputs
  <1>2. /\ job' \in JobType /\ job'.at = "validate" /\ job'.took
        /\ job'.req = job.req /\ job'.before = job.before
        /\ job'.moved = job.moved /\ job'.already = job.already
        /\ job'.outcome = job.outcome
    BY <1>1 DEF IInv, Types, JobType, AllPhases, CommonPhases
  <1>3. Mode \in {"verified", "bundled", "external"} /\ job.before \in Snapshots
        /\ job.req \in Requests
    BY <1>1, Requested DEF IInv
  <1>4. "validate" \in PhasesOf(Mode)
    BY <1>3, PhaseSets DEF CommonPhases, Managed
  <1>5. Types' /\ Process' /\ Switch'
    BY <1>1, <1>2, <1>3, <1>4
       DEF IInv, Types, Process, Switch, Running, Mode
  <1>6. ~job.moved /\ ~job.took /\ ~job.already /\ record # None /\ backup = record
    BY <1>1 DEF IInv, Flags, SetAside
  <1>7. Flags' /\ SetAside' /\ Tested' /\ Seen' /\ Found'
    BY <1>2, <1>6 DEF Flags, SetAside, Tested, Staged, Seen, Found, Answered
  <1>8. Snapshot'
    <2>1. ~EvidenceReplaced
      BY <1>1 DEF IInv, SetAside, EvidenceReplaced, MayRefresh
    <2> QED
      BY <1>1, <1>2, <1>6, <2>1 DEF IInv, Snapshot, Running, Answered, Version
  <1>9. Vouched' /\ Apart'
    BY <1>1, <1>2, <1>6, StandsStill DEF IInv, Vouched, Apart
  <1>10. Remembered'
    BY <1>1, <1>2, <1>6, StandsStill DEF IInv, Remembered, Answered
  <1> QED
    BY <1>5, <1>7, <1>8, <1>9, <1>10 DEF IInv

LEMMA Marking ==
  ASSUME past \in PastType, NEW b \in BOOLEAN
  PROVE  /\ [past EXCEPT !.botched = @ \/ b] \in PastType
         /\ [past EXCEPT !.botched = @ \/ b].acked = past.acked
         /\ [past EXCEPT !.botched = @ \/ b].refreshed = past.refreshed
         /\ [past EXCEPT !.botched = @ \/ b].botched = (past.botched \/ b)
         /\ ~b => [past EXCEPT !.botched = @ \/ b] = past
  BY DEF PastType

LEMMA RetireFailsStep ==
  ASSUME IInv, RetireFails
  PROVE  IInv'
  <1>1. /\ job.at = "retire" /\ Running /\ job.at \in Ordinary
        /\ record' \in {record, None} /\ spent' \in SpentType /\ Fail
        /\ UNCHANGED <<lockFile, external, roots, backup, config>>
    BY Faulting DEF RetireFails, Running, Ordinary, AllPhases, CommonPhases
  <1>2. /\ job' \in JobType /\ job'.at = "undo" /\ Same
        /\ job'.already = job.already /\ job'.outcome = "failed"
    BY <1>1, Failing DEF IInv, Types
  <1>3. /\ past' \in PastType /\ past'.acked = past.acked
        /\ record' # record => past'.botched
        /\ record' = record => past' = past
    BY Marking DEF RetireFails, Botch, IInv, Types
  <1>4. CASE record' = record
    <2>1. Switch' /\ config' \in ConfigType /\ Steady
      BY <1>1, <1>2, <1>3, <1>4, SwitchKept DEF IInv, Types, Steady
    <2> QED
      BY <1>1, <2>1, GivingUp
  <1>5. CASE record' # record
    <2>1. "undo" \in PhasesOf(Mode)
      BY <1>1, PhaseSets, Requested DEF IInv, CommonPhases
    <2>2. Types' /\ Process' /\ Switch'
      BY <1>1, <1>2, <1>3, <2>1, RunsOn DEF IInv, Types
    <2>3. Flags' /\ ~job.moved
      BY <1>1, <1>2 DEF IInv, Flags, Same
    <2>4. past.acked # None => Sound(past.acked)'
      BY <1>1, <1>3, StandsStill DEF IInv, Remembered
    <2> QED
      BY <1>2, <1>3, <1>5, <2>2, <2>3, <2>4, Botching
  <1> QED
    BY <1>4, <1>5

-----------------------------------------------------------------------------
(* The refreshed record names the lock of the request and the same root.   *)
LEMMA RefreshedStands ==
  ASSUME IInv, job.at = "refresh"
  PROVE  /\ Running /\ Mode \in Managed /\ Version \in Versions
         /\ Refreshed \in Records /\ Refreshed # None
         /\ Refreshed.version = Version /\ Refreshed.mode = Mode
         /\ Whole(Version) /\ ~job.moved /\ ~job.already
         /\ ~past.botched => ~job.took /\ roots[Version].quality = "good"
  <1>1. Running
    BY DEF Running
  <1>2. Mode \in Managed /\ Version \in Versions /\ job.req.lock \in Locks
    BY <1>1, Requested, PhaseSets DEF IInv, CommonPhases, Checks
  <1>3. /\ record \in Records /\ record # None /\ record.version = Version
        /\ record.mode = Mode /\ Whole(Version) /\ ~job.moved /\ ~job.already
    BY DEF IInv, Found, Types, Flags
  <1>4. /\ Refreshed \in Records /\ Refreshed.version = Version
        /\ Refreshed.mode = Mode
    BY <1>2, <1>3 DEF Refreshed, Records
  <1>5. Refreshed # None
    BY <1>4, NoneIsDistinct
  <1>6. ~past.botched => ~job.took /\ roots[Version].quality = "good"
    BY <1>1, <1>2, <1>3
       DEF IInv, Snapshot, Vouched, Vouches, Answered, Managed
  <1> QED
    BY <1>1, <1>2, <1>3, <1>4, <1>5, <1>6

(* It is in place, whether the run goes on or gives up. *)
LEMMA Refreshing ==
  ASSUME IInv, job.at = "refresh", record' = Refreshed,
         past' \in PastType, past'.refreshed,
         past'.botched = past.botched, past'.acked = past.acked,
         UNCHANGED <<lockFile, external, roots, backup, config>>,
         spent' \in SpentType, job' \in JobType, Same,
         \/ job'.at = "layout" /\ job'.already /\ job'.outcome = job.outcome
         \/ job'.at = "undo" /\ ~job'.already /\ job'.outcome = "failed"
  PROVE  IInv'
  <1>1. /\ Running /\ Mode \in Managed /\ Version \in Versions
        /\ Refreshed \in Records /\ Refreshed # None
        /\ Refreshed.version = Version /\ Refreshed.mode = Mode
        /\ Whole(Version) /\ ~job.moved /\ ~job.already
        /\ ~past.botched => ~job.took /\ roots[Version].quality = "good"
    BY RefreshedStands
  <1> HIDE DEF Refreshed
  <1>2. job'.at \in PhasesOf(Mode)
    BY <1>1, PhaseSets DEF CommonPhases
  <1>3. Types' /\ Process' /\ Switch'
    BY <1>1, <1>2, RunsOn DEF IInv, Types
  <1>4. Flags' /\ SetAside' /\ Tested' /\ Seen'
    BY <1>1 DEF Flags, SetAside, Tested, Staged, Seen, Same, Mode, Managed
  <1>5. Snapshot'
    <2>1. ASSUME ~past.botched, record = job.before.record \/ EvidenceReplaced
          PROVE  EvidenceReplaced'
      <3>1. /\ MayRefresh(job.req) /\ record \in Records /\ record # None
            /\ IdentityMatches(record, job.req)
            /\ record' = [record EXCEPT !.evidence = job.req.lock]
        BY <1>1 DEF IInv, Types, Found, IdentityMatches, Version, Mode, Refreshed
      <3>2. job.before.record # None => job.before.record \in Records
        BY <1>1 DEF IInv, Process, Snapshots
      <3>3. /\ job.before.record # None
            /\ IdentityMatches(job.before.record, job.req)
            /\ record' = [job.before.record EXCEPT !.evidence = job.req.lock]
        BY <2>1, <3>1, <3>2 DEF EvidenceReplaced, Records
      <3>4. /\ job'.req = job.req /\ job'.before = job.before
            /\ MayRefresh(job'.req) = MayRefresh(job.req)
            /\ IdentityMatches(job'.before.record, job'.req)
                 = IdentityMatches(job.before.record, job.req)
        BY DEF Same
      <3> QED
        BY <3>1, <3>3, <3>4 DEF EvidenceReplaced
    <2> QED
      BY <1>1, <2>1 DEF IInv, Snapshot, Same, Answered, Version
  <1>6. roots[record'.version] # None /\ Sound(record)'
    BY <1>1 DEF Whole, Sound
  <1>7. Found'
    BY <1>1, <1>6 DEF Found, Answered
  <1>8. ~past.botched => Vouches(record)'
    BY <1>1, <1>6 DEF Vouches, Managed, Whole
  <1>9. Vouched' /\ Apart'
    BY <1>1, <1>8, StandsStill DEF IInv, Vouched, Apart, Same
  <1>10. Remembered'
    BY StandsStill DEF IInv, Remembered
  <1> QED
    BY <1>3, <1>4, <1>5, <1>7, <1>9, <1>10 DEF IInv

LEMMA RefreshStep ==
  ASSUME IInv, RefreshRecord
  PROVE  IInv'
  <1>1. /\ job.at = "refresh" /\ record' = Refreshed /\ Settled
        /\ UNCHANGED <<lockFile, external, roots, backup, config, spent>>
        /\ past' = [past EXCEPT !.refreshed = TRUE]
    BY DEF RefreshRecord, At, inputs
  <1>2. /\ past' \in PastType /\ past'.refreshed
        /\ past'.botched = past.botched /\ past'.acked = past.acked
    BY <1>1 DEF IInv, Types, PastType
  <1>3. /\ job' \in JobType /\ job'.at = "layout" /\ Same
        /\ job'.already /\ job'.outcome = job.outcome
    BY <1>1, Settling DEF IInv, Types
  <1> QED
    BY <1>1, <1>2, <1>3, Refreshing DEF IInv, Types

LEMMA RefreshFailsStep ==
  ASSUME IInv, RefreshFails
  PROVE  IInv'
  <1>1. /\ job.at = "refresh" /\ job.at \in Ordinary /\ Fail
        /\ record' \in {record, Refreshed} /\ spent' \in SpentType
        /\ UNCHANGED <<lockFile, external, roots, backup, config>>
        /\ past' = [past EXCEPT !.refreshed = @ \/ record' # record]
    BY Faulting DEF RefreshFails, Ordinary, AllPhases
  <1>2. /\ job' \in JobType /\ job'.at = "undo" /\ Same
        /\ job'.already = job.already /\ job'.outcome = "failed"
    BY <1>1, Failing DEF IInv, Types
  <1>3. CASE record' = record
    <2>1. past' = past
      BY <1>1, <1>3 DEF IInv, Types, PastType
    <2>2. Switch' /\ config' \in ConfigType /\ Steady
      BY <1>1, <1>2, <1>3, <2>1, SwitchKept DEF IInv, Types, Steady
    <2> QED
      BY <1>1, <2>2, GivingUp
  <1>4. CASE record' # record
    <2>1. /\ past' \in PastType /\ past'.refreshed
          /\ past'.botched = past.botched /\ past'.acked = past.acked
      BY <1>1, <1>4 DEF IInv, Types, PastType
    <2>2. ~job'.already
      BY <1>1, <1>2 DEF IInv, Flags
    <2> QED
      BY <1>1, <1>2, <1>4, <2>1, <2>2, Refreshing
  <1> QED
    BY <1>3, <1>4

-----------------------------------------------------------------------------
(* Activation: the place was empty, so nothing stood there.                *)
LEMMA ActivateStep ==
  ASSUME IInv, ActivateToolchain
  PROVE  IInv'
  <1>1. /\ job.at = "move" /\ Running /\ job.at \in Ordinary
        /\ UNCHANGED <<inputs, spent, past, record, backup, config>>
        /\ UNCHANGED <<lockFile, external>>
    BY DEF ActivateToolchain, Phase, At, Running, Ordinary, AllPhases, Refuse,
           files, inputs
  <1>2. Mode \in Managed /\ Version \in Versions
    BY <1>1, Requested, PhaseSets DEF IInv, CommonPhases, Checks
  <1>3. CASE Refuse
    BY <1>1, <1>3, Refusing DEF Refuse
  <1>4. CASE /\ roots[Version] = None
             /\ roots' = [roots EXCEPT ![Version] = job.staged]
             /\ job' = [job EXCEPT !.at = "settle", !.moved = TRUE]
    <2>1. /\ job' \in JobType /\ job'.at = "settle" /\ job'.moved
          /\ job'.req = job.req /\ job'.before = job.before
          /\ job'.took = job.took /\ job'.already = job.already
          /\ job'.outcome = job.outcome /\ job'.staged = job.staged
      <3>1. job \in JobType /\ "settle" \in AllPhases
        BY DEF IInv, Types, AllPhases
      <3>2. job' \in JobType
        BY <1>4, <3>1 DEF JobType
      <3>3. /\ job'.at = "settle" /\ job'.moved
            /\ job'.req = job.req /\ job'.before = job.before
            /\ job'.took = job.took /\ job'.already = job.already
            /\ job'.outcome = job.outcome /\ job'.staged = job.staged
        BY <1>4, <3>1 DEF JobType
      <3> QED
        BY <3>2, <3>3
    <2>2. ~job.already /\ ~job.moved /\ Mode' = Mode /\ Version' = Version
      BY <1>1, <2>1 DEF IInv, Flags, Mode, Version
    <2>3. /\ job.staged \in Trees /\ job.staged.quality \in Qualities
          /\ job.staged.quality \notin {"wrong", "broken"}
      BY <1>1, <1>2, <2>2 DEF IInv, Tested, Staged
    <2>4. /\ roots' \in RootTypes /\ roots'[Version] = job.staged
          /\ \A w \in Versions \ {Version} : roots'[w] = roots[w]
      BY <1>2, <1>4, <2>3, Elsewhere DEF IInv, Types
    <2>5. roots'[Version] # None
      BY <2>3, <2>4, NoneIsDistinct
    <2>6. [roots' EXCEPT ![Version] = None] = roots
      BY <1>2, <1>4, <2>4 DEF IInv, Types, RootTypes
    <2>7. job'.at \in PhasesOf(Mode)
      BY <1>2, <2>1, PhaseSets DEF ManagedPhases
    <2>8. Types' /\ Process' /\ Switch'
      BY <1>1, <2>1, <2>2, <2>4, <2>7, Requested
         DEF IInv, Types, Process, Switch, Running, Mode
    <2>9. Flags' /\ SetAside' /\ Seen' /\ Found'
      BY <1>2, <2>1, <2>2
         DEF IInv, Flags, SetAside, Seen, Found, Answered, Managed
    <2>10. Tested'
      BY <2>1, <2>2, <2>3, <2>4 DEF Tested
    <2>11. Snapshot'
      BY <1>1, <2>1, <2>2, <2>6, SameEvidence DEF IInv, Snapshot, Running, Answered
    <2>12. ASSUME NEW r \in Records, r.mode \in Managed, Sound(r) \/ Vouches(r)
           PROVE  r.version # Version
      BY <1>4, <2>12 DEF Sound, Whole, Vouches, Managed
    <2>13. /\ past.acked # None => past.acked \in Records /\ Sound(past.acked)
           /\ record # None => record \in Records
           /\ backup # None => backup \in Records
           /\ ~past.botched => /\ record # None => Vouches(record)
                               /\ backup # None => Vouches(backup)
      BY DEF IInv, Types, PastType, Remembered, Vouched
    <2>14. Apart'
      BY <1>1, <2>1, <2>2, <2>5, <2>12, <2>13 DEF Apart
    <2>15. Vouched'
      BY <1>1, <1>2, <2>4, <2>12, <2>13, StandsElsewhere DEF Vouched
    <2>16. Remembered'
      BY <1>1, <1>2, <2>1, <2>4, <2>12, <2>13, StandsElsewhere
         DEF IInv, Remembered, Answered
    <2> QED
      BY <2>8, <2>9, <2>10, <2>11, <2>14, <2>15, <2>16 DEF IInv
  <1> QED
    BY <1>3, <1>4 DEF ActivateToolchain, Version

(* The record that a run writes describes what it has tested. *)
LEMMA NewStands ==
  ASSUME IInv, job.at = "write"
  PROVE  /\ Running /\ "undo" \in PhasesOf(Mode) /\ "end" \in PhasesOf(Mode)
         /\ NewRecord \in Records /\ NewRecord # None
         /\ Vouches(NewRecord) /\ Sound(NewRecord)
  <1>1. Running /\ ~job.already
    BY DEF Running, IInv, Flags
  <1>2. /\ Mode \in {"verified", "bundled", "external"} /\ Version \in Versions
        /\ Mode \in Managed <=> Mode # "external"
        /\ "undo" \in PhasesOf(Mode) /\ "end" \in PhasesOf(Mode)
    BY <1>1, Requested, PhaseSets DEF IInv, CommonPhases
  <1>3. CASE Mode = "external"
    <2>1. job.seen = "good"
      BY <1>1, <1>3 DEF IInv, Seen
    <2>2. NewRecord = [version |-> Version, mode |-> "external", evidence |-> "good"]
      BY <1>3, <2>1 DEF NewRecord, Mode, Version
    <2>3. NewRecord \in Records
      BY <1>2, <2>2 DEF Records, Externals, Managed
    <2>4. Vouches(NewRecord) /\ Sound(NewRecord)
      BY <2>2 DEF Vouches, Sound, Managed
    <2> QED
      BY <1>1, <1>2, <2>3, <2>4, NoneIsDistinct
  <1>4. CASE Mode \in Managed
    <2>1. /\ job.staged \in Trees /\ job.staged.quality = "good"
          /\ roots[Version] = job.staged
      BY <1>1, <1>4 DEF IInv, Tested, Staged, Qualities
    <2>2. NewRecord = [version |-> Version, mode |-> Mode,
                       evidence |-> job.staged.lock]
      BY <1>2, <1>4 DEF NewRecord, Mode, Version
    <2>3. NewRecord \in Records
      BY <1>2, <1>4, <2>1, <2>2 DEF Records, Trees
    <2>4. Vouches(NewRecord) /\ Sound(NewRecord)
      BY <1>2, <1>4, <2>1, <2>2, NoneIsDistinct
         DEF Vouches, Sound, Whole, IntactTree
    <2> QED
      BY <1>1, <1>2, <2>3, <2>4, NoneIsDistinct
  <1> QED
    BY <1>2, <1>3, <1>4

LEMMA WriteStep ==
  ASSUME IInv, WriteRecord
  PROVE  IInv'
  <1>1. /\ job.at = "write" /\ job.at \in Ordinary
        /\ UNCHANGED <<inputs, spent, past, roots, backup, config>>
        /\ UNCHANGED <<lockFile, external>>
    BY DEF WriteRecord, Phase, At, Ordinary, AllPhases, CommonPhases, Refuse,
           files, inputs
  <1>2. CASE Refuse
    BY <1>1, <1>2, Refusing DEF Refuse
  <1>3. CASE record = None /\ record' = NewRecord /\ Succeed
    <2>1. /\ job' \in JobType /\ job'.at = "end" /\ Same
          /\ job'.already = job.already /\ job'.outcome = "ok"
      BY <1>3, Succeeding DEF IInv, Types
    <2>2. /\ Running /\ "end" \in PhasesOf(Mode)
          /\ record' \in Records /\ record' # None
          /\ Vouches(NewRecord) /\ Sound(NewRecord)
      BY <1>1, <1>3, NewStands
    <2>3. Types' /\ Process' /\ Switch'
      BY <1>1, <2>1, <2>2, RunsOn DEF IInv, Types
    <2>4. Flags' /\ SetAside' /\ Tested' /\ Seen' /\ Snapshot' /\ Apart'
      BY <1>1, <2>1
         DEF IInv, Flags, SetAside, Tested, Staged, Seen, Snapshot, Apart,
             Answered, Same
    <2>5. Sound(record)' /\ Vouches(record)'
      BY <1>1, <1>3, <2>2 DEF Sound, Whole, Vouches
    <2>6. Found'
      BY <2>1, <2>2, <2>5 DEF Found
    <2>7. Vouched'
      BY <1>1, <2>5, StandsStill DEF IInv, Vouched
    <2>8. Remembered'
      BY <1>1, <1>3, <2>1, StandsStill DEF IInv, Remembered, Answered
    <2> QED
      BY <2>3, <2>4, <2>6, <2>7, <2>8 DEF IInv
  <1> QED
    BY <1>2, <1>3 DEF WriteRecord

LEMMA WriteFailsStep ==
  ASSUME IInv, WriteFails
  PROVE  IInv'
  <1>1. /\ job.at = "write" /\ job.at \in Ordinary /\ record = None
        /\ record' \in {None, NewRecord} /\ spent' \in SpentType /\ Fail
        /\ UNCHANGED <<lockFile, external, roots, backup, config>>
    BY Faulting DEF WriteFails, Ordinary, AllPhases, CommonPhases
  <1>2. /\ job' \in JobType /\ job'.at = "undo" /\ Same
        /\ job'.already = job.already /\ job'.outcome = "failed"
    BY <1>1, Failing DEF IInv, Types
  <1>3. /\ past' \in PastType /\ past'.acked = past.acked
        /\ record' # None => past'.botched
        /\ record' = None => past' = past
    BY Marking DEF WriteFails, Botch, IInv, Types
  <1>4. CASE record' = None
    <2>1. Switch' /\ config' \in ConfigType /\ Steady
      BY <1>1, <1>2, <1>3, <1>4, SwitchKept DEF IInv, Types, Steady
    <2> QED
      BY <1>1, <2>1, GivingUp
  <1>5. CASE record' = NewRecord /\ record' # None
    <2>1. Running /\ "undo" \in PhasesOf(Mode) /\ record' \in Records
      BY <1>1, <1>5, NewStands
    <2>2. Types' /\ Process' /\ Switch'
      BY <1>1, <1>2, <1>3, <2>1, RunsOn DEF IInv, Types
    <2>3. Flags'
      BY <1>1, <1>2 DEF IInv, Flags, Same
    <2>4. past.acked # None => Sound(past.acked)'
      BY <1>1, <1>3, StandsStill DEF IInv, Remembered
    <2> QED
      BY <1>1, <1>2, <1>3, <1>5, <2>2, <2>3, <2>4, Botching
  <1> QED
    BY <1>1, <1>4, <1>5

-----------------------------------------------------------------------------
(* Undo.                                                                   *)
LEMMA UndoPhases ==
  ASSUME IInv, job.at \in {"undo", "restore"}
  PROVE  /\ Running /\ ~Answered /\ Version \in Versions
         /\ "restore" \in PhasesOf(Mode) /\ "end" \in PhasesOf(Mode)
         /\ job \in JobType /\ job.outcome = "failed"
         /\ "restore" \in AllPhases /\ "end" \in AllPhases
  <1>1. Running /\ ~Answered
    BY DEF Running, Answered
  <1> QED
    BY <1>1, Requested, PhaseSets
       DEF IInv, CommonPhases, Types, Flags, AllPhases

LEMMA RollbackStep ==
  ASSUME IInv, RollbackActivation
  PROVE  IInv'
  <1> DEFINE q == IF job.took THEN "restore" ELSE "end"
  <1>1. /\ job.at = "undo" /\ Go(q)
        /\ UNCHANGED <<lockFile, external, spent, past, record, backup, config>>
        /\ job.moved => roots' = [roots EXCEPT ![Version] = None]
        /\ ~job.moved => roots' = roots
    BY DEF RollbackActivation, Phase, At, inputs, Version
  <1>2. /\ Running /\ ~Answered /\ Version \in Versions /\ job \in JobType
        /\ q \in PhasesOf(Mode) /\ q \in AllPhases /\ job.outcome = "failed"
    BY <1>1, UndoPhases
  <1>3. /\ job' \in JobType /\ job'.at = q /\ Same
        /\ job'.already = job.already /\ job'.outcome = "failed"
    BY <1>1, <1>2, Going
  <1>4. /\ roots' \in RootTypes
        /\ \A w \in Versions \ {Version} : roots'[w] = roots[w]
    BY <1>1, <1>2, Elsewhere DEF IInv, Types
  <1>5. Types' /\ Process' /\ Switch'
    BY <1>1, <1>2, <1>3, <1>4, RunsOn DEF IInv, Types
  <1>6. Flags' /\ SetAside' /\ Tested' /\ Seen' /\ Found' /\ Apart'
    BY <1>1, <1>3
       DEF IInv, Flags, SetAside, Tested, Staged, Seen, Found, Apart, Answered,
           Same
  <1>7. Snapshot'
    BY <1>1, <1>2, <1>3, SameEvidence DEF IInv, Snapshot, Same, Answered
  <1>8. /\ past.acked # None =>
             past.acked \in Records /\ Sound(past.acked)
        /\ record # None => record \in Records
        /\ backup # None => backup \in Records
    BY DEF IInv, Types, PastType, Remembered
  <1>9. Vouched'
    <2>1. CASE job.moved
      BY <1>1, <1>2, <1>4, <1>8, <2>1, StandsElsewhere DEF IInv, Vouched, Apart
    <2>2. CASE ~job.moved
      BY <1>1, <2>2, StandsStill DEF IInv, Vouched
    <2> QED
      BY <2>1, <2>2
  <1>10. past.acked # None => Sound(past.acked)'
    <2>1. CASE job.moved
      BY <1>1, <1>2, <1>4, <1>8, <2>1, StandsElsewhere DEF IInv, Apart
    <2>2. CASE ~job.moved
      BY <1>1, <1>8, <2>2, StandsStill
    <2> QED
      BY <2>1, <2>2
  <1>11. Remembered'
    BY <1>1, <1>2, <1>10 DEF IInv, Remembered
  <1> QED
    BY <1>5, <1>6, <1>7, <1>9, <1>11 DEF IInv

(* A removal that stops halfway tears only the root of this run. *)
LEMMA Tearing ==
  ASSUME IInv, job.at = "undo", job.moved, roots' = Torn,
         UNCHANGED <<record, backup>>,
         past'.acked = past.acked, past'.refreshed = past.refreshed
  PROVE  /\ roots' \in RootTypes
         /\ past.acked # None => Sound(past.acked)'
         /\ ~past.botched => /\ record # None => Vouches(record)'
                             /\ backup # None => Vouches(backup)'
  <1>1. Version \in Versions /\ roots[Version] # None
    BY UndoPhases DEF IInv, Apart
  <1> DEFINE t == [roots[Version] EXCEPT !.quality = "partial"]
  <1>2. t \in Trees /\ roots' = [roots EXCEPT ![Version] = t]
    BY <1>1, TornIsTyped DEF IInv, Types, Torn, Version
  <1> HIDE DEF t
  <1>3. /\ roots' \in RootTypes
        /\ \A w \in Versions \ {Version} : roots'[w] = roots[w]
    BY <1>1, <1>2, Elsewhere DEF IInv, Types
  <1>4. /\ past.acked # None =>
             past.acked \in Records /\ Sound(past.acked)
        /\ record # None => record \in Records
        /\ backup # None => backup \in Records
    BY DEF IInv, Types, PastType, Remembered
  <1>5. past.acked # None => Sound(past.acked)'
    BY <1>1, <1>3, <1>4, StandsElsewhere DEF IInv, Apart
  <1>6. ASSUME ~past.botched
        PROVE  /\ record # None => Vouches(record)'
               /\ backup # None => Vouches(backup)'
    BY <1>1, <1>3, <1>4, <1>6, StandsElsewhere DEF IInv, Vouched, Apart
  <1> QED
    BY <1>3, <1>5, <1>6

LEMMA RollbackFailsStep ==
  ASSUME IInv, RollbackFails
  PROVE  IInv'
  <1> DEFINE q == IF job.took THEN "restore" ELSE "end"
  <1>1. /\ job.at = "undo" /\ Go(q) /\ job.moved /\ roots' = Torn
        /\ spent' \in SpentType
        /\ UNCHANGED <<lockFile, external, record, backup, config>>
    BY Faulting DEF RollbackFails
  <1>2. /\ past' \in PastType /\ past'.acked = past.acked
        /\ past'.refreshed = past.refreshed /\ past'.botched
    BY Marking DEF RollbackFails, Botch, IInv, Types
  <1>3. /\ Running /\ Version \in Versions /\ job \in JobType
        /\ q \in PhasesOf(Mode) /\ q \in AllPhases /\ job.outcome = "failed"
    BY <1>1, UndoPhases
  <1>4. /\ job' \in JobType /\ job'.at = q /\ Same
        /\ job'.already = job.already /\ job'.outcome = "failed"
    BY <1>1, <1>3, Going
  <1>5. /\ roots' \in RootTypes
        /\ past.acked # None => Sound(past.acked)'
    BY <1>1, <1>2, Tearing
  <1>6. Types' /\ Process' /\ Switch'
    BY <1>1, <1>2, <1>3, <1>4, <1>5, RunsOn DEF IInv, Types
  <1>7. Flags'
    BY <1>1, <1>4 DEF IInv, Flags, Same
  <1> QED
    BY <1>1, <1>2, <1>4, <1>5, <1>6, <1>7, Botching

LEMMA RestoreStep ==
  ASSUME IInv, RestoreUpgradeRecord
  PROVE  IInv'
  <1>1. /\ job.at = "restore" /\ Go("end") /\ record' = backup
        /\ UNCHANGED <<lockFile, external, spent, past, roots, backup, config>>
    BY DEF RestoreUpgradeRecord, Phase, At, inputs
  <1>2. /\ Running /\ ~Answered /\ job \in JobType /\ job.outcome = "failed"
        /\ "end" \in PhasesOf(Mode) /\ "end" \in AllPhases
    BY <1>1, UndoPhases
  <1>3. /\ job' \in JobType /\ job'.at = "end" /\ Same
        /\ job'.already = job.already /\ job'.outcome = "failed"
    BY <1>1, <1>2, Going
  <1>4. Types' /\ Process' /\ Switch'
    BY <1>1, <1>2, <1>3, RunsOn DEF IInv, Types
  <1>5. Flags' /\ SetAside' /\ Tested' /\ Seen' /\ Found' /\ Apart'
    BY <1>1, <1>3
       DEF IInv, Flags, SetAside, Tested, Staged, Seen, Found, Apart, Answered,
           Same
  <1>6. ~past.botched => /\ record = None /\ roots = job.before.roots
                         /\ backup = job.before.record
    BY <1>1, <1>2 DEF IInv, Snapshot, Flags
  <1>7. Snapshot'
    BY <1>1, <1>3, <1>6 DEF Snapshot, Same
  <1>8. Vouched'
    BY <1>1, StandsStill DEF IInv, Vouched
  <1>9. Remembered'
    BY <1>1, <1>3, <1>6, StandsStill DEF IInv, Remembered
  <1> QED
    BY <1>4, <1>5, <1>7, <1>8, <1>9 DEF IInv

LEMMA RestoreFailsStep ==
  ASSUME IInv, RestoreFails
  PROVE  IInv'
  <1>1. /\ job.at = "restore" /\ Go("end") /\ record' \in {record, None}
        /\ spent' \in SpentType
        /\ UNCHANGED <<lockFile, external, roots, backup, config>>
    BY Faulting DEF RestoreFails
  <1>2. /\ past' \in PastType /\ past'.acked = past.acked /\ past'.botched
    BY Marking DEF RestoreFails, Botch, IInv, Types
  <1>3. /\ Running /\ job \in JobType /\ job.outcome = "failed"
        /\ "end" \in PhasesOf(Mode) /\ "end" \in AllPhases
    BY <1>1, UndoPhases
  <1>4. /\ job' \in JobType /\ job'.at = "end" /\ Same
        /\ job'.already = job.already /\ job'.outcome = "failed"
    BY <1>1, <1>3, Going
  <1>5. Types' /\ Process' /\ Switch'
    BY <1>1, <1>2, <1>3, <1>4, RunsOn DEF IInv, Types
  <1>6. Flags'
    BY <1>1, <1>4 DEF IInv, Flags, Same
  <1>7. past.acked # None => Sound(past.acked)'
    BY <1>1, <1>2, StandsStill DEF IInv, Remembered
  <1> QED
    BY <1>2, <1>4, <1>5, <1>6, <1>7, Botching

-----------------------------------------------------------------------------
(* The end of a run, and what happens between runs.                        *)

(* Everything that speaks of a running request holds of the idle process. *)
LEMMA Resting ==
  ASSUME job' = Idle
  PROVE  /\ Process' /\ Flags' /\ SetAside' /\ Tested' /\ Seen' /\ Snapshot'
         /\ Apart' /\ Found' /\ ~Answered' /\ job' \in JobType /\ job'.at = "idle"
  BY IdleIsTyped
     DEF Process, Flags, SetAside, Tested, Seen, Snapshot, Apart, Found, Answered,
         Running

LEMMA EndStep ==
  ASSUME IInv, End
  PROVE  IInv'
  <1>1. /\ job.at = "end" /\ job' = Idle
        /\ UNCHANGED <<lockFile, external, roots, record, backup, config, spent>>
    BY DEF End, At, inputs, files
  <1>2. past' = [past EXCEPT !.acked =
                   IF job.outcome = "ok" THEN record ELSE past.acked]
    BY DEF End, IInv, Types, PastType
  <1>3. /\ past' \in PastType /\ past'.botched = past.botched
        /\ past'.refreshed = past.refreshed
        /\ past'.acked = IF job.outcome = "ok" THEN record ELSE past.acked
    BY <1>2 DEF IInv, Types, PastType
  <1>4. Types' /\ Switch'
    BY <1>1, <1>3, Resting DEF IInv, Types, Switch
  <1>5. Vouched'
    BY <1>1, <1>3, StandsStill DEF IInv, Vouched
  <1>6. Remembered'
    <2>1. CASE job.outcome = "ok"
      BY <1>1, <1>3, <2>1, StandsStill DEF IInv, Remembered, Found, Answered
    <2>2. CASE job.outcome # "ok"
      BY <1>1, <1>3, <2>2, StandsStill DEF IInv, Remembered, Answered
    <2> QED
      BY <2>1, <2>2
  <1> QED
    BY <1>1, <1>4, <1>5, <1>6, Resting DEF IInv

LEMMA CrashStep ==
  ASSUME IInv, Crash
  PROVE  IInv'
  <1>1. /\ job.at # "end" /\ job' = Idle /\ spent' \in SpentType
        /\ UNCHANGED <<lockFile, external, record, backup, config, past>>
    BY Faulting DEF Crash
  <1>2. roots' = roots \/ (job.at = "undo" /\ job.moved /\ roots' = Torn)
    BY DEF Crash, At
  <1>3. /\ roots' \in RootTypes
        /\ past.acked # None => Sound(past.acked)'
        /\ ~past.botched => /\ record # None => Vouches(record)'
                            /\ backup # None => Vouches(backup)'
    <2>1. CASE roots' = roots
      BY <1>1, <2>1, StandsStill DEF IInv, Types, Remembered, Vouched
    <2>2. CASE job.at = "undo" /\ job.moved /\ roots' = Torn
      BY <1>1, <2>2, Tearing
    <2> QED
      BY <1>2, <2>1, <2>2
  <1>4. Types' /\ Switch'
    BY <1>1, <1>3, Resting DEF IInv, Types, Switch
  <1>5. Vouched'
    BY <1>1, <1>3 DEF Vouched
  <1>6. Remembered'
    BY <1>1, <1>3 DEF IInv, Remembered, Answered
  <1> QED
    BY <1>1, <1>4, <1>5, <1>6, Resting DEF IInv

LEMMA BeginStep ==
  ASSUME IInv, NEW req \in Requests, Begin(req)
  PROVE  IInv'
  <1> DEFINE p == IF req.install = "upgrade" THEN "prepare" ELSE "validate"
             snapshot == [roots |-> roots, record |-> record]
  <1>1. /\ job.at = "idle"
        /\ job' = [Idle EXCEPT !.at = p, !.req = req, !.before = snapshot]
        /\ UNCHANGED <<lockFile, external, roots, record, backup, config, past>>
        /\ spent' \in SpentType
    BY Spending DEF Begin, At, inputs, files, IInv, Types
  <1>2. snapshot \in Snapshots
    BY DEF IInv, Types, Snapshots
  <1>3. /\ job' \in JobType /\ job'.at = p /\ job'.req = req
        /\ job'.before = snapshot /\ ~job'.took /\ ~job'.moved /\ ~job'.already
    BY <1>1, <1>2, IdleIsTyped DEF JobType, AllPhases, CommonPhases
  <1>4. p \in PhasesOf(req.mode)
    BY RequestsAreTyped DEF PhasesOf, RequestType, Managed, CommonPhases
  <1>5. Types' /\ Process' /\ Switch'
    BY <1>1, <1>2, <1>3, <1>4 DEF IInv, Types, Process, Switch, Running, Mode
  <1>6. /\ Flags' /\ SetAside' /\ Tested' /\ Seen' /\ Snapshot' /\ Apart'
        /\ Found'
    BY <1>1, <1>3
       DEF Flags, SetAside, Tested, Staged, Seen, Snapshot, Apart, Found, Answered
  <1>7. Vouched' /\ Remembered'
    BY <1>1, <1>3, StandsStill DEF IInv, Vouched, Remembered, Answered
  <1> QED
    BY <1>5, <1>6, <1>7 DEF IInv

(* The switch to CalDAV. *)
LEMMA LinkStep ==
  ASSUME IInv, LinkBaseline
  PROVE  IInv'
  <1>1. /\ job.at = "idle" /\ config.password
        /\ config' = [config EXCEPT !.saved = TRUE]
        /\ job' = [Idle EXCEPT !.at = "caldav"]
        /\ UNCHANGED <<lockFile, external, roots, record, backup, spent, past>>
    BY DEF LinkBaseline, ActivationPrerequisite, At, inputs
  <1>2. /\ config' \in ConfigType /\ config'.saved /\ config'.password
    BY <1>1 DEF IInv, Types, ConfigType
  <1>3. /\ job' \in JobType /\ job'.at = "caldav" /\ ~job'.moved /\ ~job'.already
    BY <1>1, IdleIsTyped DEF JobType, AllPhases
  <1>4. /\ Types' /\ Process' /\ Switch'
        /\ Flags' /\ SetAside' /\ Tested' /\ Seen' /\ Snapshot' /\ Apart'
        /\ Found'
    BY <1>1, <1>2, <1>3
       DEF IInv, Types, Process, Switch, Flags, SetAside, Tested, Seen,
           Snapshot, Apart, Found, Answered, Running
  <1>5. Vouched' /\ Remembered'
    BY <1>1, <1>3, StandsStill DEF IInv, Vouched, Remembered, Answered
  <1> QED
    BY <1>4, <1>5 DEF IInv

LEMMA CaldavStep ==
  ASSUME IInv, ActivateCaldav
  PROVE  IInv'
  <1>1. /\ job.at = "caldav" /\ job' = Idle
        /\ config' = [config EXCEPT !.vdir = "caldav"]
        /\ UNCHANGED <<lockFile, external, roots, record, backup, spent, past>>
    BY DEF ActivateCaldav, Phase, At, inputs
  <1>2. config' \in ConfigType /\ config'.saved /\ config'.password
    BY <1>1 DEF IInv, Types, ConfigType, Switch
  <1>3. Types' /\ Switch'
    BY <1>1, <1>2, Resting DEF IInv, Types, Switch
  <1>4. Vouched' /\ Remembered'
    BY <1>1, Resting, StandsStill DEF IInv, Vouched, Remembered, Answered
  <1> QED
    BY <1>1, <1>3, <1>4, Resting DEF IInv

LEMMA PasswordStep ==
  ASSUME IInv, ProvisionPassword
  PROVE  IInv'
  <1>1. /\ job.at = "idle" /\ config' = [config EXCEPT !.password = TRUE]
        /\ UNCHANGED <<lockFile, external, roots, record, backup, job, spent, past>>
    BY DEF ProvisionPassword, At, inputs
  <1>2. /\ config' \in ConfigType /\ config'.password
        /\ config'.saved = config.saved /\ config'.vdir = config.vdir
    BY <1>1 DEF IInv, Types, ConfigType
  <1>3. Types' /\ Switch' /\ job' = Idle
    BY <1>1, <1>2 DEF IInv, Types, Switch, Process
  <1>4. Vouched' /\ Remembered'
    BY <1>1, StandsStill DEF IInv, Vouched, Remembered, Answered
  <1> QED
    BY <1>3, <1>4, Resting DEF IInv

(* The backup may go once the record of the next installation is there. *)
LEMMA ArchiveStep ==
  ASSUME IInv, ArchiveBackup
  PROVE  IInv'
  <1>1. /\ job.at = "idle" /\ record # None /\ backup' = None
        /\ UNCHANGED <<lockFile, external, roots, record, config, job, spent, past>>
    BY DEF ArchiveBackup, Phase, At, inputs
  <1>2. Types' /\ Switch' /\ job' = Idle
    BY <1>1 DEF IInv, Types, Switch, Process
  <1>3. Vouched' /\ Remembered'
    BY <1>1, StandsStill DEF IInv, Vouched, Remembered, Answered
  <1> QED
    BY <1>2, <1>3, Resting DEF IInv

LEMMA EditStep ==
  ASSUME IInv, EditInput
  PROVE  IInv'
  <1>1. /\ UNCHANGED <<roots, record, backup, config, job, past>>
        /\ spent' \in SpentType /\ lockFile' \in Locks
        /\ external' = external \/ external' \in {"wrong", "gone"}
    BY Spending DEF EditInput, files, IInv, Types
  <1>2. Types' /\ Process' /\ Switch'
    BY <1>1 DEF IInv, Types, Externals, Process, Switch, Running, Mode
  <1>3. Seen'
    BY <1>1 DEF IInv, Seen, Running, Mode
  <1>4. /\ Flags' /\ SetAside' /\ Tested' /\ Snapshot' /\ Apart' /\ Found'
    BY <1>1
       DEF IInv, Flags, SetAside, Tested, Snapshot, EvidenceReplaced, Apart, Found,
           Answered, Running, Mode, Version, Sound, Whole
  <1>5. Vouched' /\ Remembered'
    BY <1>1, StandsStill DEF IInv, Vouched, Remembered, Answered
  <1> QED
    BY <1>2, <1>3, <1>4, <1>5 DEF IInv

-----------------------------------------------------------------------------
LEMMA Inductive == Spec => []IInv
  <1>1. ASSUME Init PROVE IInv
    <2>1. Types /\ Switch
      BY <1>1, IdleIsTyped
         DEF Init, Types, Switch, Externals, RootTypes, ConfigType, SpentType, PastType
    <2>2. /\ Process /\ Flags /\ SetAside /\ Tested /\ Seen /\ Snapshot /\ Apart
          /\ Found
      BY <1>1, IdleIsTyped
         DEF Init, Process, Flags, SetAside, Tested, Seen, Snapshot, Apart,
             Found, Answered, Running
    <2>3. Vouched /\ Remembered
      BY <1>1 DEF Init, Vouched, Remembered
    <2> QED
      BY <2>1, <2>2, <2>3 DEF IInv
  <1>2. ASSUME IInv, Next PROVE IInv'
    <2>1. CASE PrepareUpgradeRecord \/ RetireRecord \/ ValidateConfig
      BY <1>2, <2>1, PrepareStep, RetireStep, ValidateStep
    <2>2. CASE Inspect
      BY <1>2, <2>2, InspectTracesStep, MatchStep, RefreshStep, RegisterStep
         DEF Inspect
    <2>3. CASE Build
      BY <1>2, <2>3, PreflightStep, StageStep, WheelhouseStep, EnvironmentStep,
         PythonStep, VersionsStep, SmokeStep, HashStep, RecheckStep DEF Build
    <2>4. CASE Commit
      BY <1>2, <2>4, LayoutStep, ConfigureStep, ActivateStep, SettleStep,
         RepythonStep, WriteStep DEF Commit
    <2>5. CASE Undo \/ End \/ ActivateCaldav
      BY <1>2, <2>5, RollbackStep, RestoreStep, EndStep, CaldavStep DEF Undo
    <2>6. CASE Faults
      BY <1>2, <2>6, RetireFailsStep, RefreshFailsStep, ConfigureFailsStep,
         WriteFailsStep, PhaseFailsStep, RollbackFailsStep, RestoreFailsStep,
         CrashStep DEF Faults
    <2>7. CASE Operator
      BY <1>2, <2>7, BeginStep, PasswordStep, LinkStep, ArchiveStep, EditStep
         DEF Operator
    <2> QED
      BY <1>2, <2>1, <2>2, <2>3, <2>4, <2>5, <2>6, <2>7 DEF Next, Work
  <1>3. ASSUME IInv, UNCHANGED vars PROVE IInv'
    BY <1>3
       DEF vars, IInv, Types, Process, Switch, Flags, Snapshot, EvidenceReplaced,
           SetAside, Tested, Seen, Vouched, Vouches, Apart, Found, Remembered, Sound,
           Whole, Answered, Running, Mode, Version
  <1> QED
    BY <1>1, <1>2, <1>3, PTL DEF Spec

(* Whatever the installer does and however it ends, every file and every   *)
(* field of the process holds a value of its type, and the synchroniser is *)
(* only ever configured for CalDAV with a password in place and the local  *)
(* configuration kept beside it.                                           *)
THEOREM ToolchainIsTyped == Spec => []TypeOK
  <1>1. ASSUME IInv PROVE TypeOK
    BY <1>1 DEF IInv, Types, Process, Switch, RootTypes, ConfigType, JobType,
       TypeOK
  <1> QED
    BY <1>1, Inductive, PTL

(* An installation record stands for tools that passed every check in      *)
(* their final place, as long as no undo step has failed: no later run,    *)
(* upgrade, rollback or crash takes the root away or puts another there.   *)
THEOREM RecordsStandForTools == Spec => []RecordVouches
  <1>1. ASSUME IInv PROVE RecordVouches
    BY <1>1 DEF IInv, Vouched, Vouches, RecordVouches
  <1> QED
    BY <1>1, Inductive, PTL

(* A run that is answered with failure, its undo steps done, has left the  *)
(* roots and the record as it found them, wherever it failed: before or    *)
(* after the move, with the old record set aside or not; the exception is  *)
(* the evidence that an approved repair replaced before it failed.         *)
THEOREM FailedRunsKeepInstallation == Spec => []FailureKeepsInstallation
  <1>1. ASSUME IInv PROVE FailureKeepsInstallation
    BY <1>1 DEF IInv, Snapshot, FailureKeepsInstallation, Running, Answered, At
  <1> QED
    BY <1>1, Inductive, PTL

(* What an operator was last told is installed stays: its root is whole in *)
(* every later state, and its record or the backup of it is there, through *)
(* later upgrades that fail, are refused or interrupted, unless an undo    *)
(* step has failed or the record's evidence was refreshed since.           *)
THEOREM AcknowledgedStays == Spec => []AcknowledgedSurvives
  <1>1. ASSUME IInv PROVE AcknowledgedSurvives
    BY <1>1 DEF IInv, Remembered, Sound, Whole, AcknowledgedSurvives
  <1> QED
    BY <1>1, Inductive, PTL
=============================================================================
