--------------------- MODULE TaskwarriorToolchainProofs ---------------------
(***************************************************************************)
(* What a Taskwarrior installation record stands for, and what a repeated  *)
(* request answers, for any requests, versions, number of runs, faults,    *)
(* crashes and edits.  The argument: what a run has checked so far goes    *)
(* with its phase; a version root is only ever removed by the run that     *)
(* moved it there, into a place that was empty, so no record names it yet; *)
(* and while nothing is edited, what was acknowledged is what a repeated   *)
(* run finds when it looks.                                                *)
(***************************************************************************)
EXTENDS TaskwarriorToolchain, TLAPS

Mode == job.req.mode
Version == job.req.version

(* The phases a run of each mode can be in. *)
ManagedEnd == {"move", "normalise", "write", "rollback", "end"}
PhasesOf(mode) ==
  CASE mode = "source"   -> {"validate", "inspect", "preflight", "network",
                             "dependencies", "extract", "build", "stage",
                             "smoke", "compare", "layout", "examine"}
                            \cup ManagedEnd
    [] mode = "bundled"  -> {"validate", "preflight", "stage", "smoke",
                             "layout", "examine"} \cup ManagedEnd
    [] mode = "external" -> {"validate", "hash", "existing", "smoke",
                             "layout", "register", "end"}
AllPhases == {"idle", "validate", "inspect", "preflight", "network",
              "dependencies", "extract", "build", "stage", "smoke", "compare",
              "layout", "examine", "move", "normalise", "write", "rollback",
              "hash", "existing", "register", "end"}

JobType == [at : AllPhases, req : Requests \cup {None},
            staged : Binaries \cup {None}, seen : Binaries \cup {None},
            outcome : {"none", "ok", "failed"}, faulted : BOOLEAN]

Types ==
  /\ archive \in {"pinned", "other"} /\ artefact \in Binaries
  /\ external \in Binaries
  /\ tools \in [Versions -> Binaries \cup {None, Husk}]
  /\ record \in Records \cup {None}
  /\ taskrc \in {None, "managed", "edited"}
  /\ job \in JobType
  /\ job.at = "idle" => job = Idle
  /\ job.at # "idle" => job.req \in Requests /\ job.at \in PhasesOf(Mode)
  /\ spent \in [attempts : Nat, faults : Nat, edits : Nat]
  /\ past \in [req : Requests \cup {None}, acked : Records \cup {None},
               unreported : BOOLEAN]

(* What the run has checked by the time it is in this phase. *)
Checked ==
  /\ job.at \in {"compare", "layout", "examine", "move", "normalise", "write",
                 "register"} => job.staged \in Binaries /\ job.staged.works
  /\ job.at \in {"stage", "smoke"} /\ Mode = "source" => job.staged \in Binaries
  /\ job.at = "smoke" /\ Mode = "bundled" => job.staged \in Binaries
  /\ job.at \in {"layout", "examine", "move", "normalise", "write"}
       /\ Mode = "source" => job.staged.reports = Version
  /\ job.at \in {"existing", "smoke", "layout", "register"}
       /\ Mode = "external" => job.seen \in Binaries
  /\ job.at = "rollback" => job.faulted

(* The version root is empty until this run moves its own there, and a     *)
(* record that stands for something does not name that root before then.   *)
Placed ==
  /\ job.at = "move" => tools[Version] = None
  /\ job.at \in {"normalise", "write"} => tools[Version] = job.staged
  /\ job.at \in {"normalise", "write", "rollback"}
       /\ record # None /\ ~past.unreported /\ record.mode # "external"
     => record.version # Version

(* What a success of this request says of this record, as long as nothing  *)
(* has been edited.                                                        *)
Honours(r, req) ==
  /\ req.mode = "source" => r.mode = "source" /\ r.version = req.version
  /\ req.mode = "bundled" =>
       /\ r.mode # "external" /\ r.version = req.version
       /\ r.sha256 = artefact /\ artefact = req.expected /\ artefact.works
  /\ req.mode = "external" => r.mode = "external" /\ r.sha256 = external

(* A run holds what the inputs hold, while they are not edited. *)
Unedited ==
  spent.edits = 0 =>
    /\ archive = "pinned"
    /\ taskrc \in {None, "managed"}
    /\ job.at \in {"stage", "smoke", "layout", "examine", "move", "normalise",
                   "write"} /\ Mode = "bundled" => artefact = job.req.expected
    /\ job.at \in {"smoke", "layout", "examine", "move", "normalise", "write"}
         /\ Mode = "bundled" => job.staged = artefact
    /\ job.at \in {"existing", "smoke", "layout", "register"}
         /\ Mode = "external" => job.seen = external

(* Beyond these phases there is no record: it would have answered the run. *)
NoRecordYet ==
  /\ job.at \in {"preflight", "network", "dependencies", "extract", "build",
                 "stage", "smoke", "compare", "layout", "examine", "move",
                 "normalise", "write"} /\ Mode = "source" => record = None
  /\ job.at \in {"smoke", "layout", "register"} /\ Mode = "external"
       => record = None

(* A success is answered beside a record that has its tree. *)
Answered ==
  job.at = "end" /\ job.outcome = "ok" =>
    /\ record # None /\ HasTree(record)
    /\ spent.edits = 0 => Honours(record, job.req)

(* What was acknowledged keeps its tree. *)
Remembered ==
  /\ past.req # None <=> past.acked # None
  /\ past.acked # None =>
       /\ HasTree(past.acked)
       /\ spent.edits = 0 => Honours(past.acked, past.req)
       /\ job.at \in {"normalise", "write", "rollback"}
            /\ past.acked.mode # "external" => past.acked.version # Version

IInv ==
  /\ Types /\ Checked /\ Placed /\ RecordVouches
  /\ Unedited /\ NoRecordYet /\ Answered /\ Remembered /\ RerunsSucceed

-----------------------------------------------------------------------------
(* The order of the phases, per mode. *)
LEMMA Order ==
  /\ Mode = "source" =>
       /\ Follower("validate") = "inspect" /\ Follower("inspect") = "preflight"
       /\ Follower("preflight") = "network" /\ Follower("network") = "dependencies"
       /\ Follower("dependencies") = "extract" /\ Follower("extract") = "build"
       /\ Follower("build") = "stage" /\ Follower("stage") = "smoke"
       /\ Follower("smoke") = "compare" /\ Follower("compare") = "layout"
       /\ Follower("layout") = "examine"
  /\ Mode = "bundled" =>
       /\ Follower("validate") = "preflight" /\ Follower("preflight") = "stage"
       /\ Follower("stage") = "smoke" /\ Follower("smoke") = "layout"
       /\ Follower("layout") = "examine"
  /\ Mode = "external" =>
       /\ Follower("validate") = "hash" /\ Follower("hash") = "existing"
       /\ Follower("existing") = "smoke" /\ Follower("smoke") = "layout"
       /\ Follower("layout") = "register"
  BY DEF Follower, SourcePreparation, SourceInstallation, BundledPhases,
     ExternalPhases, Mode

LEMMA Requested ==
  ASSUME Types, job.at # "idle"
  PROVE  /\ job.req \in Requests /\ job.req \in RequestType /\ job.req # None
         /\ Mode \in {"source", "bundled", "external"}
         /\ Version \in Versions
         /\ job.req.expected \in Binaries
         /\ job.at \in PhasesOf(Mode)
  BY RequestsAreTyped, NoneIsDistinct DEF Types, RequestType, Modes, Mode, Version

(* What the ways to change the job leave of it. *)
LEMMA Going ==
  ASSUME job \in JobType, NEW p \in AllPhases, Go(p)
  PROVE  /\ job' \in JobType /\ job'.at = p /\ job'.req = job.req
         /\ job'.staged = job.staged /\ job'.seen = job.seen
         /\ job'.outcome = job.outcome /\ job'.faulted = job.faulted
  BY DEF Go, JobType

LEMMA Failing ==
  ASSUME job \in JobType, Fail
  PROVE  /\ job' \in JobType /\ job'.at = "end" /\ job'.req = job.req
         /\ job'.staged = job.staged /\ job'.seen = job.seen
         /\ job'.outcome = "failed" /\ job'.faulted = job.faulted
  BY DEF Fail, JobType, AllPhases

LEMMA Succeeding ==
  ASSUME job \in JobType, Succeed
  PROVE  /\ job' \in JobType /\ job'.at = "end" /\ job'.req = job.req
         /\ job'.staged = job.staged /\ job'.seen = job.seen
         /\ job'.outcome = "ok" /\ job'.faulted = job.faulted
  BY DEF Succeed, JobType, AllPhases

LEMMA Faulting ==
  ASSUME job \in JobType, NEW p \in AllPhases, Faulted(p, "failed")
  PROVE  /\ job' \in JobType /\ job'.at = p /\ job'.req = job.req
         /\ job'.staged = job.staged /\ job'.seen = job.seen
         /\ job'.outcome = "failed" /\ job'.faulted
  BY DEF Faulted, JobType, AllPhases

LEMMA Holding ==
  ASSUME job \in JobType, NEW p \in AllPhases, NEW b \in Binaries,
         job' = [job EXCEPT !.at = p, !.staged = b]
  PROVE  /\ job' \in JobType /\ job'.at = p /\ job'.req = job.req
         /\ job'.staged = b /\ job'.seen = job.seen
         /\ job'.outcome = job.outcome /\ job'.faulted = job.faulted
  BY DEF JobType

LEMMA Seeing ==
  ASSUME job \in JobType, NEW p \in AllPhases, NEW b \in Binaries,
         job' = [job EXCEPT !.at = p, !.seen = b]
  PROVE  /\ job' \in JobType /\ job'.at = p /\ job'.req = job.req
         /\ job'.staged = job.staged /\ job'.seen = b
         /\ job'.outcome = job.outcome /\ job'.faulted = job.faulted
  BY DEF JobType

LEMMA PhasesAreKnown == \A mode \in {"source", "bundled", "external"} :
                           PhasesOf(mode) \subseteq AllPhases
  BY DEF PhasesOf, AllPhases, ManagedEnd

(* The types after a step of a run that goes on. *)
LEMMA TypesKept ==
  ASSUME Types, job.at # "idle", job' \in JobType, job'.req = job.req,
         job'.at \in PhasesOf(Mode), UNCHANGED inputs,
         spent' \in [attempts : Nat, faults : Nat, edits : Nat],
         past' \in [req : Requests \cup {None}, acked : Records \cup {None},
                    unreported : BOOLEAN],
         tools' \in [Versions -> Binaries \cup {None, Husk}],
         record' \in Records \cup {None},
         taskrc' \in {None, "managed", "edited"}
  PROVE  Types'
  <1>1. job'.at # "idle"
    BY Requested DEF PhasesOf, ManagedEnd
  <1> QED
    BY <1>1, Requested DEF Types, Mode, inputs

-----------------------------------------------------------------------------
(* Steps that only look: a run that has not moved anything yet.            *)
Looks == {"validate", "inspect", "preflight", "network", "dependencies",
          "extract", "build", "stage", "smoke", "compare", "layout",
          "examine", "hash", "existing", "register"}
Steady == UNCHANGED <<inputs, tools, record, spent, past>>
Rerunning == job.req = past.req /\ record = past.acked /\ spent.edits = 0

LEMMA Followers ==
  ASSUME Types, job.at \in Looks \ {"examine", "register"}
  PROVE  /\ Follower(job.at) \in AllPhases
         /\ Follower(job.at) \in PhasesOf(Mode) \cap Looks
  <1>1. job.at # "idle"
    BY DEF Looks
  <1>2. CASE Mode = "source"
    BY <1>1, <1>2, Order, Requested DEF PhasesOf, ManagedEnd, AllPhases, Looks
  <1>3. CASE Mode = "bundled"
    BY <1>1, <1>3, Order, Requested DEF PhasesOf, ManagedEnd, AllPhases, Looks
  <1>4. CASE Mode = "external"
    BY <1>1, <1>4, Order, Requested DEF PhasesOf, ManagedEnd, AllPhases, Looks
  <1> QED
    BY <1>1, <1>2, <1>3, <1>4, Requested

LEMMA Ends == \A mode \in {"source", "bundled", "external"} : "end" \in PhasesOf(mode)
  BY DEF PhasesOf, ManagedEnd

LEMMA Looking ==
  ASSUME IInv, job.at \in Looks,
         job' \in JobType, job'.req = job.req,
         job'.at \in PhasesOf(Mode), job'.at \in Looks \cup {"move", "end"},
         job'.at = "move" => tools[Version] = None,
         UNCHANGED <<inputs, tools, record, past>>,
         spent' \in [attempts : Nat, faults : Nat, edits : Nat],
         spent'.edits = spent.edits,
         taskrc' = taskrc \/ taskrc' = "managed",
         Checked', Unedited', NoRecordYet', Answered', RerunsSucceed'
  PROVE  IInv'
  <1>1. Types'
    BY TypesKept DEF IInv, Types, inputs, Looks
  <1>3. Placed' /\ RecordVouches'
    BY DEF IInv, Placed, RecordVouches, HasTree, Version, Looks
  <1>4. Remembered'
    BY DEF IInv, Remembered, HasTree, Honours, inputs, Version, Looks
  <1> QED
    BY <1>1, <1>3, <1>4 DEF IInv

(* A phase goes well. *)
LEMMA Continuing ==
  ASSUME IInv, job.at \in Looks, Steady,
         taskrc' = taskrc \/ taskrc' = "managed",
         job' \in JobType, job'.req = job.req,
         job'.at \in PhasesOf(Mode), job'.at \in Looks \cup {"move"},
         job'.at = "move" => tools[Version] = None,
         Checked', Unedited', NoRecordYet'
  PROVE  IInv'
  <1>1. Answered' /\ RerunsSucceed'
    BY DEF Answered, RerunsSucceed, At, Looks
  <1> QED
    BY <1>1, Looking DEF IInv, Types, Steady

(* A phase gives up. *)
LEMMA GivingUp ==
  ASSUME IInv, job.at \in Looks, Steady, UNCHANGED taskrc, Fail,
         Rerunning /\ ~job.faulted =>
           Mode = "external" /\ record.version # Version
  PROVE  IInv'
  <1>1. /\ job' \in JobType /\ job'.req = job.req /\ job'.faulted = job.faulted
        /\ job'.at = "end" /\ job'.outcome = "failed"
        /\ job'.at \in PhasesOf(Mode)
    BY Failing, Requested, Ends DEF IInv, Types, Looks
  <1>2. Checked' /\ Unedited' /\ NoRecordYet'
    BY <1>1 DEF IInv, Checked, Unedited, NoRecordYet, Steady, inputs
  <1>3. Answered' /\ RerunsSucceed'
    BY <1>1 DEF Answered, RerunsSucceed, At, Rerunning, Steady, Mode, Version
  <1> QED
    BY <1>1, <1>2, <1>3, Looking DEF IInv, Types, Steady

(* A phase finds that the request is satisfied already. *)
LEMMA Satisfied ==
  ASSUME IInv, job.at \in Looks, Steady, UNCHANGED taskrc, Succeed,
         record # None, HasTree(record),
         spent.edits = 0 => Honours(record, job.req)
  PROVE  IInv'
  <1>1. /\ job' \in JobType /\ job'.req = job.req
        /\ job'.at = "end" /\ job'.outcome = "ok"
        /\ job'.at \in PhasesOf(Mode)
    BY Succeeding, Requested, Ends DEF IInv, Types, Looks
  <1>2. Checked' /\ Unedited' /\ NoRecordYet'
    BY <1>1 DEF IInv, Checked, Unedited, NoRecordYet, Steady, inputs
  <1>3. Answered' /\ RerunsSucceed'
    BY <1>1 DEF Answered, RerunsSucceed, At, Steady, HasTree, Honours, inputs
  <1> QED
    BY <1>1, <1>2, <1>3, Looking DEF IInv, Types, Steady

(* A run that repeats an acknowledged one finds its record and its tree.   *)
LEMMA RerunFinds ==
  ASSUME IInv, job.at # "idle", Rerunning
  PROVE  /\ record \in Records /\ record # None /\ HasTree(record)
         /\ Honours(record, job.req)
         /\ archive = "pinned" /\ taskrc \in {None, "managed"}
  BY Requested DEF IInv, Types, Remembered, Rerunning, Unedited

LEMMA ValidateStep ==
  ASSUME IInv, ValidateConfig
  PROVE  IInv'
  <1>1. Steady /\ UNCHANGED taskrc /\ job.at = "validate" /\ Go(Follower(job.at))
    BY Requested DEF ValidateConfig, Phase, At, Check, Advance, Steady, inputs, files,
       IInv, SupportedVersion, Version
  <1>2. /\ job' \in JobType /\ job'.req = job.req
        /\ job'.at = Follower("validate")
        /\ job'.at \in PhasesOf(Mode) \cap Looks
    BY <1>1, Going, Followers DEF IInv, Types, Looks
  <1>3. Checked' /\ Unedited' /\ NoRecordYet'
    BY <1>1, <1>2, Order, Requested
       DEF IInv, Checked, Unedited, NoRecordYet, Mode, Steady, inputs
  <1> QED
    BY <1>1, <1>2, <1>3, Continuing DEF Looks

LEMMA PreflightStep ==
  ASSUME IInv, Preflight
  PROVE  IInv'
  <1>1. /\ Steady /\ UNCHANGED taskrc /\ job.at = "preflight" /\ job \in JobType /\ Types
        /\ Mode \in {"source", "bundled"}
    BY Requested DEF Preflight, Phase, At, Check, Steady, inputs, files, IInv, Types, PhasesOf
  <1>2. CASE InputVerified /\ Go(Follower(job.at))
    <2>1. /\ job' \in JobType /\ job'.req = job.req
          /\ job'.at = Follower("preflight") /\ job'.at \in PhasesOf(Mode) \cap Looks
          /\ job'.staged = job.staged
      BY <1>1, <1>2, Going, Followers DEF Looks
    <2>2. Mode = "bundled" => artefact = job.req.expected
      BY <1>2, <1>1 DEF InputVerified, Mode
    <2>3. Checked' /\ Unedited' /\ NoRecordYet'
      BY <1>1, <2>1, <2>2, Order DEF IInv, Checked, Unedited, NoRecordYet, Mode, Version, inputs, Steady
    <2> QED
      BY <1>1, <2>1, <2>3, Continuing DEF Looks
  <1>3. CASE ~InputVerified /\ Fail
    <2>1. ~Rerunning
      BY <1>1, <1>3, RerunFinds DEF InputVerified, Honours, Mode
    <2> QED
      BY <1>1, <1>3, <2>1, GivingUp DEF Looks
  <1> QED
    BY <1>2, <1>3 DEF Preflight, Check, Advance

(* A phase that has gone well. *)
LEMMA Advancing ==
  ASSUME Types, job.at \in Looks \ {"examine", "register"}, Go(Follower(job.at))
  PROVE  /\ job' \in JobType /\ job'.at = Follower(job.at) /\ job'.req = job.req
         /\ job'.staged = job.staged /\ job'.seen = job.seen
         /\ job'.outcome = job.outcome /\ job'.faulted = job.faulted
         /\ job'.at \in PhasesOf(Mode) \cap Looks
  BY Going, Followers DEF Types

(* A built run that repeats an acknowledged one does not come beyond the   *)
(* inspection, an external one not beyond the look at the record.          *)
LEMMA NoRerunBeyond ==
  ASSUME IInv, record = None, job.at # "idle"
  PROVE  ~Rerunning
  BY RerunFinds

LEMMA NetworkStep ==
  ASSUME IInv, ValidateNetwork \/ ValidateDependencies
  PROVE  IInv'
  <1>1. /\ Steady /\ UNCHANGED taskrc /\ job.at \in {"network", "dependencies"}
        /\ Types /\ Mode = "source" /\ Go(Follower(job.at))
    BY Requested DEF ValidateNetwork, ValidateDependencies, Phase, At, Check,
       Advance, Steady, inputs, files, IInv, PhasesOf, ManagedEnd
  <1>2. /\ job' \in JobType /\ job'.req = job.req
        /\ job'.at \in {"dependencies", "extract"}
        /\ job'.at \in PhasesOf(Mode) \cap Looks
    BY <1>1, Advancing, Order DEF Looks
  <1>3. Checked' /\ Unedited' /\ NoRecordYet'
    BY <1>1, <1>2 DEF IInv, Checked, Unedited, NoRecordYet, Mode, Steady, inputs
  <1> QED
    BY <1>1, <1>2, <1>3, Continuing DEF Looks

LEMMA ExtractStep ==
  ASSUME IInv, ExtractSource
  PROVE  IInv'
  <1>1. /\ Steady /\ UNCHANGED taskrc /\ job.at = "extract"
        /\ Types /\ Mode = "source"
    BY Requested DEF ExtractSource, Phase, At, Check, Steady, inputs, files,
       IInv, PhasesOf, ManagedEnd
  <1>2. CASE Go(Follower(job.at))
    <2>1. /\ job' \in JobType /\ job'.req = job.req /\ job'.at = "build"
          /\ job'.at \in PhasesOf(Mode) \cap Looks
      BY <1>1, <1>2, Advancing, Order DEF Looks
    <2>2. Checked' /\ Unedited' /\ NoRecordYet'
      BY <1>1, <2>1 DEF IInv, Checked, Unedited, NoRecordYet, Mode, Steady, inputs
    <2> QED
      BY <1>1, <2>1, <2>2, Continuing DEF Looks
  <1>3. CASE Fail
    <2>1. record = None
      BY <1>1 DEF IInv, NoRecordYet
    <2> QED
      BY <1>1, <1>3, <2>1, NoRerunBeyond, GivingUp DEF Looks
  <1> QED
    BY <1>2, <1>3 DEF ExtractSource, Check, Advance

LEMMA BuildStep ==
  ASSUME IInv, BuildSource
  PROVE  IInv'
  <1>1. /\ Steady /\ UNCHANGED taskrc /\ job.at = "build"
        /\ Types /\ Mode = "source"
    BY Requested DEF BuildSource, Phase, At, Steady, inputs, files, IInv,
       PhasesOf, ManagedEnd
  <1>2. PICK b \in Binaries :
           job' = [job EXCEPT !.at = Follower("build"), !.staged = b]
    BY DEF BuildSource
  <1>3. /\ job' \in JobType /\ job'.req = job.req /\ job'.at = "stage"
        /\ job'.staged = b
    <2>1. job \in JobType /\ "stage" \in AllPhases
      BY <1>1 DEF Types, AllPhases
    <2>2. Follower("build") = "stage"
      BY <1>1, Order
    <2> QED
      BY <1>2, <2>1, <2>2, Holding
  <1>4. Checked' /\ Unedited' /\ NoRecordYet'
    BY <1>1, <1>3 DEF IInv, Checked, Unedited, NoRecordYet, Mode, Steady, inputs
  <1>5. job'.at \in PhasesOf(Mode)
    BY <1>1, <1>3 DEF PhasesOf
  <1> QED
    BY <1>1, <1>3, <1>4, <1>5, Continuing DEF Looks

LEMMA InspectStep ==
  ASSUME IInv, InspectExistingSource
  PROVE  IInv'
  <1> DEFINE found == tools[Version]
  <1>1. /\ Steady /\ UNCHANGED taskrc /\ job.at = "inspect"
        /\ Types /\ Mode = "source" /\ Version \in Versions
    BY Requested DEF InspectExistingSource, Phase, At, Steady, inputs, files,
       IInv, PhasesOf, ManagedEnd
  <1>2. CASE found \in {None, Husk} /\ record = None /\ Go(Follower(job.at))
    <2>1. /\ job' \in JobType /\ job'.req = job.req /\ job'.at = "preflight"
          /\ job'.at \in PhasesOf(Mode) \cap Looks
      BY <1>1, <1>2, Advancing, Order DEF Looks
    <2>2. Checked' /\ Unedited' /\ NoRecordYet'
      BY <1>1, <1>2, <2>1
         DEF IInv, Checked, Unedited, NoRecordYet, Mode, Steady, inputs
    <2> QED
      BY <1>1, <2>1, <2>2, Continuing DEF Looks
  <1>3. CASE /\ found \in Binaries /\ record # None /\ record.mode = "source"
             /\ RecordMatches(record, Version, found) /\ Succeed
    <2>1. HasTree(record) /\ Honours(record, job.req)
      BY <1>1, <1>3 DEF HasTree, Honours, RecordMatches, Mode, Version
    <2> QED
      BY <1>1, <1>3, <2>1, Satisfied DEF Looks
  <1>4. CASE /\ ~ (found \in {None, Husk} /\ record = None)
             /\ ~ (/\ found \in Binaries /\ record # None /\ record.mode = "source"
                   /\ RecordMatches(record, Version, found))
             /\ Fail
    <2>1. ASSUME Rerunning PROVE FALSE
      <3>1. /\ record \in Records /\ record # None /\ HasTree(record)
            /\ record.mode = "source" /\ record.version = Version
        BY <1>1, <2>1, RerunFinds DEF Honours, Mode, Version
      <3>2. found = record.sha256 /\ record.sha256 \in Binaries
        BY <3>1 DEF HasTree, Records
      <3> QED
        BY <1>1, <1>4, <3>1, <3>2 DEF RecordMatches, Mode
    <2> QED
      BY <1>1, <1>4, <2>1, GivingUp DEF Looks
  <1> QED
    BY <1>2, <1>3, <1>4 DEF InspectExistingSource, Advance, Mode, Version

LEMMA StageStep ==
  ASSUME IInv, StageBinary
  PROVE  IInv'
  <1>1. /\ Steady /\ UNCHANGED taskrc /\ job.at = "stage"
        /\ Types /\ Mode \in {"source", "bundled"}
    BY Requested DEF StageBinary, Phase, At, Steady, inputs, files,
       IInv, PhasesOf, ManagedEnd
  <1>2. CASE Mode = "source" /\ Go(Follower(job.at))
    <2>1. /\ job' \in JobType /\ job'.req = job.req /\ job'.at = "smoke"
          /\ job'.staged = job.staged /\ job'.at \in PhasesOf(Mode) \cap Looks
      BY <1>1, <1>2, Advancing, Order DEF Looks
    <2>2. Checked' /\ Unedited' /\ NoRecordYet'
      BY <1>1, <1>2, <2>1
         DEF IInv, Checked, Unedited, NoRecordYet, Mode, Steady, inputs
    <2> QED
      BY <1>1, <2>1, <2>2, Continuing DEF Looks
  <1>3. CASE /\ Mode = "bundled" /\ artefact = job.req.expected
             /\ job' = [job EXCEPT !.at = Follower("stage"), !.staged = artefact]
    <2>1. /\ job' \in JobType /\ job'.req = job.req /\ job'.at = "smoke"
          /\ job'.staged = artefact /\ artefact \in Binaries
      BY <1>1, <1>3, Holding, Order DEF Types, AllPhases
    <2>2. Checked' /\ Unedited' /\ NoRecordYet'
      BY <1>1, <1>3, <2>1
         DEF IInv, Checked, Unedited, NoRecordYet, Mode, Steady, inputs
    <2>3. job'.at \in PhasesOf(Mode)
      BY <1>3, <2>1 DEF PhasesOf
    <2> QED
      BY <1>1, <2>1, <2>2, <2>3, Continuing DEF Looks
  <1>4. CASE Mode = "bundled" /\ artefact # job.req.expected /\ Fail
    <2>1. ~Rerunning
      BY <1>1, <1>4, RerunFinds DEF Honours, Mode
    <2> QED
      BY <1>1, <1>4, <2>1, GivingUp DEF Looks
  <1> QED
    BY <1>1, <1>2, <1>3, <1>4 DEF StageBinary, Advance, Mode

LEMMA SmokeStep ==
  ASSUME IInv, SmokeTest
  PROVE  IInv'
  <1>1. /\ Steady /\ UNCHANGED taskrc /\ job.at = "smoke" /\ Types
        /\ Mode \in {"source", "bundled", "external"}
    BY Requested DEF SmokeTest, Phase, At, Steady, inputs, IInv
  <1>2. Tested \in Binaries
    BY <1>1 DEF IInv, Checked, Tested, Types, Mode
  <1>3. CASE /\ Tested.works
             /\ job' = [job EXCEPT !.at = Follower("smoke"), !.staged = Tested]
    <2>1. /\ Follower("smoke") \in AllPhases
          /\ Follower("smoke") \in PhasesOf(Mode) \cap Looks
          /\ Follower("smoke") \in {"compare", "layout"}
          /\ Mode # "source" => Follower("smoke") = "layout"
          /\ Mode = "source" => Follower("smoke") = "compare"
      BY <1>1, Followers, Order DEF Looks
    <2>2. /\ job' \in JobType /\ job'.req = job.req /\ job'.at = Follower("smoke")
          /\ job'.staged = Tested /\ job'.seen = job.seen
      <3>1. job \in JobType
        BY <1>1 DEF Types
      <3> QED
        BY <1>2, <1>3, <2>1, <3>1, Holding
    <2>3. Checked'
      BY <1>1, <1>2, <1>3, <2>1, <2>2
         DEF IInv, Checked, Mode, Version, Steady, inputs
    <2>4. Unedited' /\ NoRecordYet'
      BY <1>1, <2>1, <2>2
         DEF IInv, Unedited, NoRecordYet, Mode, Steady, inputs, Tested
    <2> QED
      BY <1>1, <2>1, <2>2, <2>3, <2>4, Continuing DEF Looks
  <1>4. CASE ~Tested.works /\ Fail
    <2>1. CASE Mode \in {"source", "external"}
      <3>1. record = None
        BY <1>1, <2>1 DEF IInv, NoRecordYet
      <3> QED
        BY <1>1, <1>4, <3>1, NoRerunBeyond, GivingUp DEF Looks
    <2>2. CASE Mode = "bundled"
      <3>1. ASSUME Rerunning PROVE FALSE
        <4>1. artefact.works /\ spent.edits = 0
          BY <1>1, <2>2, <3>1, RerunFinds DEF Honours, Mode, Rerunning
        <4>2. Tested = artefact
          BY <1>1, <2>2, <4>1 DEF IInv, Unedited, Tested, Mode
        <4> QED
          BY <1>4, <4>1, <4>2
      <3> QED
        BY <1>1, <1>4, <3>1, GivingUp DEF Looks
    <2> QED
      BY <1>1, <2>1, <2>2
  <1> QED
    BY <1>3, <1>4 DEF SmokeTest

LEMMA CompareStep ==
  ASSUME IInv, CompareVersion
  PROVE  IInv'
  <1>1. /\ Steady /\ UNCHANGED taskrc /\ job.at = "compare" /\ Types
        /\ Mode = "source"
    BY Requested DEF CompareVersion, Phase, At, Steady, inputs, IInv,
       PhasesOf, ManagedEnd
  <1>2. CASE job.staged.reports = Version /\ Go(Follower(job.at))
    <2>1. /\ job' \in JobType /\ job'.req = job.req /\ job'.at = "layout"
          /\ job'.staged = job.staged /\ job'.at \in PhasesOf(Mode) \cap Looks
      BY <1>1, <1>2, Advancing, Order DEF Looks
    <2>2. Checked' /\ Unedited' /\ NoRecordYet'
      BY <1>1, <1>2, <2>1
         DEF IInv, Checked, Unedited, NoRecordYet, Mode, Version, Steady, inputs
    <2> QED
      BY <1>1, <2>1, <2>2, Continuing DEF Looks
  <1>3. CASE Fail
    <2>1. record = None
      BY <1>1 DEF IInv, NoRecordYet
    <2> QED
      BY <1>1, <1>3, <2>1, NoRerunBeyond, GivingUp DEF Looks
  <1> QED
    BY <1>2, <1>3 DEF CompareVersion, Advance, Mode, Version

LEMMA LayoutStep ==
  ASSUME IInv, ProvisionLayout
  PROVE  IInv'
  <1>1. /\ Steady /\ job.at = "layout" /\ Types
        /\ Mode \in {"source", "bundled", "external"}
    BY Requested DEF ProvisionLayout, Phase, At, Steady, inputs, IInv
  <1>2. CASE taskrc' = "managed" /\ Go(Follower(job.at))
    <2>1. /\ job' \in JobType /\ job'.req = job.req
          /\ job'.at \in {"examine", "register"}
          /\ job'.at = "register" <=> Mode = "external"
          /\ job'.staged = job.staged /\ job'.seen = job.seen
          /\ job'.at \in PhasesOf(Mode) \cap Looks
      BY <1>1, <1>2, Advancing, Order DEF Looks
    <2>2. Checked' /\ Unedited' /\ NoRecordYet'
      BY <1>1, <1>2, <2>1
         DEF IInv, Checked, Unedited, NoRecordYet, Mode, Version, Steady, inputs
    <2> QED
      BY <1>1, <1>2, <2>1, <2>2, Continuing DEF Looks
  <1>3. CASE taskrc \notin {None, "managed"} /\ UNCHANGED taskrc /\ Fail
    <2>1. ~Rerunning
      BY <1>1, <1>3, RerunFinds
    <2> QED
      BY <1>1, <1>3, <2>1, GivingUp DEF Looks
  <1> QED
    BY <1>2, <1>3 DEF ProvisionLayout, Advance

LEMMA HashStep ==
  ASSUME IInv, HashExternal
  PROVE  IInv'
  <1>1. /\ Steady /\ UNCHANGED taskrc /\ job.at = "hash" /\ Types
        /\ Mode = "external" /\ external \in Binaries
        /\ job' = [job EXCEPT !.at = Follower("hash"), !.seen = external]
    BY Requested DEF HashExternal, Phase, At, Steady, inputs, files, IInv,
       PhasesOf, ManagedEnd, Types
  <1>2. /\ job' \in JobType /\ job'.req = job.req /\ job'.at = "existing"
        /\ job'.seen = external
    BY <1>1, Seeing, Order DEF Types, AllPhases
  <1>3. Checked' /\ Unedited' /\ NoRecordYet'
    BY <1>1, <1>2 DEF IInv, Checked, Unedited, NoRecordYet, Mode, Steady, inputs
  <1>4. job'.at \in PhasesOf(Mode)
    BY <1>1, <1>2 DEF PhasesOf
  <1> QED
    BY <1>1, <1>2, <1>3, <1>4, Continuing DEF Looks

LEMMA ExistingStep ==
  ASSUME IInv, ExistingResult
  PROVE  IInv'
  <1>1. /\ Steady /\ UNCHANGED taskrc /\ job.at = "existing" /\ Types
        /\ Mode = "external"
        /\ spent.edits = 0 => job.seen = external
    BY Requested DEF ExistingResult, Phase, At, Steady, inputs, files, IInv,
       PhasesOf, ManagedEnd, Unedited
  <1>2. CASE record = None /\ Go(Follower(job.at))
    <2>1. /\ job' \in JobType /\ job'.req = job.req /\ job'.at = "smoke"
          /\ job'.seen = job.seen /\ job'.at \in PhasesOf(Mode) \cap Looks
      BY <1>1, <1>2, Advancing, Order DEF Looks
    <2>2. Checked' /\ Unedited' /\ NoRecordYet'
      BY <1>1, <1>2, <2>1
         DEF IInv, Checked, Unedited, NoRecordYet, Mode, Steady, inputs
    <2> QED
      BY <1>1, <2>1, <2>2, Continuing DEF Looks
  <1>3. CASE /\ record # None /\ RecordMatches(record, Version, job.seen)
             /\ Succeed
    <2>1. HasTree(record) /\ (spent.edits = 0 => Honours(record, job.req))
      BY <1>1, <1>3 DEF HasTree, Honours, RecordMatches, Mode, Version
    <2> QED
      BY <1>1, <1>3, <2>1, Satisfied DEF Looks
  <1>4. CASE /\ record # None /\ ~RecordMatches(record, Version, job.seen)
             /\ Fail
    <2>1. ASSUME Rerunning PROVE record.version # Version
      BY <1>1, <1>4, <2>1, RerunFinds
         DEF RecordMatches, Honours, Mode, Version, Rerunning
    <2> QED
      BY <1>1, <1>4, <2>1, GivingUp DEF Looks
  <1> QED
    BY <1>2, <1>3, <1>4 DEF ExistingResult, Advance, Mode, Version

LEMMA ExamineStep ==
  ASSUME IInv, InspectExistingInstallation
  PROVE  IInv'
  <1> DEFINE found == tools[Version]
             Match == /\ found = job.staged /\ record # None
                      /\ RecordMatches(record, Version, found)
  <1>1. /\ Steady /\ UNCHANGED taskrc /\ job.at = "examine" /\ Types
        /\ Mode \in {"source", "bundled"}
        /\ job.staged \in Binaries /\ job.staged.works
        /\ Mode = "source" => record = None
        /\ Mode = "bundled" /\ spent.edits = 0 =>
             job.staged = artefact /\ artefact = job.req.expected
    BY Requested
       DEF InspectExistingInstallation, Phase, At, Steady, inputs, files, IInv,
           PhasesOf, ManagedEnd, Unedited, Checked, NoRecordYet
  <1>2. CASE found = None /\ Go("move")
    <2>1. /\ job' \in JobType /\ job'.req = job.req /\ job'.at = "move"
          /\ job'.staged = job.staged
      BY <1>1, <1>2, Going DEF Types, AllPhases
    <2>2. Checked' /\ Unedited' /\ NoRecordYet'
      BY <1>1, <2>1
         DEF IInv, Checked, Unedited, NoRecordYet, Mode, Version, Steady, inputs
    <2>3. job'.at \in PhasesOf(Mode)
      BY <1>1, <2>1 DEF PhasesOf, ManagedEnd
    <2> QED
      BY <1>1, <1>2, <2>1, <2>2, <2>3, Continuing DEF Looks
  <1>3. CASE Match /\ Succeed
    <2>1. HasTree(record) /\ (spent.edits = 0 => Honours(record, job.req))
      BY <1>1, <1>3 DEF HasTree, Honours, RecordMatches, Mode, Version
    <2> QED
      BY <1>1, <1>3, <2>1, Satisfied DEF Looks
  <1>4. CASE found # None /\ ~Match /\ Fail
    <2>1. ASSUME Rerunning PROVE FALSE
      <3>1. /\ record \in Records /\ record # None /\ HasTree(record)
            /\ Mode = "bundled" /\ record.mode # "external"
            /\ record.version = Version /\ record.sha256 = artefact
            /\ job.staged = artefact
        BY <1>1, <2>1, RerunFinds DEF Honours, Mode, Version, Rerunning
      <3>2. found = artefact
        BY <3>1 DEF HasTree
      <3> QED
        BY <1>1, <1>4, <3>1, <3>2 DEF RecordMatches, Mode
    <2> QED
      BY <1>1, <1>4, <2>1, GivingUp DEF Looks
  <1> QED
    BY <1>2, <1>3, <1>4 DEF InspectExistingInstallation, Mode, Version

-----------------------------------------------------------------------------
(* Steps that move the installation.                                       *)

LEMMA ActivateStep ==
  ASSUME IInv, ActivateStaged
  PROVE  IInv'
  <1>1. /\ UNCHANGED <<archive, artefact, external, spent, past, record, taskrc>>
        /\ job.at = "move" /\ Types /\ Mode \in {"source", "bundled"}
        /\ Version \in Versions /\ job.staged \in Binaries
        /\ tools[Version] = None
        /\ tools' = [tools EXCEPT ![Version] = job.staged]
    BY Requested
       DEF ActivateStaged, Phase, At, inputs, IInv, PhasesOf, Checked, Placed,
           Version
  <1>2. /\ job' \in JobType /\ job'.at = "normalise" /\ job'.req = job.req
        /\ job'.staged = job.staged
    BY <1>1, Going DEF ActivateStaged, Types, AllPhases
  <1>3. /\ tools' \in [Versions -> Binaries \cup {None, Husk}]
        /\ tools'[Version] = job.staged
        /\ \A v \in Versions \ {Version} : tools'[v] = tools[v]
    BY <1>1 DEF Types
  <1>4. Types'
    BY <1>1, <1>2, <1>3, TypesKept DEF Types, PhasesOf, ManagedEnd, inputs
  <1>5. ASSUME NEW r \in Records, HasTree(r)
        PROVE  HasTree(r)' /\ (r.mode # "external" => r.version # Version)
    BY <1>1, <1>3, <1>5, NoneIsDistinct DEF HasTree, Records
  <1>6. Checked' /\ Unedited' /\ NoRecordYet'
    BY <1>1, <1>2
       DEF IInv, Checked, Unedited, NoRecordYet, Mode, Version
  <1>7. record # None /\ ~past.unreported =>
          record \in Records /\ HasTree(record)
    BY <1>1 DEF IInv, RecordVouches, Types
  <1>8. Placed' /\ RecordVouches'
    BY <1>1, <1>2, <1>3, <1>5, <1>7 DEF IInv, Placed, RecordVouches, Version, HasTree
  <1>9. Remembered'
    BY <1>1, <1>2, <1>5 DEF IInv, Remembered, Types, HasTree, Honours, Version
  <1>10. Answered' /\ RerunsSucceed'
    BY <1>2 DEF Answered, RerunsSucceed, At
  <1> QED
    BY <1>4, <1>6, <1>8, <1>9, <1>10 DEF IInv

LEMMA NormaliseStep ==
  ASSUME IInv, NormaliseInstallation
  PROVE  IInv'
  <1>1. /\ UNCHANGED <<archive, artefact, external, spent, past, record,
                       taskrc, tools>>
        /\ job.at = "normalise" /\ Types /\ Mode \in {"source", "bundled"}
    BY Requested
       DEF NormaliseInstallation, Phase, At, inputs, files, IInv, PhasesOf
  <1>2. /\ job' \in JobType /\ job'.at = "write" /\ job'.req = job.req
        /\ job'.staged = job.staged
    BY <1>1, Going DEF NormaliseInstallation, Types, AllPhases
  <1>3. Types'
    BY <1>1, <1>2, TypesKept DEF Types, PhasesOf, ManagedEnd, inputs
  <1>4. Checked' /\ Unedited' /\ NoRecordYet'
    BY <1>1, <1>2 DEF IInv, Checked, Unedited, NoRecordYet, Mode, Version
  <1>5. Placed' /\ RecordVouches'
    BY <1>1, <1>2 DEF IInv, Placed, RecordVouches, Version, HasTree
  <1>6. Remembered' /\ Answered' /\ RerunsSucceed'
    BY <1>1, <1>2
       DEF IInv, Remembered, HasTree, Honours, Version, Answered, RerunsSucceed, At
  <1> QED
    BY <1>3, <1>4, <1>5, <1>6 DEF IInv

(* The record a run writes is one of a tested binary in its place. *)
LEMMA Recording ==
  ASSUME IInv, job.at \in {"write", "register"}
  PROVE  /\ NewRecord \in Records /\ HasTree(NewRecord)
         /\ NewRecord.mode # "external" => NewRecord.sha256.works
         /\ NewRecord.mode = "source" =>
              NewRecord.sha256.reports = NewRecord.version
         /\ spent.edits = 0 => Honours(NewRecord, job.req)
         /\ NewRecord.mode # "external" => NewRecord.version = Version
         /\ NewRecord.mode = Mode
         /\ Mode = "external" <=> job.at = "register"
  <1>1. /\ Mode \in {"source", "bundled", "external"} /\ Version \in Versions
        /\ Mode = "external" <=> job.at = "register"
    BY Requested DEF IInv, PhasesOf, ManagedEnd
  <1>2. CASE Mode = "external"
    <2>1. /\ job.staged \in Binaries /\ job.seen \in Binaries
          /\ spent.edits = 0 => job.seen = external
      BY <1>1, <1>2 DEF IInv, Checked, Unedited
    <2>2. /\ NewRecord = [version |-> job.staged.reports, mode |-> "external",
                          sha256 |-> job.seen]
          /\ NewRecord \in Records
      BY <1>2, <2>1 DEF NewRecord, Mode, Binaries, Records, Modes
    <2> QED
      BY <1>1, <1>2, <2>1, <2>2 DEF HasTree, Honours, Mode
  <1>3. CASE Mode # "external"
    <2>1. /\ job.staged \in Binaries /\ job.staged.works
          /\ tools[Version] = job.staged
          /\ Mode = "source" => job.staged.reports = Version
          /\ Mode = "bundled" /\ spent.edits = 0 =>
               artefact = job.req.expected /\ job.staged = artefact
      BY <1>1, <1>3 DEF IInv, Checked, Unedited, Placed
    <2>2. /\ NewRecord = [version |-> Version, mode |-> Mode,
                          sha256 |-> job.staged]
          /\ NewRecord \in Records
      BY <1>1, <1>3, <2>1 DEF NewRecord, Mode, Version, Records, Modes
    <2> QED
      BY <1>1, <1>3, <2>1, <2>2 DEF HasTree, Honours, Mode, Version
  <1> QED
    BY <1>2, <1>3

LEMMA WriteStep ==
  ASSUME IInv, WriteRecord
  PROVE  IInv'
  <1>1. /\ UNCHANGED <<archive, artefact, external, spent, past, taskrc, tools>>
        /\ job.at \in {"write", "register"} /\ Types /\ record' = NewRecord
        /\ Mode \in {"source", "bundled", "external"}
    BY Requested DEF WriteRecord, Phase, At, inputs, IInv
  <1>2. /\ job' \in JobType /\ job'.at = "end" /\ job'.req = job.req
        /\ job'.outcome = "ok" /\ job'.at \in PhasesOf(Mode)
    BY <1>1, Succeeding, Ends DEF WriteRecord, Types
  <1>3. /\ record' \in Records /\ record' # None /\ HasTree(record)'
        /\ record'.mode # "external" => record'.sha256.works
        /\ record'.mode = "source" => record'.sha256.reports = record'.version
        /\ spent.edits = 0 => Honours(record, job.req)'
    BY <1>1, <1>2, Recording, NoneIsDistinct DEF HasTree, Honours
  <1>4. Types'
    BY <1>1, <1>2, <1>3, TypesKept DEF Types, inputs
  <1>5. Checked' /\ Unedited' /\ NoRecordYet' /\ Placed' /\ RecordVouches'
    BY <1>1, <1>2, <1>3
       DEF IInv, Checked, Unedited, NoRecordYet, Placed, RecordVouches
  <1>6. Remembered' /\ Answered' /\ RerunsSucceed'
    BY <1>1, <1>2, <1>3
       DEF IInv, Remembered, HasTree, Honours, Answered, RerunsSucceed, At
  <1> QED
    BY <1>4, <1>5, <1>6 DEF IInv

(* A run that fails: it ends, or removes what it moved. *)
LEMMA FaultCounted ==
  ASSUME Types, spent' = [spent EXCEPT !.faults = @ + 1]
  PROVE  /\ spent' \in [attempts : Nat, faults : Nat, edits : Nat]
         /\ spent'.edits = spent.edits
  BY DEF Types

(* Removing a version root takes no tree from a record of another one. *)
LEMMA TreesElsewhere ==
  ASSUME Types, NEW x \in {None, Husk}, Version \in Versions,
         tools' \in {tools, [tools EXCEPT ![Version] = x]}
  PROVE  /\ tools' \in [Versions -> Binaries \cup {None, Husk}]
         /\ \A r \in Records :
              HasTree(r) /\ (r.mode # "external" => r.version # Version)
                => HasTree(r)'
  BY DEF Types, HasTree, Records

LEMMA Interrupted ==
  ASSUME IInv, job.at # "idle", UNCHANGED inputs, UNCHANGED <<record, past>>,
         spent' \in [attempts : Nat, faults : Nat, edits : Nat],
         spent'.edits = spent.edits,
         tools' \in [Versions -> Binaries \cup {None, Husk}],
         taskrc' = taskrc,
         job' \in JobType, job'.req = job.req, job'.at = "end",
         job'.outcome = "failed", job'.faulted,
         record # None /\ ~past.unreported /\ HasTree(record) => HasTree(record)',
         past.acked # None /\ HasTree(past.acked) => HasTree(past.acked)'
  PROVE  IInv'
  <1>1. Types'
    BY TypesKept, Requested, Ends DEF IInv, Types
  <1>2. Checked' /\ Unedited' /\ NoRecordYet' /\ Placed'
    BY DEF IInv, Checked, Unedited, NoRecordYet, Placed, inputs
  <1>3. RecordVouches' /\ Answered' /\ RerunsSucceed'
    BY DEF IInv, RecordVouches, HasTree, Answered, RerunsSucceed, At
  <1>4. Remembered'
    BY DEF IInv, Remembered, HasTree, Honours, inputs
  <1> QED
    BY <1>1, <1>2, <1>3, <1>4 DEF IInv

LEMMA PhaseFailsStep ==
  ASSUME IInv, PhaseFails \/ BuildFails
  PROVE  IInv'
  <1>1. /\ job.at # "idle" /\ UNCHANGED inputs
        /\ UNCHANGED <<record, past, tools, taskrc>>
        /\ spent' = [spent EXCEPT !.faults = @ + 1]
        /\ Faulted("end", "failed")
    BY DEF PhaseFails, BuildFails, Fault, At, files
  <1>2. /\ job' \in JobType /\ job'.req = job.req /\ job'.at = "end"
        /\ job'.outcome = "failed" /\ job'.faulted
    BY <1>1, Faulting DEF IInv, Types, AllPhases
  <1>3. HasTree(record) => HasTree(record)'
    BY <1>1 DEF HasTree
  <1>4. HasTree(past.acked) => HasTree(past.acked)'
    BY <1>1 DEF HasTree
  <1> QED
    BY <1>1, <1>2, <1>3, <1>4, FaultCounted, Interrupted DEF IInv, Types

LEMMA RollbackStep ==
  ASSUME IInv, RollbackActivation \/ RollbackFails
  PROVE  IInv'
  <1>1. /\ job.at = "rollback" /\ UNCHANGED inputs
        /\ UNCHANGED <<record, past, taskrc>> /\ Types /\ job.faulted
        /\ Version \in Versions
        /\ spent' = spent \/ spent' = [spent EXCEPT !.faults = @ + 1]
    BY Requested DEF RollbackActivation, RollbackFails, Phase, Fault, At, IInv,
       Checked
  <1>2. PICK x \in {None, Husk} :
           tools' \in {tools, [tools EXCEPT ![Version] = x]}
    BY DEF RollbackActivation, RollbackFails, Version
  <1>3. /\ job' \in JobType /\ job'.req = job.req /\ job'.at = "end"
        /\ job'.outcome = "failed" /\ job'.faulted
    <2>1. CASE RollbackActivation
      BY <1>1, <2>1, Failing DEF RollbackActivation, Types
    <2>2. CASE RollbackFails
      BY <1>1, <2>2, Faulting DEF RollbackFails, Types, AllPhases
    <2> QED
      BY <2>1, <2>2
  <1>4. record # None /\ ~past.unreported /\ HasTree(record) => HasTree(record)'
    BY <1>1, <1>2, TreesElsewhere DEF IInv, Placed, Types, HasTree
  <1>5. past.acked # None /\ HasTree(past.acked) => HasTree(past.acked)'
    BY <1>1, <1>2, TreesElsewhere DEF IInv, Remembered, Types, HasTree
  <1>6. /\ spent' \in [attempts : Nat, faults : Nat, edits : Nat]
        /\ spent'.edits = spent.edits
    BY <1>1, FaultCounted DEF Types
  <1> QED
    BY <1>1, <1>2, <1>3, <1>4, <1>5, <1>6, TreesElsewhere, Interrupted

(* What a run that undoes its move may assume. *)
LEMMA Undoing ==
  ASSUME IInv, job.at \in {"move", "normalise", "write"},
         UNCHANGED <<archive, artefact, external, taskrc, tools>>,
         spent' = [spent EXCEPT !.faults = @ + 1], Faulted("rollback", "failed"),
         record' \in Records \cup {None},
         past' = [past EXCEPT !.unreported = @ \/ record' # record]
  PROVE  IInv'
  <1>1. /\ Types /\ Mode \in {"source", "bundled"} /\ Version \in Versions
    BY Requested DEF IInv, PhasesOf
  <1>2. /\ job' \in JobType /\ job'.req = job.req /\ job'.at = "rollback"
        /\ job'.outcome = "failed" /\ job'.faulted
    BY <1>1, Faulting DEF Types, AllPhases
  <1>3. /\ past' \in [req : Requests \cup {None}, acked : Records \cup {None},
                      unreported : BOOLEAN]
        /\ past'.req = past.req /\ past'.acked = past.acked
        /\ ~past'.unreported => ~past.unreported /\ record' = record
    BY <1>1 DEF Types
  <1>4. /\ spent' \in [attempts : Nat, faults : Nat, edits : Nat]
        /\ spent'.edits = spent.edits
    BY <1>1, FaultCounted
  <1>5. job'.at \in PhasesOf(Mode)
    BY <1>1, <1>2 DEF PhasesOf, ManagedEnd
  <1>6. Types'
    BY <1>1, <1>2, <1>3, <1>4, <1>5, TypesKept DEF Types, inputs
  <1>7. ASSUME NEW r \in Records, HasTree(r), job.at = "move",
               r.mode # "external"
        PROVE  r.version # Version
    BY <1>7, NoneIsDistinct DEF HasTree, Records, IInv, Placed
  <1>8. Checked' /\ Unedited' /\ NoRecordYet'
    BY <1>2, <1>4 DEF IInv, Checked, Unedited, NoRecordYet
  <1>9. RecordVouches'
    BY <1>3 DEF IInv, RecordVouches, HasTree
  <1>10. Placed'
    BY <1>1, <1>2, <1>3, <1>7 DEF IInv, Placed, RecordVouches, Version, Types
  <1>11. Remembered'
    BY <1>1, <1>2, <1>3, <1>4, <1>7
       DEF IInv, Remembered, HasTree, Honours, Version, Types
  <1>12. Answered' /\ RerunsSucceed'
    BY <1>2 DEF Answered, RerunsSucceed, At
  <1> QED
    BY <1>6, <1>8, <1>9, <1>10, <1>11, <1>12 DEF IInv

LEMMA ActivationFailsStep ==
  ASSUME IInv, ActivationFails
  PROVE  IInv'
  <1>1. /\ job.at \in {"move", "normalise"}
        /\ UNCHANGED <<archive, artefact, external, taskrc, tools, record, past>>
        /\ spent' = [spent EXCEPT !.faults = @ + 1]
        /\ Faulted("rollback", "failed")
    BY DEF ActivationFails, Fault, At, inputs, files
  <1>2. past' = [past EXCEPT !.unreported = @ \/ record' # record]
    BY <1>1 DEF IInv, Types
  <1> QED
    BY <1>1, <1>2, Undoing DEF IInv, Types

LEMMA WriteFailsStep ==
  ASSUME IInv, WriteFails
  PROVE  IInv'
  <1>1. /\ job.at \in {"write", "register"}
        /\ UNCHANGED <<archive, artefact, external, taskrc, tools>>
        /\ spent' = [spent EXCEPT !.faults = @ + 1]
        /\ Faulted(AfterFailedWrite, "failed")
        /\ record' \in {record, NewRecord} /\ Types
        /\ past' = [past EXCEPT !.unreported = @ \/ record' # record]
    BY DEF WriteFails, Fault, At, inputs, IInv
  <1>2. record' \in Records \cup {None} /\ (Mode = "external" <=> job.at = "register")
    BY <1>1, Recording DEF Types
  <1>3. CASE job.at = "write"
    BY <1>1, <1>2, <1>3, Undoing DEF AfterFailedWrite, Mode
  <1>4. CASE job.at = "register"
    <2>1. /\ job' \in JobType /\ job'.req = job.req /\ job'.at = "end"
          /\ job'.outcome = "failed" /\ job'.faulted
      BY <1>1, <1>2, <1>4, Faulting DEF AfterFailedWrite, Mode, Types, AllPhases
    <2>2. /\ past' \in [req : Requests \cup {None}, acked : Records \cup {None},
                        unreported : BOOLEAN]
          /\ past'.req = past.req /\ past'.acked = past.acked
          /\ ~past'.unreported => ~past.unreported /\ record' = record
      BY <1>1 DEF Types
    <2>3. /\ spent' \in [attempts : Nat, faults : Nat, edits : Nat]
          /\ spent'.edits = spent.edits
      BY <1>1, FaultCounted
    <2>4. Types'
      BY <1>1, <1>2, <1>4, <2>1, <2>2, <2>3, TypesKept, Requested, Ends
         DEF Types, inputs
    <2>5. Checked' /\ Unedited' /\ NoRecordYet' /\ Placed'
      BY <1>1, <2>1, <2>3 DEF IInv, Checked, Unedited, NoRecordYet, Placed
    <2>6. RecordVouches' /\ Answered' /\ RerunsSucceed'
      BY <1>1, <2>1, <2>2
         DEF IInv, RecordVouches, HasTree, Answered, RerunsSucceed, At
    <2>7. Remembered'
      BY <1>1, <2>1, <2>2, <2>3 DEF IInv, Remembered, HasTree, Honours
    <2> QED
      BY <2>4, <2>5, <2>6, <2>7 DEF IInv
  <1> QED
    BY <1>1, <1>3, <1>4

-----------------------------------------------------------------------------
(* Steps between runs.                                                     *)

LEMMA IdleIsTyped ==
  /\ Idle \in JobType /\ Idle.at = "idle" /\ Idle.req = None
  /\ Idle.outcome = "none" /\ ~Idle.faulted
  BY DEF Idle, JobType, AllPhases

LEMMA EndStep ==
  ASSUME IInv, End
  PROVE  IInv'
  <1>1. /\ UNCHANGED <<archive, artefact, external, spent, tools, record, taskrc>>
        /\ job.at = "end" /\ job' = Idle /\ Types
        /\ past' = IF job.outcome = "ok"
                   THEN [past EXCEPT !.acked = record, !.req = job.req]
                   ELSE past
    BY DEF End, At, inputs, files, IInv
  <1>2. job.req \in Requests /\ job.req # None
    BY <1>1, Requested
  <1>3. /\ past' \in [req : Requests \cup {None}, acked : Records \cup {None},
                      unreported : BOOLEAN]
        /\ past'.unreported = past.unreported
    BY <1>1, <1>2 DEF Types
  <1>4. Types'
    BY <1>1, <1>3, IdleIsTyped DEF Types
  <1>5. Checked' /\ Placed' /\ NoRecordYet' /\ Answered' /\ RerunsSucceed'
        /\ Unedited'
    BY <1>1, IdleIsTyped
       DEF IInv, Checked, Placed, NoRecordYet, Answered, RerunsSucceed, Unedited, At
  <1>6. RecordVouches'
    BY <1>1, <1>3 DEF IInv, RecordVouches, HasTree
  <1>7. CASE job.outcome = "ok"
    <2>1. /\ past'.acked = record /\ past'.req = job.req
      BY <1>1, <1>7 DEF Types
    <2>2. /\ record # None /\ HasTree(record)
          /\ spent.edits = 0 => Honours(record, job.req)
      BY <1>1, <1>7 DEF IInv, Answered
    <2>3. Remembered'
      BY <1>1, <1>2, <2>1, <2>2, IdleIsTyped DEF Remembered, HasTree, Honours
    <2> QED
      BY <1>4, <1>5, <1>6, <2>3 DEF IInv
  <1>8. CASE job.outcome # "ok"
    <2>1. Remembered'
      BY <1>1, <1>8, IdleIsTyped DEF IInv, Remembered, HasTree, Honours
    <2> QED
      BY <1>4, <1>5, <1>6, <2>1 DEF IInv
  <1> QED
    BY <1>7, <1>8

LEMMA CrashStep ==
  ASSUME IInv, Crash
  PROVE  IInv'
  <1>1. /\ UNCHANGED <<archive, artefact, external, record, taskrc, past>>
        /\ job.at # "idle" /\ job' = Idle /\ Types
        /\ spent' = [spent EXCEPT !.faults = @ + 1]
        /\ Version \in Versions
    BY Requested DEF Crash, Fault, At, inputs, files, IInv
  <1>2. /\ tools' \in {tools, [tools EXCEPT ![Version] = Husk]}
        /\ tools' = tools \/ job.at = "rollback"
    BY DEF Crash, At, Version
  <1>3. tools' \in [Versions -> Binaries \cup {None, Husk}]
    BY <1>1, <1>2, TreesElsewhere
  <1>4. /\ spent' \in [attempts : Nat, faults : Nat, edits : Nat]
        /\ spent'.edits = spent.edits
    BY <1>1, FaultCounted
  <1>5. Types'
    BY <1>1, <1>3, <1>4, IdleIsTyped DEF Types
  <1>6. record # None /\ ~past.unreported /\ HasTree(record) => HasTree(record)'
    BY <1>1, <1>2, TreesElsewhere DEF IInv, Placed, Types, HasTree
  <1>7. past.acked # None /\ HasTree(past.acked) => HasTree(past.acked)'
    BY <1>1, <1>2, TreesElsewhere DEF IInv, Remembered, Types, HasTree
  <1>8. Checked' /\ Placed' /\ NoRecordYet' /\ Answered' /\ RerunsSucceed'
        /\ Unedited'
    BY <1>1, <1>4, IdleIsTyped
       DEF IInv, Checked, Placed, NoRecordYet, Answered, RerunsSucceed, Unedited, At
  <1>9. RecordVouches' /\ Remembered'
    BY <1>1, <1>4, <1>6, <1>7, IdleIsTyped DEF IInv, RecordVouches, Remembered, Honours
  <1> QED
    BY <1>5, <1>8, <1>9 DEF IInv

LEMMA BeginStep ==
  ASSUME IInv, NEW req \in Requests, Begin(req)
  PROVE  IInv'
  <1>1. /\ UNCHANGED <<archive, artefact, external, tools, record, taskrc, past>>
        /\ Types /\ job' = [Idle EXCEPT !.at = "validate", !.req = req]
        /\ spent' = [spent EXCEPT !.attempts = @ + 1]
    BY DEF Begin, inputs, files, IInv
  <1>2. /\ job' \in JobType /\ job'.at = "validate" /\ job'.req = req
        /\ job'.outcome = "none"
    BY <1>1, IdleIsTyped DEF JobType, AllPhases
  <1>3. /\ spent' \in [attempts : Nat, faults : Nat, edits : Nat]
        /\ spent'.edits = spent.edits
    BY <1>1 DEF Types
  <1>4. "validate" \in PhasesOf(req.mode)
    BY RequestsAreTyped DEF PhasesOf, RequestType, Modes
  <1>5. Types'
    BY <1>1, <1>2, <1>3, <1>4 DEF Types, Mode
  <1>6. Checked' /\ Placed' /\ NoRecordYet' /\ Answered' /\ RerunsSucceed'
        /\ Unedited'
    BY <1>1, <1>2, <1>3
       DEF IInv, Checked, Placed, NoRecordYet, Answered, RerunsSucceed, Unedited, At
  <1>7. RecordVouches' /\ Remembered'
    BY <1>1, <1>2, <1>3 DEF IInv, RecordVouches, Remembered, HasTree, Honours
  <1> QED
    BY <1>5, <1>6, <1>7 DEF IInv

LEMMA EditStep ==
  ASSUME IInv, Edit
  PROVE  IInv'
  <1>1. /\ UNCHANGED <<tools, record, job, past>> /\ Types
        /\ spent' = [spent EXCEPT !.edits = @ + 1]
        /\ archive' \in {"pinned", "other"} /\ artefact' \in Binaries
        /\ external' \in Binaries /\ taskrc' \in {None, "managed", "edited"}
    BY DEF Edit, inputs, IInv, Types
  <1>2. spent' \in [attempts : Nat, faults : Nat, edits : Nat] /\ spent'.edits # 0
    BY <1>1 DEF Types
  <1>3. Types'
    BY <1>1, <1>2 DEF Types, Mode
  <1>4. Checked' /\ Placed' /\ NoRecordYet'
    BY <1>1 DEF IInv, Checked, Placed, NoRecordYet, Mode, Version
  <1>5. Unedited' /\ Answered' /\ RerunsSucceed'
    BY <1>1, <1>2 DEF IInv, Unedited, Answered, RerunsSucceed, HasTree
  <1>6. RecordVouches' /\ Remembered'
    BY <1>1, <1>2 DEF IInv, RecordVouches, Remembered, HasTree, Version
  <1> QED
    BY <1>3, <1>4, <1>5, <1>6 DEF IInv

-----------------------------------------------------------------------------
LEMMA Inductive == Spec => []IInv
  <1>1. ASSUME Init PROVE IInv
    <2>1. Types
      BY <1>1, IdleIsTyped DEF Init, Types
    <2>2. Checked /\ Placed /\ NoRecordYet /\ Answered /\ RerunsSucceed /\ Unedited
      BY <1>1, IdleIsTyped
         DEF Init, Checked, Placed, NoRecordYet, Answered, RerunsSucceed, Unedited, At
    <2>3. RecordVouches /\ Remembered
      BY <1>1 DEF Init, RecordVouches, Remembered
    <2> QED
      BY <2>1, <2>2, <2>3 DEF IInv
  <1>2. ASSUME IInv, Next PROVE IInv'
    <2>1. CASE \E req \in Requests : Begin(req)
      BY <1>2, <2>1, BeginStep
    <2>2. CASE Prepare
      BY <1>2, <2>2, ValidateStep, InspectStep, PreflightStep, NetworkStep,
         ExtractStep, BuildStep, HashStep, ExistingStep DEF Prepare
    <2>3. CASE Install
      BY <1>2, <2>3, StageStep, SmokeStep, CompareStep, LayoutStep, ExamineStep,
         ActivateStep, NormaliseStep, WriteStep, RollbackStep, EndStep DEF Install
    <2>4. CASE Failures
      BY <1>2, <2>4, PhaseFailsStep, ActivationFailsStep, WriteFailsStep,
         RollbackStep, CrashStep DEF Failures
    <2>5. CASE Edit
      BY <1>2, <2>5, EditStep
    <2> QED
      BY <1>2, <2>1, <2>2, <2>3, <2>4, <2>5 DEF Next
  <1>3. ASSUME IInv, UNCHANGED vars PROVE IInv'
    BY <1>3 DEF vars, IInv, Types, Checked, Placed, RecordVouches, Unedited,
       NoRecordYet, Answered, Remembered, RerunsSucceed, HasTree, Honours, Mode,
       Version, At
  <1> QED
    BY <1>1, <1>2, <1>3, PTL DEF Spec

(* Whatever an installer run does and however it ends, every file of the   *)
(* toolchain and every field of the process holds a value of its type: in  *)
(* particular a version root is absent, gutted, or one whole binary, and   *)
(* the record is absent or complete.                                       *)
THEOREM InstallerIsTyped == Spec => []TypeOK
  <1>1. ASSUME IInv PROVE TypeOK
    BY <1>1 DEF IInv, Types, JobType, TypeOK, At
  <1> QED
    BY <1>1, Inductive, PTL

(* A record whose writing was reported as done always names an             *)
(* installation that is in place and passed the lifecycle test of its      *)
(* mode, and a built one the version that was pinned: no later run, fault, *)
(* crash or undo step removes or replaces what a record stands for.        *)
THEOREM RecordsVouch == Spec => []RecordVouches
  <1>1. ASSUME IInv PROVE RecordVouches
    BY <1>1 DEF IInv
  <1> QED
    BY <1>1, Inductive, PTL

(* A repeated request with nothing changed and nothing failing is answered *)
(* with success, in every mode, except that an external executable that    *)
(* reports another version than the requested one is refused.              *)
THEOREM RerunsAreHonoured == Spec => []RerunsSucceed
  <1>1. ASSUME IInv PROVE RerunsSucceed
    BY <1>1 DEF IInv
  <1> QED
    BY <1>1, Inductive, PTL
=============================================================================
