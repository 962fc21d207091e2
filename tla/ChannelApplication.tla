--------------------------- MODULE ChannelApplication ---------------------------
(***************************************************************************)
(* The channel application behind the Telegram worker                      *)
(* (channels/application.py, channels/handlers.py): users ask, a handler   *)
(* reads or submits a proposal, users decide, a user executes, and the     *)
(* execution reaches the task store or a calendar.  The worker handles one *)
(* update at a time; the command line (cli/task_commands.py) and anyone    *)
(* with Taskwarrior change tasks beside it.                                *)
(***************************************************************************)
EXTENDS ChannelPolicy, TaskProvider, ActionLifecycle

CONSTANTS
  Files,     \* contents the administrator may give the authorised-user file
  Tasks,     \* task UUIDs
  Proposals, \* proposal UUIDs
  Casts,     \* what one behaviour is about: commands sent, who else is there
  NoTarget,  \* no target, or a UUID no task has
  NoDoc,     \* no proposal document
  MaxFaults  \* bound: runs that go wrong, failed writes, crashes

ASSUME ApplicationConstantsAssumption ==
  /\ NoTarget \notin Tasks \cup Calendars
  /\ Tasks \cap Calendars = {}
  /\ NoDoc \notin Proposals
  /\ \A c \in Casts : c.files \subseteq Files
  /\ MaxFaults \in Nat

VARIABLES
  cast,      \* fixed: the commands of this behaviour, and whether the command
             \* line and other users of Taskwarrior take part
  file,      \* the authorised-user file
  worker,    \* the worker process: the users it loaded, its calendar provider
  proposals, \* the proposal documents
  tasks,     \* the Taskwarrior store: a status per UUID, "none" without a task
  jobs,      \* the execution the worker, and the task command the command
             \* line, is running
  seen,      \* per actor: statuses its target has had since its command ended
  effects,   \* per proposal: times its action took effect
  lost,      \* per proposal: executions that ended without being recorded
  reply,     \* what the last update was answered
  faults

vars == <<cast, file, worker, proposals, tasks, jobs, seen, effects, lost,
          reply, faults>>

Actors == {"telegram", "cli"}

CalendarKinds == {"calendar.create", "calendar.modify", "calendar.cancel",
                  "calendar.sync", "calendar.discover"}
Kinds == TaskKinds \cup CalendarKinds
Targets == Tasks \cup Calendars \cup {NoTarget}
Users == UNION {{f.users[i] : i \in DOMAIN f.users} : f \in Files}

Outcomes == {"succeeded", "application_failed", "validation_failed",
             "not_found", "not_authorised", "temporarily_unavailable"}
Buttons == {"proposals.approve", "proposals.reject", "proposals.cancel",
            "proposals.execute"}

(* A document, with the users who submitted, approved and last executed it.*)
Doc == [kind : Kinds, target : Targets, status : Statuses,
        code : {"none", "succeeded", "not_started", "failed"},
        by : Users, approver : Users \cup {Nobody}, executor : Users \cup {Nobody}]
ASSUME NoDocAssumption == NoDoc \notin Doc

Job == [pc : {"idle", "run", "read", "record"}, kind : Kinds \cup {"none"},
        target : Targets, prop : Proposals \cup {NoDoc},
        outcome : {"none", "succeeded", "not_started", "failed"}]

Idle == [pc |-> "idle", kind |-> "none", target |-> NoTarget, prop |-> NoDoc,
         outcome |-> "none"]
DownWorker == [up |-> FALSE, users |-> {}, calendar |-> FALSE]
NoReply == [to |-> Nobody, outcome |-> "none", calendars |-> {}, controls |-> {}]

TypeOK ==
  /\ cast \in Casts
  /\ file \in Files
  /\ worker \in [up : BOOLEAN, users : {{}} \cup {LoadUsers(f) : f \in Files},
                 calendar : BOOLEAN]
  /\ proposals \in [Proposals -> Doc \cup {NoDoc}]
  /\ tasks \in [Tasks -> StoreStatuses \cup {"none"}]
  /\ jobs \in [Actors -> Job]
  /\ \A a \in Actors : jobs[a].outcome # "none" <=> jobs[a].pc = "record"
  /\ jobs["telegram"].pc # "idle" => worker.up
  /\ seen \in [Actors -> SUBSET (StoreStatuses \cup {"none"})]
  /\ effects \in [Proposals -> Nat]
  /\ lost \in [Proposals -> 0..MaxFaults]
  /\ reply \in [to : Users \cup {Nobody}, outcome : Outcomes \cup {"none"},
                calendars : SUBSET Calendars, controls : SUBSET Buttons]
  /\ faults \in 0..MaxFaults

Init ==
  /\ cast \in Casts
  /\ file \in cast.files
  /\ worker = DownWorker
  /\ proposals = [p \in Proposals |-> NoDoc]
  /\ tasks \in [Tasks -> {"none", "pending"}]
  /\ jobs = [a \in Actors |-> Idle]
  /\ seen = [a \in Actors |-> {}]
  /\ effects = [p \in Proposals |-> 0]
  /\ lost = [p \in Proposals |-> 0]
  /\ reply = NoReply
  /\ faults = 0

-----------------------------------------------------------------------------
(* Fault-free when ok, otherwise one fault is spent. *)
FaultUnless(ok) ==
  IF ok THEN UNCHANGED faults ELSE faults < MaxFaults /\ faults' = faults + 1

stores == <<cast, file, worker, proposals, tasks, jobs, seen, effects, lost, faults>>

(* channel_response_from_cli_result: one answer, nothing else changed. *)
Respond(u, outcome, calendars, controls) ==
  reply' = [to |-> u, outcome |-> outcome, calendars |-> calendars,
            controls |-> controls]

Say(u, outcome) == Respond(u, outcome, {}, {}) /\ UNCHANGED stores

SayOneOf(u, outcomes) == \E outcome \in outcomes : Say(u, outcome)

Permits(u, calendars) == u.calendars = {} \/ calendars \subseteq u.calendars

-----------------------------------------------------------------------------
(* Reading: system, status, tasks. *)

SystemCommands(u, r) == Say(u, IF r.valid THEN "succeeded" ELSE "validation_failed")

Status(u, r) ==
  IF r.valid THEN SayOneOf(u, {"succeeded", "application_failed"})
             ELSE Say(u, "validation_failed")

(* Listing runs an export: the provider may not load, the run may fail. *)
TasksList(u, r) ==
  IF r.valid
    THEN SayOneOf(u, {"succeeded", "application_failed", "temporarily_unavailable"})
    ELSE Say(u, "validation_failed")

(* One task by its UUID, whatever its status. *)
TasksShow(u, r) ==
  \/ ~r.valid /\ Say(u, "validation_failed")
  \/ r.valid /\ SayOneOf(u, {"application_failed", "temporarily_unavailable"})
  \/ r.valid /\ Say(u, IF r.target = NoTarget THEN "not_found" ELSE "succeeded")

-----------------------------------------------------------------------------
(* Reading calendars.  Every calendar handler asks for its capability, then*)
(* for well-formed parameters, then for the calendars to be permitted; the *)
(* first one missing is the answer.                                        *)

CalendarRefusal(u, r, capability, calendars) ==
  IF capability \notin CapabilitiesOf(u) THEN "not_authorised"
  ELSE IF ~r.valid THEN "validation_failed"
  ELSE IF ~Permits(u, calendars) THEN "not_authorised"
  ELSE "none"

(* Faulty variant: events are listed as asked, an empty selection meaning  *)
(* every calendar.                                                         *)
EventCalendarsAsAsked(u, r) == IF r.calendars = {} THEN Calendars ELSE r.calendars

(* The calendars a listing covers: those asked for, else those of the user,*)
(* else all.                                                               *)
EventCalendars(u, r) ==
  IF r.calendars # {} THEN r.calendars
  ELSE IF u.calendars # {} THEN u.calendars \cap Calendars ELSE Calendars

(* A calendar answer: refused, no provider, the provider's failure, or the *)
(* calendars it tells about.                                               *)
CalendarAnswer(u, refusal, failures, calendars) ==
  \/ refusal # "none" /\ Say(u, refusal)
  \/ refusal = "none" /\ ~worker.calendar /\ Say(u, "temporarily_unavailable")
  \/ refusal = "none" /\ worker.calendar /\ SayOneOf(u, failures)
  \/ /\ refusal = "none" /\ worker.calendar
     /\ Respond(u, "succeeded", calendars, {})
     /\ UNCHANGED stores

CalendarListCalendars(u, r) ==
  CalendarAnswer(u, CalendarRefusal(u, r, "Calendar.Read", {}),
                 {"application_failed"},
                 {c \in Calendars : Permits(u, {c})})

CalendarListEvents(u, r) ==
  CalendarAnswer(u, CalendarRefusal(u, r, "Calendar.Read", r.calendars),
                 {"application_failed", "not_found"}, EventCalendars(u, r))

CalendarShowEvent(u, r) ==
  CalendarAnswer(u, CalendarRefusal(u, r, "Calendar.Read", {r.target}),
                 {"application_failed", "not_found"}, {r.target})

-----------------------------------------------------------------------------
(* Submitting proposals (tasks/proposal_builders.py and                    *)
(* calendars/proposal_builders.py give each kind its risk).                *)

TaskRisk == [k \in TaskKinds |->
  CASE k = "tasks.create" -> "low" [] k = "tasks.delete" -> "high" [] OTHER -> "medium"]

CalendarRisk == [k \in CalendarKinds |-> IF k = "calendar.create" THEN "low" ELSE "medium"]

Risk(kind) == IF kind \in TaskKinds THEN TaskRisk[kind] ELSE CalendarRisk[kind]

(* Faulty variant: the builders' own policy stands. *)
InteractiveProposalAsBuilt(kind) == PolicyTarget(Risk(kind), "when_required")

(* Over a channel every proposal waits for a confirmation. *)
InteractiveProposal(kind) == PolicyTarget(Risk(kind), "always")

ConfirmationControls == {"proposals.approve", "proposals.reject", "proposals.cancel"}

(* The submitter may fail to persist the proposal, or fail after it did.   *)
SubmitInteractiveProposal(u, kind, target) ==
  \/ Say(u, "application_failed")
  \/ \E p \in Proposals, reported \in BOOLEAN :
       /\ proposals[p] = NoDoc
       /\ FaultUnless(reported)
       /\ proposals' = [proposals EXCEPT ![p] =
            [kind |-> kind, target |-> target, status |-> InteractiveProposal(kind),
             code |-> "none", by |-> u, approver |-> Nobody, executor |-> Nobody]]
       /\ IF reported
            THEN Respond(u, "succeeded", {},
                         IF InteractiveProposal(kind) = "awaiting_confirmation"
                           THEN ConfirmationControls ELSE {})
            ELSE Respond(u, "application_failed", {}, {})
       /\ UNCHANGED <<cast, file, worker, tasks, jobs, seen, effects, lost>>

TaskProposal(u, r, target) ==
  IF r.valid THEN SubmitInteractiveProposal(u, r.command, target)
             ELSE Say(u, "validation_failed")

TasksCreate(u, r)   == TaskProposal(u, r, NoTarget)
TasksModify(u, r)   == TaskProposal(u, r, r.target)
TasksComplete(u, r) == TaskProposal(u, r, r.target)
TasksDelete(u, r)   == TaskProposal(u, r, r.target)

CalendarProposal(u, r, refusal, target) ==
  IF refusal = "none" THEN SubmitInteractiveProposal(u, r.command, target)
                      ELSE Say(u, refusal)

CalendarSync(u, r) ==
  CalendarProposal(u, r, CalendarRefusal(u, r, "Calendar.Sync", {}), NoTarget)
CalendarDiscover(u, r) ==
  CalendarProposal(u, r, CalendarRefusal(u, r, "Calendar.Sync", {}), NoTarget)
CalendarCreate(u, r) ==
  CalendarProposal(u, r, CalendarRefusal(u, r, "Calendar.Write", {r.target}), r.target)
CalendarModify(u, r) ==
  CalendarProposal(u, r, CalendarRefusal(u, r, "Calendar.Write", {r.target}), r.target)
CalendarCancel(u, r) ==
  CalendarProposal(u, r, CalendarRefusal(u, r, "Calendar.Write", {r.target}), r.target)

-----------------------------------------------------------------------------
(* Deciding and executing proposals. *)

ProposalsList(u, r) ==
  IF r.valid THEN SayOneOf(u, {"succeeded", "application_failed"})
             ELSE Say(u, "validation_failed")

ProposalsShow(u, r) ==
  IF ~r.valid THEN Say(u, "validation_failed")
  ELSE Say(u, IF proposals[r.proposal] = NoDoc THEN "application_failed" ELSE "succeeded")

ExecutionCapability(risk) ==
  CASE risk = "low"    -> {"Proposals.Execute.LowRisk"}
    [] risk = "medium" -> {"Proposals.Execute.MediumRisk"}
    [] risk = "high"   -> {"Proposals.Execute.HighRisk"}
    [] OTHER           -> {}

ApprovedControls(risk) ==
  {"proposals.cancel"} \cup
  (IF ExecutionCapability(risk) # {} THEN {"proposals.execute"} ELSE {})

(* The decision on a stored proposal; the replacement of the document may  *)
(* fail before or after it took place.                                     *)
ProposalDecision(u, r, decision, decided, controls) ==
  LET d == proposals[r.proposal] IN
  \/ ~r.valid /\ Say(u, "validation_failed")
  \/ r.valid /\ Say(u, "application_failed")
  \/ \E reported \in BOOLEAN :
       /\ r.valid /\ d # NoDoc
       /\ DecisionPermitted(d.status, decision)
       /\ FaultUnless(reported)
       /\ proposals' = [proposals EXCEPT ![r.proposal] = decided]
       /\ IF reported THEN Respond(u, "succeeded", {}, controls)
                      ELSE Respond(u, "application_failed", {}, {})
       /\ UNCHANGED <<cast, file, worker, tasks, jobs, seen, effects, lost>>

(* What each of the three commands makes of the document. *)
ProposalApprove(u, r) ==
  LET d == proposals[r.proposal] IN
  ProposalDecision(u, r, "approved",
    [d EXCEPT !.status = DecisionTarget("approved"), !.approver = u],
    ApprovedControls(Risk(d.kind)))

ProposalReject(u, r) ==
  ProposalDecision(u, r, "rejected",
    [proposals[r.proposal] EXCEPT !.status = DecisionTarget("rejected")], {})

ProposalCancel(u, r) ==
  ProposalDecision(u, r, "cancelled",
    [proposals[r.proposal] EXCEPT !.status = DecisionTarget("cancelled")], {})

(* Faulty variant: whoever may read a proposal may execute it. *)
MayExecuteWhatIsRead(u, d) == ExecutionCapability(Risk(d.kind)) # {}

(* The capability for the risk of the stored proposal. *)
MayExecute(u, d) ==
  /\ ExecutionCapability(Risk(d.kind)) # {}
  /\ ExecutionCapability(Risk(d.kind)) \subseteq CapabilitiesOf(u)

(* Providers are built for each execution: Taskwarrior's by                *)
(* load_task_provider, the calendars' from their installation record.      *)
Providers(kind) ==
  IF kind \in TaskKinds
    THEN {LoadProvider(host) : host \in PassOrFailOne(LoadChecks)}
    ELSE {"loaded", "application_failed"}

StartJob(a, kind, target, p) ==
  jobs' = [jobs EXCEPT ![a] = [pc |-> "run", kind |-> kind, target |-> target,
                               prop |-> p, outcome |-> "none"]]

ProposalExecute(u, r) ==
  LET d == proposals[r.proposal] IN
  IF ~r.valid THEN Say(u, "validation_failed")
  ELSE IF d = NoDoc THEN Say(u, "application_failed")
  ELSE IF ~MayExecute(u, d) THEN Say(u, "not_authorised")
  ELSE IF d.status # "approved" THEN Say(u, "application_failed")
  ELSE \/ SayOneOf(u, Providers(d.kind) \ {"loaded"})
       \/ /\ "loaded" \in Providers(d.kind)
          /\ StartJob("telegram", d.kind, d.target, r.proposal)
          /\ proposals' = [proposals EXCEPT ![r.proposal].executor = u]
          /\ reply' = NoReply
          /\ UNCHANGED <<cast, file, worker, tasks, seen, effects, lost, faults>>

-----------------------------------------------------------------------------
(* Updates.  The users send every well-formed request the cast names, and  *)
(* one of each malformed sort.                                             *)

Request(via, command, target, calendars, p) ==
  [via |-> via, text |-> TRUE, command |-> command, valid |-> TRUE,
   count |-> CommandRoutes[command].least, target |-> target,
   calendars |-> calendars, proposal |-> p]

TargetsOf(command) ==
  CASE command \in {"tasks.show", "tasks.modify", "tasks.complete", "tasks.delete"} ->
         {t \in Tasks : tasks[t] # "none"} \cup {NoTarget}
    [] command \in {"calendar.create", "calendar.modify", "calendar.cancel",
                    "calendar.show_event"} -> Calendars
    [] OTHER -> {NoTarget}

ByProposal == Buttons \cup {"proposals.show"}

ProperRequests ==
  {Request("message", c, t, {}, NoDoc) :
     c \in cast.commands \ ByProposal, t \in Targets}
  \cup {Request("message", c, NoTarget, s, NoDoc) :
     c \in cast.commands \cap {"calendar.list_events"}, s \in SUBSET Calendars}
  \cup {Request(via, c, NoTarget, {}, p) :
     via \in {"message", "callback"}, c \in cast.commands \cap ByProposal,
     p \in Proposals}

OddRequests ==
  LET odd == {Request("message", c, NoTarget, {}, CHOOSE p \in Proposals : TRUE) :
                c \in cast.commands} IN
  UNION {{[r EXCEPT !.text = FALSE], [r EXCEPT !.valid = FALSE],
          [r EXCEPT !.command = "none"],
          [r EXCEPT !.count = CommandRoutes[r.command].most + 1]} : r \in odd}

Requests == {r \in ProperRequests : r.target \in TargetsOf(r.command)} \cup OddRequests

(* DispatchingChannelApplication.handle: the handler of the command, or    *)
(* one failure answer when it raises.                                      *)
Dispatch(u, r) ==
  \/ Say(u, "application_failed")
  \/ r.command \in {"system.start", "system.help"} /\ SystemCommands(u, r)
  \/ r.command = "runtime.status" /\ Status(u, r)
  \/ r.command = "tasks.list" /\ TasksList(u, r)
  \/ r.command = "tasks.show" /\ TasksShow(u, r)
  \/ r.command = "tasks.create" /\ TasksCreate(u, r)
  \/ r.command = "tasks.modify" /\ TasksModify(u, r)
  \/ r.command = "tasks.complete" /\ TasksComplete(u, r)
  \/ r.command = "tasks.delete" /\ TasksDelete(u, r)
  \/ r.command = "calendar.list_calendars" /\ CalendarListCalendars(u, r)
  \/ r.command = "calendar.list_events" /\ CalendarListEvents(u, r)
  \/ r.command = "calendar.show_event" /\ CalendarShowEvent(u, r)
  \/ r.command = "calendar.sync" /\ CalendarSync(u, r)
  \/ r.command = "calendar.discover" /\ CalendarDiscover(u, r)
  \/ r.command = "calendar.create" /\ CalendarCreate(u, r)
  \/ r.command = "calendar.modify" /\ CalendarModify(u, r)
  \/ r.command = "calendar.cancel" /\ CalendarCancel(u, r)
  \/ r.command = "proposals.list" /\ ProposalsList(u, r)
  \/ r.command = "proposals.show" /\ ProposalsShow(u, r)
  \/ r.command = "proposals.approve" /\ ProposalApprove(u, r)
  \/ r.command = "proposals.reject" /\ ProposalReject(u, r)
  \/ r.command = "proposals.cancel" /\ ProposalCancel(u, r)
  \/ r.command = "proposals.execute" /\ ProposalExecute(u, r)

(* The worker takes one update: routed to the application, or refused.     *)
Receive(id, r) ==
  /\ worker.up /\ jobs["telegram"].pc = "idle" /\ reply = NoReply
  /\ IF Routed(id, r, worker.users)
       THEN Dispatch(Authorise(id, worker.users), r)
       ELSE Say(Nobody, "not_authorised")

(* The answer is sent before the next update is taken. *)
Answered ==
  /\ reply # NoReply
  /\ reply' = NoReply
  /\ UNCHANGED stores

-----------------------------------------------------------------------------
(* Executing an action: one Taskwarrior command and its read-back, or one  *)
(* calendar operation.                                                     *)

(* The status of t is now s: so has an actor that waits for its read-back. *)
Witnessed(a, t, s, start) ==
  [b \in Actors |->
     IF b = a /\ start THEN {s}
     ELSE IF jobs[b].pc = "read" /\ jobs[b].target = t THEN seen[b] \cup {s}
     ELSE seen[b]]

StatusOf(t) == IF t \in Tasks THEN tasks[t] ELSE "none"

(* task add, modify, done or delete in a subprocess: it may take effect    *)
(* whatever the runner can tell of it.                                     *)
TaskRun(a) ==
  LET job == jobs[a] IN
  \E t \in IF job.kind = "tasks.create" THEN Tasks ELSE {job.target},
     run \in PassOrFailOne(RunChecks), ran \in BOOLEAN,
     output \in {"canonical", "other"} :
    LET report  == RunReport(run)
        able    == Applicable(job.kind, StatusOf(t))
        printed == job.kind # "tasks.create" \/ CreatedUuid(output)
        goesOn  == report = "ok" /\ printed
        status  == IF ran THEN After(job.kind, StatusOf(t)) ELSE StatusOf(t) IN
    /\ job.pc = "run" /\ job.kind \in TaskKinds
    /\ ran => able /\ run.started
    /\ job.kind = "tasks.create" => able
    /\ FaultUnless(IF able THEN ran /\ goesOn ELSE run.started /\ run.timely)
    /\ tasks' = IF ran THEN [tasks EXCEPT ![t] = status] ELSE tasks
    /\ effects' = IF ran /\ job.prop # NoDoc
                    THEN [effects EXCEPT ![job.prop] = @ + 1] ELSE effects
    /\ seen' = Witnessed(a, t, status, goesOn)
    /\ jobs' = [jobs EXCEPT ![a] =
         IF goesOn THEN [job EXCEPT !.pc = "read", !.target = t]
         ELSE [job EXCEPT !.pc = "record",
                 !.outcome = IF report = "not_started" THEN "not_started" ELSE "failed"]]
    /\ reply' = NoReply
    /\ UNCHANGED <<cast, file, worker, proposals, lost>>

(* The task as an export tells it now; the export may also go wrong, or    *)
(* tell of a task that is not the one asked for.  What the runner says of  *)
(* the export is passed on as the answer to the command.                   *)
ReadBack(a) ==
  LET job == jobs[a]
      status == StatusOf(job.target)
      rightly == [json |-> TRUE, tasks |->
                   IF status = "none" THEN <<>>
                   ELSE <<[uuid |-> job.target, status |-> status, complete |-> TRUE]>>] IN
  \E run \in PassOrFailOne(RunChecks), readable \in BOOLEAN :
    LET report == RunReport(run) IN
    /\ job.pc = "read"
    /\ FaultUnless(report = "ok" /\ readable)
    /\ jobs' = [jobs EXCEPT ![a].pc = "record", ![a].outcome =
         IF Accepted(job.kind, report, [rightly EXCEPT !.json = readable], job.target)
           THEN "succeeded"
         ELSE IF report = "not_started" THEN "not_started" ELSE "failed"]
    /\ reply' = NoReply
    /\ UNCHANGED <<cast, file, worker, proposals, tasks, seen, effects, lost>>

(* A calendar handler runs: CalendarVdir and the synchroniser in short. An *)
(* answer of failure may come after the change was made.                   *)
CalendarRun ==
  LET job == jobs["telegram"] IN
  \E ran, success \in BOOLEAN :
    /\ job.pc = "run" /\ job.kind \in CalendarKinds
    /\ success => ran
    /\ FaultUnless(ran => success)
    /\ effects' = IF ran THEN [effects EXCEPT ![job.prop] = @ + 1] ELSE effects
    /\ jobs' = [jobs EXCEPT !["telegram"].pc = "record", !["telegram"].outcome =
                IF success THEN "succeeded" ELSE "failed"]
    /\ reply' = NoReply
    /\ UNCHANGED <<cast, file, worker, proposals, tasks, seen, lost>>

(* The execution is recorded in the audit log and the document, and the    *)
(* update answered.  Without the record the document stays approved.       *)
Record ==
  LET job == jobs["telegram"]
      d == proposals[job.prop] IN
  \E recorded, reported \in BOOLEAN :
    /\ job.pc = "record"
    /\ reported => recorded
    /\ FaultUnless(reported)
    /\ proposals' = IF recorded
         THEN [proposals EXCEPT ![job.prop].code = job.outcome,
                 ![job.prop].status = IF job.outcome = "succeeded" THEN "succeeded"
                                                                   ELSE "failed"]
         ELSE proposals
    /\ lost' = IF recorded THEN lost ELSE [lost EXCEPT ![job.prop] = @ + 1]
    /\ Respond(d.executor, IF reported /\ job.outcome = "succeeded" THEN "succeeded"
                           ELSE "application_failed", {}, {})
    /\ jobs' = [jobs EXCEPT !["telegram"] = Idle]
    /\ seen' = [seen EXCEPT !["telegram"] = {}]
    /\ UNCHANGED <<cast, file, worker, tasks, effects>>

-----------------------------------------------------------------------------
(* Beside the worker. *)

(* A task command of the command line goes straight to the provider.       *)
CliTask(kind, t) ==
  /\ kind \in cast.cli /\ jobs["cli"].pc = "idle"
  /\ IF kind = "tasks.create" THEN t = NoTarget ELSE StatusOf(t) # "none"
  /\ StartJob("cli", kind, t, NoDoc)
  /\ reply' = NoReply
  /\ UNCHANGED <<cast, file, worker, proposals, tasks, seen, effects, lost, faults>>

CliAnswer ==
  /\ jobs["cli"].pc = "record"
  /\ jobs' = [jobs EXCEPT !["cli"] = Idle]
  /\ seen' = [seen EXCEPT !["cli"] = {}]
  /\ reply' = NoReply
  /\ UNCHANGED <<cast, file, worker, proposals, tasks, effects, lost, faults>>

(* Somebody uses Taskwarrior itself, where a task may also wait. *)
TaskwarriorEdit(t, status) ==
  /\ cast.others
  /\ tasks[t] # "none" /\ tasks[t] # status
  /\ tasks' = [tasks EXCEPT ![t] = status]
  /\ seen' = Witnessed("telegram", t, status, FALSE)
  /\ reply' = NoReply
  /\ UNCHANGED <<cast, file, worker, proposals, jobs, effects, lost, faults>>

(* The administrator edits the user file; a running worker does not notice.*)
EditFile(f) ==
  /\ f \in cast.files /\ f # file
  /\ file' = f
  /\ reply' = NoReply
  /\ UNCHANGED <<cast, worker, proposals, tasks, jobs, seen, effects, lost, faults>>

(* The worker loads the enabled users, and starts if there are any; the    *)
(* calendar provider may not be there.                                     *)
Start(calendar) ==
  /\ ~worker.up /\ LoadUsers(file) # {}
  /\ worker' = [up |-> TRUE, users |-> LoadUsers(file), calendar |-> calendar]
  /\ reply' = NoReply
  /\ UNCHANGED <<cast, file, proposals, tasks, jobs, seen, effects, lost, faults>>

(* Faulty variant: the execution goes on after the worker's end. *)
StopLeavesJob ==
  /\ worker.up
  /\ FaultUnless(jobs["telegram"].pc = "idle")
  /\ worker' = DownWorker
  /\ reply' = NoReply
  /\ UNCHANGED <<cast, file, proposals, tasks, jobs, seen, effects, lost>>

(* The worker stops between updates, or is killed in the middle of one.    *)
Stop ==
  LET job == jobs["telegram"] IN
  /\ worker.up
  /\ FaultUnless(job.pc = "idle")
  /\ worker' = DownWorker
  /\ lost' = IF job.prop = NoDoc THEN lost ELSE [lost EXCEPT ![job.prop] = @ + 1]
  /\ jobs' = [jobs EXCEPT !["telegram"] = Idle]
  /\ seen' = [seen EXCEPT !["telegram"] = {}]
  /\ reply' = NoReply
  /\ UNCHANGED <<cast, file, proposals, tasks, effects>>

Next ==
  \/ \E id \in Identities, r \in Requests : Receive(id, r)
  \/ Answered
  \/ \E a \in Actors : TaskRun(a) \/ ReadBack(a)
  \/ CalendarRun
  \/ Record
  \/ \E kind \in TaskKinds, t \in Tasks \cup {NoTarget} : CliTask(kind, t)
  \/ CliAnswer
  \/ \E t \in Tasks, status \in StoreStatuses : TaskwarriorEdit(t, status)
  \/ \E f \in Files : EditFile(f)
  \/ \E calendar \in BOOLEAN : Start(calendar)
  \/ Stop

Spec == Init /\ [][Next]_vars

-----------------------------------------------------------------------------
(* Properties. *)

(* No action takes effect without three grants, whoever holds the users'   *)
(* file since: the submitter had the capability of the command and the     *)
(* calendar was permitted to it, the approver had Proposals.Confirm, and   *)
(* who executed it the capability of its risk (channels/handlers.py).      *)
EffectsAreGranted ==
  \A p \in Proposals : effects[p] > 0 =>
    LET d == proposals[p] IN
    /\ CommandRoutes[d.kind].needs \in CapabilitiesOf(d.by)
    /\ d.target \in Calendars => Permits(d.by, {d.target})
    /\ "Proposals.Confirm" \in CapabilitiesOf(d.approver)
    /\ ExecutionCapability(Risk(d.kind)) \cap CapabilitiesOf(d.executor) # {}

(* The command itself, and not its read-back, was reported as not started. *)
NeverStarted(job) == job.outcome = "not_started" /\ seen["telegram"] = {}

(* An action takes effect once for its document, and once more at most for *)
(* each execution that was lost before it was recorded.  A command that    *)
(* was reported as not started, before any read-back, had no effect: only  *)
(* a process that never began is reported so                               *)
(* (adapters/taskwarrior/runner.py).                                       *)
EffectsAreAccounted ==
  \A p \in Proposals :
    effects[p] <= lost[p] +
      (IF \/ proposals[p] # NoDoc /\ proposals[p].code # "none"
          \/ jobs["telegram"].prop = p /\ ~NeverStarted(jobs["telegram"])
         THEN 1 ELSE 0)

(* A task command that LEA reports as successful really had its result:    *)
(* between the command's end and the read-back the task was in a status    *)
(* the answer promises, whoever else was changing it                       *)
(* (adapters/taskwarrior/provider.py).                                     *)
SuccessIsReal ==
  \A a \in Actors :
    jobs[a].outcome = "succeeded" /\ jobs[a].kind \in TaskKinds
      => seen[a] \cap Promised(jobs[a].kind) # {}

(* An answer tells of calendars the reader's entry permits, whichever of   *)
(* the commands asked and however the selection was given or left out      *)
(* (channels/handlers.py).                                                 *)
ReadsStayWithinPolicy ==
  reply.calendars # {} =>
    /\ "Calendar.Read" \in CapabilitiesOf(reply.to)
    /\ Permits(reply.to, reply.calendars)
=============================================================================
