----------------------------- MODULE TaskProvider -----------------------------
(***************************************************************************)
(* What LEA concludes from running the Taskwarrior executable: the bounded *)
(* subprocess (adapters/taskwarrior/runner.py), the parsing of an export   *)
(* (parser.py) and the read-back after every mutation (provider.py).       *)
(* Pure operators; the task store itself belongs to the module that        *)
(* extends this one.                                                       *)
(***************************************************************************)
EXTENDS Sequences, FiniteSets

(* The statuses LEA knows; Taskwarrior has others, such as "waiting". *)
TaskStatuses == {"pending", "completed", "deleted"}
StoreStatuses == TaskStatuses \cup {"waiting"}

TaskKinds == {"tasks.create", "tasks.modify", "tasks.complete", "tasks.delete"}

(* Records with every field true, or exactly one of them false: a list of  *)
(* checks passes or stops at one.                                          *)
PassOrFailOne(fields) ==
  {[f \in fields |-> TRUE]} \cup {[f \in fields |-> f # g] : g \in fields}

-----------------------------------------------------------------------------
(* Taskwarrior, as the provider uses it. *)

(* The command acts on a task in this status ("none" is no task). *)
Applicable(kind, status) ==
  \/ kind = "tasks.create"   /\ status = "none"
  \/ kind = "tasks.modify"   /\ status # "none"
  \/ kind = "tasks.complete" /\ status \in {"pending", "waiting"}
  \/ kind = "tasks.delete"   /\ status \in StoreStatuses \ {"deleted"}

After(kind, status) ==
  CASE kind = "tasks.create"   -> "pending"
    [] kind = "tasks.modify"   -> status
    [] kind = "tasks.complete" -> "completed"
    [] kind = "tasks.delete"   -> "deleted"

-----------------------------------------------------------------------------
(* Loading the provider, before anything is run for a task. *)

HostChecks == {"taskrc", "data", "home", "executable", "version"}

(* The installed executable and its files are there and of a version known. *)
Inspected(host) == \A check \in HostChecks : host[check]

LoadChecks == {"configured", "profile", "record"} \cup HostChecks

(* "loaded", or why a proposal or a task command does not get a provider. *)
LoadProvider(host) ==
  IF ~host.configured \/ ~host.profile THEN "application_failed"
  ELSE IF ~host.record \/ ~Inspected(host) THEN "temporarily_unavailable"
  ELSE "loaded"

-----------------------------------------------------------------------------
(* Running a command. *)

(* How one subprocess went: started at all, ended in time, printed UTF-8,  *)
(* returned zero.                                                          *)
RunChecks == {"started", "timely", "readable", "zero"}

(* Faulty variant: a process that ran out of time counts as not started. *)
RunReportTimeoutDefinite(run) ==
  IF ~run.started \/ ~run.timely THEN "not_started"
  ELSE IF run.readable /\ run.zero THEN "ok" ELSE "failed"

(* Only a process that was never started is known to have done nothing. *)
RunReport(run) ==
  IF ~run.started THEN "not_started"
  ELSE IF run.timely /\ run.readable /\ run.zero THEN "ok" ELSE "failed"

(* The identifier of a new task is read from what the command printed. *)
CreatedUuid(output) == output = "canonical"

-----------------------------------------------------------------------------
(* Exports.  A task is a record [uuid, status]; a list that does not parse *)
(* is refused as a whole.                                                  *)

ParseTask(t) == t.complete /\ t.status \in TaskStatuses

ParseExport(export) ==
  IF export.json /\ \A i \in DOMAIN export.tasks : ParseTask(export.tasks[i])
    THEN [success |-> TRUE, tasks |-> export.tasks]
    ELSE [success |-> FALSE, tasks |-> <<>>]

(* Exactly one task came back, and it is the one asked for. *)
IsExactly(parsed, uuid) ==
  /\ parsed.success /\ Len(parsed.tasks) = 1
  /\ parsed.tasks[1].uuid = uuid

ReadCreated(report, export, uuid) ==
  report = "ok" /\ IsExactly(ParseExport(export), uuid)

ReadMutated(report, export, uuid) ==
  report = "ok" /\ IsExactly(ParseExport(export), uuid)

ModifyAccepted(report, export, uuid) == ReadMutated(report, export, uuid)

(* Faulty variant: whatever came back is the completed task. *)
CompleteAcceptedUnchecked(report, export, uuid) ==
  ReadMutated(report, export, uuid)

(* A completion or deletion is believed only if the task that was read     *)
(* back has that status.                                                   *)
CompleteAccepted(report, export, uuid) ==
  /\ ReadMutated(report, export, uuid)
  /\ export.tasks[1].status = "completed"

DeleteAccepted(report, export, uuid) ==
  /\ ReadMutated(report, export, uuid)
  /\ export.tasks[1].status = "deleted"

(* What the provider answers after the read-back of a mutation. *)
Accepted(kind, report, export, uuid) ==
  \/ kind = "tasks.create"   /\ ReadCreated(report, export, uuid)
  \/ kind = "tasks.modify"   /\ ModifyAccepted(report, export, uuid)
  \/ kind = "tasks.complete" /\ CompleteAccepted(report, export, uuid)
  \/ kind = "tasks.delete"   /\ DeleteAccepted(report, export, uuid)

(* The statuses a successful answer of this kind speaks of. *)
Promised(kind) ==
  CASE kind = "tasks.complete" -> {"completed"}
    [] kind = "tasks.delete"   -> {"deleted"}
    [] OTHER                   -> TaskStatuses
==============================================================================
