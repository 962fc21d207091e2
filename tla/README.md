# LEA in TLA+

This directory is a verification project for LEA, the local assistant under
`src/src/lea`: TLA+ models of its durable stores and long-running processes,
TLC configurations that check them on small instances, and TLAPS proofs for
every value of the constants. All paths below are relative to `src/src/lea`
unless they start with `docs/` or `deploy/`.

1. [The system](#1-the-system): inventory, interactions, hard behaviours
2. [The modules](#2-the-modules): what models what
3. [The runs](#3-the-runs): what is checked, with which bounds
4. [Fairness](#4-fairness)
5. [The proofs](#5-the-proofs)
6. [Disagreements between code and documents](#6-disagreements-between-code-and-documents)
7. [What is only model-checked, and what is not modelled](#7-what-is-only-model-checked-and-what-is-not-modelled)
8. [Plan](#8-plan)
9. [Running it](#9-running-it)

## 1. The system

LEA turns requests ("create this task", "cancel that event") into *action
proposals*, asks a human to confirm those that are risky, executes the approved
ones through external programs, and leaves an audit trail. It is one Python
program started as several processes: command-line invocations, and one
foreground Telegram worker under systemd. There is no database and no lock
anywhere: everything durable is a file, changed by `os.link`, `os.replace` or an
append, and every process reads before it writes. That makes the order of the
steps inside an operation, what a failed or unreported step leaves behind, and
what another process does in between, the substance of the program.

### Inventory

| Component | State it keeps | Operations | What makes it correct |
|---|---|---|---|
| action lifecycle (`actions/`) | none: a table of status changes, a confirmation matrix | `transition_proposal`, `apply_confirmation_policy`, `record_confirmation`, `execute_action` | no path to a handler without the approval risk and policy demand; final statuses stay final |
| orchestration (`orchestration/`) | none | `submit`, `confirm`, `execute` | every change is in the audit log before it is anywhere else |
| proposal repository (`proposals/`) | one Markdown document per proposal | `create` (hard link, never overwrites), `replace` (compare the status, `os.replace`, read back), `read`, `list` | a document only moves along the transition table |
| proposal commands (`cli/proposal_commands.py`) | none | approve, reject, cancel, execute | audit log and document agree unless an operation was cut short |
| audit log (`audit/`) | one JSONL file of hash-chained envelopes, or of plain events (first release) | `append` (inspect the whole file, then write one line), `verify`, `read_all` | the log is only ever extended, damage is noticed and never repaired silently, a reader gets every event or an error |
| Telegram worker (`adapters/telegram/worker.py`, `offsets.py`) | checkpoint file with the next update to fetch; memory of one run | load, fetch, apply, checkpoint, answer, stop | no update lost, repeats only for runs that were cut short, progress |
| Telegram client and text (`adapters/telegram/`, rest) | none | `getUpdates`, `sendMessage`, parsing, routing, formatting | delivers what the worker assumes |
| channels (`channels/`) | the users and the calendar provider a worker loaded at its start | route and authorise a command or a button, read, propose, confirm, execute | no effect without the grants of submitter, approver and executor; no answer beyond the reader's calendars |
| knowledge repository (`knowledge/repository.py`) | one Markdown file per document, its name derived from type, title and identifier | `create`, `read`, `replace` (in place, or as a move between names), `list`, `inspect` | a document never vanishes; what is reported is what is on disk |
| knowledge service and index (`knowledge/service.py`, `index.py`) | derived index file | mutate then audit; rebuild | the index is rebuilt from a sound repository only |
| task provider (`adapters/taskwarrior`, `tasks`) | Taskwarrior's database (external) | create, modify, complete, delete by subprocess and read-back | a success was seen in the store; only a process that never began counts as without effect |
| calendar provider (`adapters/khal`, `calendars`) | one `.ics` file per event in a vdir | list, show, create (`os.link`), modify and cancel (`os.replace`, read back, restore) | an operation changes its event wholly or not at all |
| calendar synchronisation (`adapters/vdirsyncer`) | the same vdir, a remote collection (external) | run vdirsyncer | second writer of the vdir |
| release-candidate installer (`installers/release_candidate`) | directories, configuration files, records, a systemd unit | a sequence of about a dozen boundaries, three of them transactions with a rollback | success means a ready host, a failure keeps a running service, and a rerun after any cut gets there |
| release-candidate uninstaller | the same, removed | plan, execute | nothing is left when it says so; what it leaves keeps its owner and can be purged or installed again |
| calendar, Taskwarrior and Radicale installers (`installers/calendar`, `taskwarrior`, `radicale`) | installed trees and installation records | stage, activate by rename, validate, record, roll back, remove | a record describes an installation that is there |
| runtime configuration and health (`runtime/`, `cli/status.py`) | none: reads configuration | load, check, report | a report describes the files |
| entry points (`main.py`, `cli/` rest) | none | parse, dispatch, render | - |

### How they interact

```
 cli/proposal_commands ----+                            +---> tasks, calendars (external programs)
 channels/handlers --------+--> orchestration/service --+      their effect is never undone
        ^                  |         |
        |                  |         +---> audit/integrity_store   append (first)
 adapters/telegram/worker  +-------------> proposals/repository    create / replace (second)
        |
        +---> offsets.py checkpoint       getUpdates / sendMessage <--> Telegram
```

An operation on a proposal appends one audit event and *then* publishes the new
document. Executing runs the handler before either. The Telegram worker applies
an update (which may be any of these operations), *then* stores its checkpoint,
*then* answers. None of these pairs is atomic.

The installers work on another level: `release_candidate_cli.py` calls the
Taskwarrior and calendar toolchain installers as two of its boundaries, writes
the files the runtime and the worker load, and hands the worker to systemd. The
executables the providers run, and the records that describe them, come from
there.

### Hard behaviours

- **Two processes, no lock.** The command line and the worker, or two command
  lines, may decide or execute the same proposal, append to the same log, and
  create, replace and move the same knowledge document. The documents disclaim
  concurrent writers (`docs/05_*`, `docs/06_*`, `docs/09_PROPOSAL_REPOSITORY.md`,
  SPEC-0007, SPEC-0010, KD-054 of SPEC-0014), so the project asks two questions:
  what holds under the documented one-writer discipline, and what survives even
  without it.
- **Failures that come after the effect.** A directory `fsync` that fails after
  `os.replace` makes `replace`, `create` or `advance` report a failure for
  something that is on disk. A handler may have had its effect when its audit
  event cannot be appended.
- **Torn and forked logs.** The log is verified, closed and opened again in
  append mode; a writer in between forks the chain, a crash inside the write
  leaves a partial line that swallows the next one.
- **Crashes and restarts.** Nothing is resumed. What a crashed operation left is
  what the next one starts from; temporary files stay.
- **Redelivery.** Telegram delivers an update again until a later offset confirms
  it.
- **Subprocesses.** A task is changed by a program that may run out of time after
  its effect, and believed only after a second run has read it back, while others
  use the same store.
- **Long sequences of runs.** An installer meets what earlier installations,
  upgrades, failures, interrupts and purges left; its steps are repeatable one by
  one, its rollbacks can fail, and an interrupt passes them by.

`PROJECT.json` lists these hazards at the lines where they bite, with the
properties that watch them. A hazard without a property says why in its note.

## 2. The modules

| Module | Models | Uses |
|---|---|---|
| `ActionLifecycle` | the status graph, confirmation matrix and decisions, as operators | |
| `ProposalWorkflow` | submission, decisions and execution across documents and log | extends `ActionLifecycle`, refines `AuditLog` |
| `AuditLog` | what the log promises its users: an abstract specification | |
| `AuditChain` | the audit file with hashes, torn lines, edits and the plain store | refines `AuditLog` |
| `TelegramWorker` | polling loop, checkpoint, server and supervisor | |
| `KnowledgeRepository` | the files of one knowledge document and the processes using them | |
| `CalendarVdir` | the event files of one calendar, the processes using them, and vdirsyncer | |
| `ChannelPolicy` | the authorised-user file, roles, capabilities and routes, as operators | |
| `TaskProvider` | what LEA concludes from a Taskwarrior run and an export, as operators | |
| `ChannelApplication` | every command and button of the channel, executions, the worker that serves them, the command line and Taskwarrior beside it | extends `ChannelPolicy`, `TaskProvider`, `ActionLifecycle` |
| `CalendarToolchain` | the calendar toolchain installer: environments, roots, records, upgrades, configuration | |
| `TaskwarriorToolchain` | the Taskwarrior installer | |
| `ReleaseCandidate` | the guided installer, the uninstaller, the systemd service and its worker | |
| `MC*` | small instances of these for TLC | |
| `*Proofs` | theorems and their proofs | TLAPS |

`AuditLog` ties the first two together. Its `log` is the events recorded in whole
lines before any damage, `health` what kind of damage there is, and `answer` what
a reader is given: all those events as long as every line parses, and once a line
is torn an error and none of them. `ProposalWorkflow` keeps the events and a
three-valued health, and is checked and proved to use them as `AuditLog` allows;
`AuditChain` is checked and proved to be an implementation of the same
`AuditLog`, with the whole lines (`EventsRecorded`), the outcome of verification
(`Health`) and what `read_all` does with the file (`ReadAll`) as its refinement
mapping. So the log the workflow is reasoned about is the log the file gives. The names of `AuditChain`
differ from those of the other modules (`ChainSpec`, `chainVars`, `writeFaults`),
so that `ProposalWorkflowProofs` can speak of both sides of the link.

Definitions named `...Unchecked`, `...NoReplace` and the like, marked *Faulty
variant* or *Mutant*, are not part of any specification. Each changes one definition the way
a plausible slip in the code would; substituting it makes TLC find the property
listed with it in `PROJECT.json` violated, which shows the property depends on
that code.

### ProposalWorkflow

An actor is a process running a command. `ops[a]` is its operation: where it is,
what status it read (`seen`), what it will publish (`next`) and the events it has
still to append (`pending`). One action per step of the code that another process
or a crash can come between:

| Action | Code |
|---|---|
| `BeginSubmit` | a proposal with a fresh UUID is built and validated; the confirmation policy is computed |
| `BeginDecision` | approve, reject, cancel: the document is read, `record_confirmation` checks the status read |
| `BeginExecution`, `InvokeHandler`, `HandlerReturns` | `execute_action`: only an approved document reaches the handler, whose effect happens outside both stores |
| `InspectLog`, `RefuseDamagedLog` | `IntegrityJsonlAuditStore.append`, first half: read and verify the file |
| `WriteEnvelope`, `AppendFails`, `AppendTears`, `AppendUnreported` | second half: the line is written to whatever the file is by now, wholly, partly or not at all |
| `CreateDocument` | `create` by hard link |
| `CheckDocument`, `RefuseConflict`, `ReplaceDocument`, `ReadBack` | `replace`: status compared, then `os.replace` of whatever is there, then compared with what was meant |
| `PublishFails`, `PublishUnreported` | the same failing before or after the document changed |
| `Crash` | the process ends between two steps |

`cut[p]` counts the operations on `p` that did not reach their end: it is what
the at-most-once claims are relative to. Left out: actors, reasons, timestamps
(a clock running backwards can only refuse), titles and the document codec.

### AuditChain

The file is a sequence of lines: envelopes, plain events and text that does not
parse. SHA-256 is modelled as injective: the hash of an event linked to a
previous hash *is* the sequence of events it stands for. `Inspect` and `Write`
are the halves of `append`; `Written` is opening in append mode, where text after
a missing newline continues the last line. `ChangeEvent` ... `CopyLine` are edits
by hand, by somebody who can copy hashes but not compute them, and `PlainAppend`
is the first release's store on the same file, which does not look. `cast` says
who writes in a behaviour, whether they take turns, and how many faults and edits
there are. `ReadAll` is `read_all`: it parses and verifies nothing but the form of
the lines, and one line that is unterminated, does not parse, or is of the other
format makes it raise, whatever is readable before it.

### TelegramWorker

Updates are numbered from 1. `confirmed` is what the server has dropped,
`disk` the checkpoint file, `worker` the process: its state in memory, its batch
and its consecutive fetch failures. `Fetch`, `FetchFails`, `SkipStale`, `Prepare`
(parse, authorise, route, apply), `PrepareFails`, `Advance`, `AdvanceFails`,
`AdvanceUnreported` (stored, but reported as failed) and `Deliver` are the loop of
`run_telegram_worker` in its order; `Stop` is a signal at one of the two places
the flag is looked at, `Crash` the end of the process, `Restart` the supervisor
(`Restart=on-failure`), `StartAgain` an operator. The server may redeliver.
Applying an update is one step: its inside is `ProposalWorkflow`.

### KnowledgeRepository

One document identifier and the few file names (`Places`) its type and title can
give it, in directories scanned in a fixed order. A process scans one directory
per step, because a concurrent move is seen or missed accordingly, and then reads,
or goes through write, publish, unlink, rollback and clean, each with its
failures. A create links; a replace under the same name calls `os.replace`; a
replace under another name links the new file, then unlinks the old, and unlinks
the new one again if that fails. `cast` says how the processes are used in a
behaviour (who creates, who replaces, one at a time or not, how many versions), so
that each property can name the use it is promised for. Timestamps and the caller's
authorship are abstract; `list`, `inspect` and the codec are left out.

### CalendarVdir

`items` is the directory of one collection: a function from file names to events
or `Foreign`, a file that `read_khal_calendar_item` refuses. Every process that
wants an event lists the directory (`BeginSearch`) and reads the listed files one
per step in the order of their names (`Look`, `LookRefused`, `LookDuplicate`);
one bad or vanished file refuses the operation. A change keeps the bytes of its
file and stages a replacement made from what was *read*, which may be older
(`Stage`), renames it over whatever is there (`Publish`), reads back, and on a
mismatch writes the kept bytes back (`ReadBackFails`, `Restore`) or fails to,
silently (`RestoreFails`); a creation links a new file and unlinks it in the
same case. vdirsyncer is the environment: it adds, changes and removes one file
at a time, may bring a removed event back under another name, and may leave
foreign files. `cast` says which processes there are, whether vdirsyncer runs,
whether everybody takes turns, and how many faults and synchronised changes a
behaviour has at most (`most`). An event is its identifier, whose text it
carries and whether it is cancelled. Staged files have hidden names and are left
out, and so are listings that see half of a rename.

### ChannelPolicy, TaskProvider and ChannelApplication

The two operator modules hold the decisions that need no state. `Parses` and
`LoadUsers` are the loading of the user file, where one bad or duplicate entry
refuses all of it; `Authorise` and `CapabilitiesOf` what an identity may do;
`CommandRoutes` and `CallbackRoutes` which capability each command and button
asks for before the application sees it. `RunReport`, `ParseExport` and
`Accepted` are what the runner, the parser and the provider make of a
subprocess: only one that never started is `not_started`, an export with one task
of an unknown status is refused whole, and a completion or deletion counts only
if the task that was read back has that status.

`ChannelApplication` puts them together. `Receive` is one update: it is routed and
authorised against the users the *worker* loaded, and `Dispatch` gives it to the
operator of its command, which bears the handler's name. Reading commands answer
(`CalendarListEvents`, `TasksShow`, ...); the others submit a proposal
(`SubmitInteractiveProposal`), which over a channel always waits for a
confirmation; `ProposalApprove`, `ProposalReject`, `ProposalCancel` and
`ProposalExecute` are the buttons. An execution is a job of its own steps:
`TaskRun` (the command, which may take effect whatever the runner can tell),
`ReadBack` (which passes on what the runner says of the *export*, so that a
read-back that could not be started is answered in the words of a command that
was not), `CalendarRun`, `Record`. Beside it run `CliTask`, a task command of
the command line straight to the provider, `TaskwarriorEdit`, somebody using
Taskwarrior itself, `EditFile`, the administrator, and `Start` and `Stop` of the
worker, which forgets a running execution and reads the user file again.

A document keeps who submitted, approved and executed it, so that
`EffectsAreGranted` can look at the capabilities each of them had at that time;
`seen` keeps which statuses the target had since an actor's command ended, so that
`SuccessIsReal` can say what a success answer was based on, and
`EffectsAreAccounted` can tell a command that never started from a read-back that
never did (`NeverStarted`): the document cannot, see section 6. The audit log behind a
decision is `ProposalWorkflow`'s subject and left out here, and so are the words
of answers and everything of a task but its UUID and its status.

### CalendarToolchain

`roots` are the version roots with what their checks can tell of the tree in them,
`record` the installation record, `backup` the record an upgrade set aside,
`config` the files of khal and vdirsyncer, `job` the running installer. Each mode
(`verified` from the network, `bundled` wheels, `external` executables) has its
route of phases; one action per phase, `PhaseFails` for a failing one,
`RollbackActivation` and `RestoreUpgradeRecord` for the undo steps with their own
failures, `Crash` anywhere. A request carries the mode, the version, the lock file
and whether it installs afresh, repairs or upgrades, with or without approval.
`LinkBaseline` and `ActivateCaldav` are the administrator's switch of the
synchroniser to CalDAV. Digests are the values they are digests of.

### TaskwarriorToolchain

The same scheme with different choices, which is why it is a module of its own:
only the source installer looks for an existing installation first, the record is
*replaced* by a rename whatever it said before, and its writer does not take it
back when a later step of the write fails. A binary is the version it reports and
whether the isolated task lifecycle works in it; it stands for its own SHA-256.

### ReleaseCandidate

`host` is the account, the tmpfiles rule, the managed directories, the toolchains
and their records; `files` the runtime configuration, the user file and the token;
`marker` the installation record; `service` the unit, whether it is enabled, and
the worker with the files it *loaded*. `run` is the installer or the uninstaller,
at a step of its route: `InstallPlan`, its Telegram part `TelegramPlan`, or
`UninstallPlan`, records that give each step its successor. One action per boundary; the base
configuration, the Telegram files and the service are transactions, with the
snapshot they restore (`UndoBase`, `UndoTelegram`, `UndoService`) and the ways the
restoring fails. A failing step of systemd may have had its effect. `Interrupt`
ends a run anywhere without any rollback, since the programs catch errors only;
`InterruptDrop` and `TearRule` end it inside a step that is not atomic.
`RestartWorker` is systemd: a worker that dies finds a configuration it can start
with, or is restarted again and again. The toolchain installers are one step each
here, with the outcomes the modules above allow: one installs, repairs or finds
its tool (`InstallTool`), refuses what it finds of it (`RefuseTool`), fails at a
step of its own (`ToolFails`) or is cut short (`CutShort`). What they leave is
told apart as trees, broken trees, records and configurations (`host.confs`), and
not by version, so a refusal is possible whenever *anything* of the tool is there
(`Found`): the backup of a failed upgrade, which the next upgrade refuses, a
configuration of another time zone, a record of other evidence. Of the five files
of the Telegram boundary the model has the three whose content differs by
identity or stops a start; `telegram.toml` and `worker.env` are written and
restored with them and are left out.

## 3. The runs

Every passing run is exhaustive within its bounds. All bounds are constants of
the modules named `Max...`, or the `most` of a cast.

| Run | Instance | Question and answer |
|---|---|---|
| `workflow_concurrent` | 2 processes, 1 proposal that policy approves or that needs a human, 5 operations, 2 faults, no discipline | Types; every published status and every handler run is backed by the log (`AuditBeforeDocument`, `RunsAreGranted`); the log alone shows the grant of each execution (`TrailShowsGrant`); the log behaves as `AuditLog` (`ImplementsLog`); operations end (`OperationsEnd`). |
| `workflow_exclusive` | 2 processes taking turns, 2 proposals, 6 operations, 2 faults | Handlers rerun only after a cut operation (`RerunsAreAccounted`), quiet documents say what their last event says (`DocumentMatchesTrail`). |
| `chain` | 5 lines; casts: 2 writers taking turns and the plain store with 1 torn or failed write and 2 edits; 2 writers taking turns alone, and 3 racing writers, with 2 faults | What verification vouches for was written in that order (`VouchesForHistory`); the file behaves as `AuditLog`, its readers included (`ChainImplementsLog`). |
| `worker` | 3 updates in batches of up to 3, 3 faults, 1 stop | No update lost (`CheckpointedIsApplied`), repeats accounted for (`RepeatsAreAccounted`), and progress (`UpdatesArePassed`). |
| `worker_duplicates` | 2 updates, 1 fault | Violation, see section 6. |
| `knowledge` | 2 processes, 3 file names in 2 directories, 2 faults; casts: everybody taking turns and readers beside one writer (3 versions), everybody at once (2 versions) | The document never vanishes (`DocumentNeverVanishes`, all casts). Taking turns: outcomes are what is on disk (`ReplaceIsAllOrNothing`). Beside one writer: readers read nothing older than acknowledged (`ReadsAreFresh`). |
| `calendar` | 2 events, 3 file names; casts: 2 processes and vdirsyncer taking turns (2 faults or synchronised changes), 2 processes at once without either, 1 process beside vdirsyncer (3 of them) | A created event stays (`CreatedStays`, all casts). Taking turns: cancellations last (`CancelSticks`), and what is reported is on disk (`OutcomeMatchesDisk`). |
| `channel` | 3 users (an owner, a tester kept to one of 2 calendars, a reader), 4 user files of which 2 are refused, 2 tasks, 1 proposal, 1 fault; six casts | No effect without three grants (`EffectsAreGranted`), one effect per proposal and lost execution (`EffectsAreAccounted`), a success was seen (`SuccessIsReal`), answers stay within the reader's calendars (`ReadsStayWithinPolicy`). |
| `calendar_toolchain` | 10 requests, 2 versions, 2 lock files, 3 runs, 2 faults, 1 changed input | A record stands for tools that passed every check where they are now (`RecordVouches`), a failed run leaves the roots as they were, and the record too but for the evidence an approved repair had replaced in it (`FailureKeepsInstallation`), what was reported installed stays (`AcknowledgedSurvives`). |
| `taskwarrior_toolchain` | 5 requests in 3 modes at 2 versions, 3 runs, 2 faults, 1 change | A record stands for a tested binary in its place, unless its writing failed halfway (`RecordVouches`); a request repeated after its success succeeds (`RerunsSucceed`). |
| `taskwarrior_record` | the same | Violation, see section 6. |
| `release` | 7 requests of 2 releases, 2 identities, 3 runs of installer or uninstaller on a bare host or over an earlier release, 2 failing steps, 1 interrupt, 1 death of the worker | Success is real (`SuccessIsReal`), a failed repair keeps a running service and its identity (`FailureKeepsService`), directories keep an owner (`FilesHaveAnOwner`), what is left can be repaired or purged, but for a torn rule and what a toolchain installer refuses (`RepairsSucceed`). |

Why these bounds are enough to be interesting. In the workflow, five operations
let a proposal be submitted and then decided or executed by both processes from
the same status, with a sixth on another proposal under the discipline; two
faults let a first one leave a state (an event without its document, a torn line)
that a second one meets. Three log writers let two of them fork the chain while
the third has verified the unforked one. Three updates and three faults let an
update be applied, lost, reapplied and lost again in a batch with others behind
it. Two movers, three names and two directories give moves inside a directory,
forward and backward in scanning order, and two moves that chase each other. Two
events with a foreign name between them in reading order, and three synchronised
changes, are what a duplicate takes: removed while it is modified, brought back
under another name, and written again by the modification. Two processes at once
need no faults to restore old bytes, since each makes the other's read-back fail.
One
proposal suffices for the channel, since no handler relates two; two tasks let a
creation be read back beside another one, and the casts let each command meet the
actors that can disturb it. Three runs of an installer are one that leaves
something, one that meets it, and one that repairs or purges it; two faults let an
undo step fail after the step it undoes.
Symmetry is used where only safety is checked and the instance is symmetric in
the processes (or events); runs with a liveness property use none. Deadlock is
checked for the knowledge repository and the calendar, where an idle process can
always begin something; the other systems stop when their bounds are used up, and their
configurations say so.

What fails *without* the discipline, and is therefore stated under it: two
processes that read the same status overwrite each other, a cancellation can be
undone by an execution that checked before it, and a handler can run once per
process. The documents disclaim these. What does not fail is the first run:
even then nothing runs without a grant, and the log shows it.

## 4. Fairness

`ProposalWorkflow!FairSpec` is weak fairness of each process's next step,
`WF_vars(Continue(a))`: an operation is a straight-line function that waits for
nobody, so a process that is alive takes its next step. It includes the return of
the handler, whose subprocesses run under timeouts. Nobody has to begin, and no
failure has to happen.

`TelegramWorker!FairSpec` is `WF_vars(Run)`: the loop continues and the
supervisor restarts a run that ended with a failure
(`deploy/systemd/lea-telegram.service`). Faults, stops, updates and an
operator's new start are not assumed. Faults are bounded by `MaxFaults`, that is,
finite: an update whose handling fails every time does block the ones behind it,
and no fairness assumption of the project hides that.

## 5. The proofs

TLAPS checks these for every value of the constants: any number of processes,
proposals, updates, file names, operations and faults. The only assumptions are
the named `ASSUME`s at the head of each module: the types of its constants, and
that the value for "nothing" is none of the others. TLC evaluates them in every
run.

**`ProposalWorkflowProofs`.** No property of the list is inductive alone; the
invariant is built in layers, each using those below.

- `Shape`: the types, and what an operation's fields hold at each step (a step
  that appends has an event to append). `TypeCorrect` follows.
- `Discipline`: with `Exclusive`, at most one operation runs; it is what rules
  out that a partial line swallows somebody's envelope.
- `Grant`: every event that approves a proposal comes from a human decision or
  from a policy that needs none; every document status and every pending
  publication has its event; an execution in progress has a grant in the log.
  Hence `AuditIsWrittenFirst` (`AuditBeforeDocument`), `OnlyGrantedRuns`
  (`RunsAreGranted`) and `TrailIsComplete` (`TrailShowsGrant`).
- `Legal`: what an operation will publish is a legal move from the status it
  read, and with `Exclusive` that status is still on disk when the document is
  replaced. Hence `MovesAreLegal` (`DocumentsMoveLegally`).
- `Settled`: with `Exclusive`, the document is as a running operation left it and
  the log ends with what it will publish, unless an operation on the proposal was
  cut short (`OpSettled`); while a proposal may be executed again, every run of its
  handler but one in progress is counted in `cut` (`Accounted`);
  and a proposal nobody works on and no operation of which was cut has the status
  of its last event (`Matched`). Hence `RerunsHaveACause` (`RerunsAreAccounted`)
  and `QuietDocumentsMatch` (`DocumentMatchesTrail`).
  `DecisionsStand` says what this means for a user: under the discipline a
  proposal in a final status keeps it, and its handler does not run again.
- `WorkflowImplementsLog`: the initial states map to initial states of
  `AuditLog`, and every step to a step or a stutter.

The second half of the module is about `AuditChain`, the other implementation of
`AuditLog`. Its inductive invariant is small: `ChainShape` says that every hash in
the file was computed by some writer (an edit can copy one, not make one), and
that without the plain store every line is an envelope or text that does not
parse. The work is in what `verify` and `read_all` make of any sequence of lines.
Both read from the front, so the argument is by the first line at which something
fails: a set of positions that is not empty has a least one (`LeastElement`,
from the library's well-founded minimum), and the line before it is in order.
In this way a valid file is one whose hash at each line stands for the events up
to it (`SealedStandsForEvents`), hence `VerifiedWasWritten` (`VouchesForHistory`);
appending a line leaves the whole lines before the first bad one as they were, and
turns a sound file into a longer sound one, a forked or a torn one, a forked file
into a forked or torn one, and a torn file into a torn one with the same recorded
events. What `read_all` answers follows from those two: it returns the recorded
events unless the file is torn, and then raises (`ReadAllIsReading`). These are
the steps of `AuditLog`: `AuditChainImplementsLog` (`ChainImplementsLog`), for
any number of racing writers and faults. `RecordedHistoryStays` says it for one
step, as an action property: recorded events stay recorded and in order, damage
stays, and a tear takes the whole history from the readers. `TurnsNeverFork` needs one more invariant
(`ChainTurns`): while writers take turns, what a writer verified is what it
writes to, so its line continues the chain.

**`TelegramWorkerProofs`.** The invariant places the head of the batch relative
to the checkpoint: never beyond it, exactly at it between applying and
checkpointing, one before it while answering; and batches are runs of
consecutive identifiers that the server has not confirmed past. From it:
`WorkerTypes`, `NoUpdateIsLost`, `RepeatsNeedACutRun`, `AnswersComeOnce`,
`MemoryIsCurrent`. Two more speak of the ends the invariant connects:
`NothingDroppedUnapplied`, the server never forgets an update that was not
applied, and `CheckpointGoesOneByOne`, an action property: the file moves over
exactly one update at a time, the first it had not passed.

**`KnowledgeRepositoryProofs`.** `DocumentNeverVanishes` is not inductive, since
two moves could each remove the other's file. The invariant counts: the number of
files is larger than the number of moves that have linked their new file
and not yet given up either (`MovesKeepACopy`), and an operation that may
replace or move has a document to do it to. From it: `RepositoryTypes`,
`AMoveKeepsACopy`, `NothingVanishes`. The two promises that depend on how the
processes are used need a second one, `Coherent`: a process that works undisturbed
has found exactly the files that are there in the directories it has passed
(`Found`); a replacement by turns has, step by step,
the old document, both, or the new one on disk (`Exact`) and leaves one file
behind (`Single`); beside one writer no version on disk, and none a reader may
still return, is older than what was acknowledged when the reader began
(`Current`, `Recent`). Hence `AloneAllOrNothing` (`ReplaceIsAllOrNothing`) and
`FreshReads` (`ReadsAreFresh`).

**`CalendarVdirProofs`.** `CreatedStays` says nothing of what a process is about
to write, so it is not inductive. The invariant says that a file named after an
identifier holds that event, or a foreign file vdirsyncer made of it
(`Proper`), and that the same is true of everything a process has read, staged or
kept for restoring; that no two processes create the same event; and that a
creation which may still be taken back has not been reported (`Pledge`). Every
step of a process then goes through one lemma (`ProcessStep`), which asks only
what is gone from the directory and who had created it. From it: `CalendarTypes`,
`CreatedEventsStay`. The proof covers what the run's casts leave out: any number
of processes, with faults, all beside vdirsyncer. `SoloInv` adds what holds when
everybody takes turns: no event is in two files (`Unique`); a process that has
found its file knows that it holds the kept bytes or the staged ones (`Rewrites`),
and what it will tell (`Tells`); a cancelled event that vdirsyncer has not touched
is cancelled in its file (`Sticks`), and so in the bytes that would be restored.
Hence `CancellationsStick` (`CancelSticks`) and `OutcomesMatchTheDisk`
(`OutcomeMatchesDisk`).

**`ChannelApplicationProofs`.** `Granted` says of a document, from its status, who
must have decided and with which capabilities; `JobIsProper` that the worker only
executes an approved document with an executor, and that a job that will report
success has seen a promised status; `Accounted` that the effects of a proposal
are at most its lost executions, and one more only if its document records an
execution or its job has run and was not answered as never started. From them: `ApplicationIsTyped`, `OnlyGrantedActions`
(`EffectsAreGranted`), `ActionsAreAccounted` (`EffectsAreAccounted`),
`ReportedTasksAreReal` (`SuccessIsReal`), `CalendarsStayPrivate`
(`ReadsStayWithinPolicy`): for any users, user files, tasks and proposals, while
the file is edited and the worker restarted. `FinishedProposalsStay` is an action
property: whoever presses which button of an old message, the document of a
proposal that was rejected, cancelled or executed is never written again and its
action has no further effect.

**`TaskwarriorToolchainProofs`.** What a record promises is decided long before it
is written. `Checked` carries what the run has tested to the phase that uses it;
`Placed` says that the version root is empty until the run moves its own there,
and that no record which stands for something names it before; `NoRecordYet`, that
a run which got this far met no record; `Unedited`, that inputs and staged binary
agree while nobody edits; `Remembered`, that an acknowledged record keeps its tree.
From them: `InstallerIsTyped`, `RecordsVouch` (`RecordVouches`),
`RerunsAreHonoured` (`RerunsSucceed`).

**`CalendarToolchainProofs`.** The same for the three modes of the calendar tools
(`Tested`, `Seen`, `Vouched`), with the two undo steps: `Snapshot` says that until
it has an answer a run finds roots and record as they were at its start, but for
the root it moved, the record it set aside and the evidence an approved repair
replaced; `SetAside`, that only an upgrade sets a record aside, once its backup is
linked; `Apart`, that the root it would take back is not one that a record stands
for. From them: `ToolchainIsTyped`, `RecordsStandForTools` (`RecordVouches`),
`FailedRunsKeepInstallation` (`FailureKeepsInstallation`), `AcknowledgedStays`
(`AcknowledgedSurvives`). The evidence is the exception because nothing takes it
back: the record is replaced before the layout and the configuration are looked
at, and a configuration the run refuses to overwrite fails it with the new
evidence in place.

**`ReleaseCandidateProofs`.** A success at the end is the sum of what each boundary
established and no later one took away: `Provided`, `Written` and `Served` say for
each phase of an installation what is there by then, `Cleared` the same of a purge.
`Transaction` says that a transaction remembers a complete snapshot from its first
write on. `Kept` is the argument for a failed repair: a worker that ran when the
run began still runs on files it can start with, or what would be restored lets it.
`FilesHaveAnOwner` and `RepairsSucceed` are inductive beside these. From them:
`InstallationIsTyped`, `SuccessesAreReal` (`SuccessIsReal`),
`ServicesSurviveFailures` (`FailureKeepsService`), `DirectoriesHaveAnOwner`,
`ApprovedRepairsSucceed`: for any requests and identities, any number of runs,
failing steps, interrupts and deaths of the worker. The last has two exceptions,
both of which a purge clears: a tmpfiles rule that was torn, and a toolchain
installer that refuses while something of its tool is still there. The theorem
says that nothing else an earlier run left can stop an approved repair.

TLC finds every strengthened invariant to hold on the instance of its component's
run.

## 6. Disagreements between code and documents

Two runs are expected to end in a violation. Each checks a sentence of the
repository's own specifications.

- `worker_duplicates`: "duplicate update IDs do not repeat operations"
  (`docs/specifications/LEA-SPEC-0015`, line 686). The worker applies first and
  checkpoints second, so a run that ends in between applies the update again.
  What does hold is `RepeatsAreAccounted`: only those runs repeat.
- `taskwarrior_record`: "activation and records are atomic and idempotent"
  (`docs/specifications/LEA-SPEC-0012`, line 407). When the mode, the owner or the
  directory of a record cannot be set after it was renamed into place, the tree is
  taken back and the record stays. The calendar installer removes its record in
  the same case. What does hold is `RecordVouches`, with that exception.

Others, met while modelling and not checked by a run of their own: the provider
passes the issue of a failed read-back on as its answer and the action handler
keeps only its code and message, so when the executable or its working directory
is gone by the time of the read-back, the recorded execution reads like that of a
command that never started, and nothing in it tells of the change that was made
(`docs/specifications/LEA-SPEC-0011`, line 557: "If Taskwarrior mutates state but
post-condition export [...] fails, LEA shall expose the partial completion"). What
does hold is `EffectsAreAccounted`: "not started" means no effect only before a
read-back. Temporary files of the knowledge repository are removed under
`suppress(OSError)` (KD-052 asks for a report); nothing checks that a created
knowledge document has version 1 (KD-017); a repair that replaces users or token
under an active worker with an unchanged unit does not restart it
(`docs/specifications/LEA-SPEC-0016` says "start or restart it"), which is why
`SuccessIsReal` speaks of the new files only for a worker that the run started.

## 7. What is only model-checked, and what is not modelled

Only model-checked: the liveness properties (`OperationsEnd`,
`UpdatesArePassed`), which need fairness and `ENABLED` and are out of the
prover's reach. Every safety property and both refinements that the passing runs
check are theorems.

Proved and not among the runs' properties: `MovesAreLegal`, `DecisionsStand`,
`RecordedHistoryStays`, `TurnsNeverFork`, `AnswersComeOnce`, `MemoryIsCurrent`,
`NothingDroppedUnapplied`, `CheckpointGoesOneByOne`, `FinishedProposalsStay`,
`AMoveKeepsACopy`.

Not modelled: argument parsing, rendering, JSON and Markdown codecs and field
validation, which keep no state and can only refuse; HTTP and the wording of
answers; the external programs themselves. A second Telegram worker on the same
checkpoint file is not a configuration the program has, and neither are two
installers at once, though no lock prevents them. The Radicale installer and the
knowledge service and index are planned below; `PROJECT.json` gives the status of each.

## 8. Plan

What is left, in this order.

1. **Radicale server installer**: boundaries with recovery and removal, on the
   scheme of `ReleaseCandidate`; to examine: a second removal, which refuses what
   the first one removed, and a root without its record.
2. **Knowledge index and service**: mutation before audit; the rebuild that
   refuses beside a leftover file.
3. **Worker over channel**: composing `TelegramWorker` with `ChannelApplication`,
   so that "applied twice" becomes "what does applying twice do to a proposal".

## 9. Running it

```
tlc -workers 2 -config WorkflowConcurrent.cfg MCProposalWorkflow.tla
tlapm ProposalWorkflowProofs.tla
```

`PROJECT.json` lists each run with its module and configuration, and the mapping
from definitions to source lines.
