--------------------------- MODULE TelegramWorker ---------------------------
(***************************************************************************)
(* The foreground polling worker (adapters/telegram/worker.py), its        *)
(* checkpoint file (offsets.py), the Telegram server it polls and the      *)
(* supervisor that restarts it.  Each update is applied, then checkpointed,*)
(* then answered; the process can end between any two of these.            *)
(***************************************************************************)
EXTENDS Naturals, Sequences

CONSTANTS
  FetchLimit,       \* updates per batch
  MaxFetchFailures, \* max_consecutive_fetch_failures
  MaxUpdates,       \* bound: updates sent to the bot
  MaxFaults,        \* bound: crashes, failures and redeliveries
  MaxStops          \* bound: stop requests

ASSUME ConstantsAssumption ==
  /\ FetchLimit \in Nat \ {0}
  /\ MaxFetchFailures \in Nat \ {0}
  /\ MaxUpdates \in Nat /\ MaxFaults \in Nat /\ MaxStops \in Nat

Updates == 1..MaxUpdates

VARIABLES
  sent,      \* updates sent so far; their identifiers are 1..sent
  confirmed, \* the server has dropped the updates below this identifier
  routed,    \* updates that parse, route and are authorised
  disk,      \* next_update_id in the checkpoint file, 0 without a file
  worker,    \* the worker process
  applied,   \* per update: times the channel application handled it
  answered,  \* per update: responses handed to Telegram
  lost,      \* per update: times it was applied and the run then ended
             \* without a checkpoint
  faults,
  stops

vars == <<sent, confirmed, routed, disk, worker, applied, answered, lost,
          faults, stops>>

(* "down" is an exit the supervisor restarts from, "stopped" a clean one. *)
Down == [pc |-> "down", state |-> 0, batch |-> <<>>, failures |-> 0]

TypeOK ==
  /\ sent \in 0..MaxUpdates
  /\ confirmed \in 1..(MaxUpdates + 1)
  /\ routed \subseteq Updates
  /\ disk \in 0..(MaxUpdates + 1)
  /\ worker \in [pc : {"down", "stopped", "fetch", "update", "checkpoint", "deliver"},
                 state : 0..(MaxUpdates + 1),
                 batch : Seq(Updates),
                 failures : 0..(MaxFetchFailures - 1)]
  /\ applied \in [Updates -> Nat]
  /\ answered \in [Updates -> Nat]
  /\ lost \in [Updates -> Nat]
  /\ faults \in 0..MaxFaults
  /\ stops \in 0..MaxStops

Init ==
  /\ sent = 0
  /\ confirmed = 1
  /\ routed \in SUBSET Updates
  /\ disk = 0
  /\ worker = Down
  /\ applied = [u \in Updates |-> 0]
  /\ answered = [u \in Updates |-> 0]
  /\ lost = [u \in Updates |-> 0]
  /\ faults = 0
  /\ stops = 0

-----------------------------------------------------------------------------
Fault == faults < MaxFaults /\ faults' = faults + 1

Send ==
  /\ sent < MaxUpdates
  /\ sent' = sent + 1
  /\ UNCHANGED <<confirmed, routed, disk, worker, applied, answered, lost,
                 faults, stops>>

(* A run starts with what the checkpoint file says. *)
Load == worker' = [Down EXCEPT !.pc = "fetch", !.state = disk]

(* The supervisor restarts a worker that failed... *)
Restart ==
  /\ worker.pc = "down"
  /\ Load
  /\ UNCHANGED <<sent, confirmed, routed, disk, applied, answered, lost,
                 faults, stops>>

(* ... and somebody has to start one that stopped. *)
StartAgain ==
  /\ worker.pc = "stopped"
  /\ Load
  /\ UNCHANGED <<sent, confirmed, routed, disk, applied, answered, lost,
                 faults, stops>>

-----------------------------------------------------------------------------
(* Fetching. *)

(* The server: an offset drops what is below it, and the batch is what is  *)
(* left in the order of identifiers, cut at the limit.                     *)
Confirmed == IF worker.state > confirmed THEN worker.state ELSE confirmed

BatchSize(first) ==
  IF sent < first THEN 0
  ELSE IF sent - first + 1 < FetchLimit THEN sent - first + 1
  ELSE FetchLimit

Batch(first) == [i \in 1..BatchSize(first) |-> first + i - 1]

Fetched(batch) ==
  /\ worker' = [worker EXCEPT !.pc = IF batch = <<>> THEN "fetch" ELSE "update",
                              !.batch = batch, !.failures = 0]
  /\ confirmed' = Confirmed

Fetch ==
  /\ worker.pc = "fetch"
  /\ Fetched(Batch(Confirmed))
  /\ UNCHANGED <<sent, routed, disk, applied, answered, lost, faults, stops>>

(* The server delivers updates again that were confirmed before. *)
Redeliver ==
  /\ worker.pc = "fetch"
  /\ Fault
  /\ \E first \in 1..Confirmed : Fetched(Batch(first))
  /\ UNCHANGED <<sent, routed, disk, applied, answered, lost, stops>>

(* Faulty variant: giving up counts as a clean exit. *)
FetchFailsCleanly ==
  /\ worker.pc = "fetch"
  /\ Fault
  /\ worker' = IF worker.failures + 1 >= MaxFetchFailures
                 THEN [Down EXCEPT !.pc = "stopped"]
                 ELSE [worker EXCEPT !.failures = @ + 1]
  /\ UNCHANGED <<sent, confirmed, routed, disk, applied, answered, lost, stops>>

(* Faulty variant: one more failure than the limit is let through. *)
FetchFailsOnceMore ==
  /\ worker.pc = "fetch"
  /\ Fault
  /\ worker' = IF worker.failures + 1 > MaxFetchFailures
                 THEN Down
                 ELSE [worker EXCEPT !.failures = @ + 1]
  /\ UNCHANGED <<sent, confirmed, routed, disk, applied, answered, lost, stops>>

(* A failed fetch is retried after a delay, up to a number in a row. *)
FetchFails ==
  /\ worker.pc = "fetch"
  /\ Fault
  /\ worker' = IF worker.failures + 1 >= MaxFetchFailures
                 THEN Down
                 ELSE [worker EXCEPT !.failures = @ + 1]
  /\ UNCHANGED <<sent, confirmed, routed, disk, applied, answered, lost, stops>>

-----------------------------------------------------------------------------
(* One update. *)

Current == Head(worker.batch)

(* Faulty variant: the update just checkpointed counts as new. *)
IsStaleButLast(u) == u + 1 < worker.state

(* TelegramOffsetState.is_stale; without a checkpoint nothing is stale. *)
IsStale(u) == u < worker.state

(* The worker moves on to the rest of the batch, or to the next fetch. *)
NextUpdate(w) ==
  [w EXCEPT !.pc = IF Len(w.batch) = 1 THEN "fetch" ELSE "update",
            !.batch = Tail(w.batch)]

SkipStale ==
  /\ worker.pc = "update"
  /\ IsStale(Current)
  /\ worker' = NextUpdate(worker)
  /\ UNCHANGED <<sent, confirmed, routed, disk, applied, answered, lost,
                 faults, stops>>

Applied == IF Current \in routed THEN [applied EXCEPT ![Current] = @ + 1]
                                 ELSE applied

(* _prepare_update: parsed, routed and authorised updates reach the        *)
(* application; the rest are only checkpointed.                            *)
Prepare ==
  /\ worker.pc = "update"
  /\ ~IsStale(Current)
  /\ applied' = Applied
  /\ worker' = [worker EXCEPT !.pc = "checkpoint"]
  /\ UNCHANGED <<sent, confirmed, routed, disk, answered, lost, faults, stops>>

(* The run ends with the current update applied and not checkpointed. *)
EndUncheckpointed ==
  /\ worker' = Down
  /\ lost' = IF Current \in routed THEN [lost EXCEPT ![Current] = @ + 1] ELSE lost

(* The application reports a structural failure, or something raises while *)
(* the response is prepared: the worker exits without a checkpoint.        *)
PrepareFails ==
  /\ worker.pc = "update"
  /\ ~IsStale(Current)
  /\ Current \in routed
  /\ Fault
  /\ applied' = Applied
  /\ EndUncheckpointed
  /\ UNCHANGED <<sent, confirmed, routed, disk, answered, stops>>

(* Faulty variant: the whole batch is checkpointed with its first update. *)
AdvanceWholeBatch ==
  /\ worker.pc = "checkpoint"
  /\ disk' = worker.batch[Len(worker.batch)] + 1
  /\ worker' = [worker EXCEPT !.pc = "deliver", !.state = disk']
  /\ UNCHANGED <<sent, confirmed, routed, applied, answered, lost, faults, stops>>

(* FileTelegramOffsetStore.advance: the file never moves back; otherwise   *)
(* it and the state in memory move past the update together.               *)
Advance ==
  /\ worker.pc = "checkpoint"
  /\ IF Current + 1 < disk
       THEN EndUncheckpointed /\ UNCHANGED disk
       ELSE /\ disk' = Current + 1
            /\ worker' = [worker EXCEPT !.pc = "deliver", !.state = Current + 1]
            /\ UNCHANGED lost
  /\ UNCHANGED <<sent, confirmed, routed, applied, answered, faults, stops>>

(* The file cannot be read or replaced: the worker exits. *)
AdvanceFails ==
  /\ worker.pc = "checkpoint"
  /\ Fault
  /\ EndUncheckpointed
  /\ UNCHANGED <<sent, confirmed, routed, disk, applied, answered, stops>>

(* The file is replaced, the directory sync fails: the worker exits too.   *)
AdvanceUnreported ==
  /\ worker.pc = "checkpoint"
  /\ Current + 1 >= disk
  /\ Fault
  /\ disk' = Current + 1
  /\ worker' = Down
  /\ UNCHANGED <<sent, confirmed, routed, applied, answered, lost, stops>>

(* _deliver_response: best effort, at the latest in the order of updates;  *)
(* a response that cannot be formatted or sent is only a warning.          *)
Deliver ==
  /\ worker.pc = "deliver"
  /\ answered' \in {answered} \cup
       (IF Current \in routed THEN {[answered EXCEPT ![Current] = @ + 1]} ELSE {})
  /\ worker' = NextUpdate(worker)
  /\ UNCHANGED <<sent, confirmed, routed, disk, applied, lost, faults, stops>>

-----------------------------------------------------------------------------
(* SIGTERM or SIGINT: noticed before a fetch and before each update. *)
Stop ==
  /\ worker.pc \in {"fetch", "update"}
  /\ stops < MaxStops
  /\ stops' = stops + 1
  /\ worker' = [Down EXCEPT !.pc = "stopped"]
  /\ UNCHANGED <<sent, confirmed, routed, disk, applied, answered, lost, faults>>

(* The process dies. *)
Crash ==
  /\ worker.pc \notin {"down", "stopped"}
  /\ Fault
  /\ IF worker.pc = "checkpoint" THEN EndUncheckpointed
                                 ELSE worker' = Down /\ UNCHANGED lost
  /\ UNCHANGED <<sent, confirmed, routed, disk, applied, answered, stops>>

Run == Restart \/ Fetch \/ SkipStale \/ Prepare \/ Advance \/ Deliver

Fail == Redeliver \/ FetchFails \/ PrepareFails \/ AdvanceFails
        \/ AdvanceUnreported \/ Crash

Next == Send \/ Run \/ Fail \/ Stop \/ StartAgain

Spec == Init /\ [][Next]_vars

(* The process keeps running and its supervisor keeps restarting it; no    *)
(* fault, no stop and no update has to happen.                             *)
FairSpec == Spec /\ WF_vars(Run)

-----------------------------------------------------------------------------
(* Properties. *)

(* No update is lost: what the checkpoint has passed was applied, if it    *)
(* could be routed, whatever ended the runs that got there.                *)
CheckpointedIsApplied ==
  \A u \in routed : u < disk => applied[u] > 0

(* An update is applied again only for a run that ended between applying   *)
(* and checkpointing it; redelivered and stale updates are not repeated.   *)
RepeatsAreAccounted ==
  \A u \in Updates : applied[u] <= lost[u] + 1

(* The checkpoint held in memory is never stale: it is the one on disk     *)
(* whenever the worker uses it, failed and unreported writes included.     *)
MemoryMatchesDisk ==
  worker.pc \in {"fetch", "update", "checkpoint", "deliver"} =>
    worker.state = disk

(* The user sees at most one answer to an update, and none before its      *)
(* result is durable.                                                      *)
AnswersAreFinal ==
  \A u \in Updates : answered[u] > 0 => answered[u] = 1 /\ u < disk

(* Every update is checkpointed in the end, unless somebody asks the       *)
(* service to stop: failures, restarts and skipped updates delay the ones  *)
(* behind them but never block them.                                       *)
UpdatesArePassed ==
  \A u \in Updates : u <= sent ~> (u < disk \/ stops > 0)

(* "duplicate update IDs do not repeat operations"                         *)
(* (docs/specifications/LEA-SPEC-0015, line 686).                          *)
DuplicatesDoNotRepeat ==
  \A u \in Updates : applied[u] <= 1
=============================================================================
