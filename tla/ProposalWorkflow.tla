-------------------------- MODULE ProposalWorkflow --------------------------
(***************************************************************************)
(* The proposal workflow across its two durable stores: the Markdown       *)
(* proposal documents (proposals/repository.py) and the hash-chained audit *)
(* log (audit/integrity_store.py), driven by the submission service, the   *)
(* orchestrator and the proposal commands.  An actor is one process that   *)
(* runs a command: the command line or the Telegram worker.  Every         *)
(* operation writes the audit log first and the document second, with      *)
(* nothing to make the two atomic, and neither store takes a lock.         *)
(***************************************************************************)
EXTENDS Naturals, Sequences, ActionLifecycle

CONSTANTS
  Actors,       \* processes that run proposal commands
  Proposals,    \* proposal identifiers (fresh UUIDs)
  TermsChoices, \* <<risk, policy>> pairs a proposal may carry
  NoDoc,        \* no proposal document / no proposal
  NoActor,      \* placeholder for an idle operation's proposal
  Exclusive,    \* TRUE: the documented single-writer discipline
  Fsync,        \* TRUE: the repository was built with fsync=True
  MaxOps,       \* bound: operations begun
  MaxFaults     \* bound: crashes and I/O failures

ASSUME ConstantsAssumption ==
  /\ TermsChoices \subseteq Risks \X Policies
  /\ NoDoc \notin Statuses
  /\ NoActor \notin Proposals
  /\ Exclusive \in BOOLEAN /\ Fsync \in BOOLEAN
  /\ MaxOps \in Nat /\ MaxFaults \in Nat

VARIABLES
  terms,     \* risk and confirmation policy, fixed when a proposal is built
  submitted, \* identifiers already drawn by a submission
  docs,      \* status in each proposal document, or NoDoc
  audit,     \* events in the whole lines of the log before any damage, in order
  health,    \* "sound", "forked" (a broken link) or "torn" (a partial line)
  ops,       \* the operation each actor is running
  runs,      \* handler invocations per proposal
  cut,       \* operations per proposal that began and did not reach their end
  begun,     \* operations begun, bounded by MaxOps
  faults     \* crashes and I/O failures so far, bounded by MaxFaults

vars == <<terms, submitted, docs, audit, health, ops, runs, cut, begun, faults>>

Event == [prop : Proposals,
          kind : {"created", "validation", "transition", "policy",
                  "decision", "execution"},
          to   : Statuses \cup {NoDoc}]

(* One operation: what it read (seen), what it will publish (next), the    *)
(* events it has still to append, and the log length its append verified.  *)
Idle == [pc |-> "idle", kind |-> "none", prop |-> NoActor, seen |-> NoDoc,
         next |-> NoDoc, pending |-> <<>>, tail |-> 0]

OpSet == [pc   : {"idle", "inspect", "write", "create", "handler",
                  "handling", "check", "swap", "readback"},
          kind : {"none", "submit", "decide", "execute"},
          prop : Proposals \cup {NoActor},
          seen : Statuses \cup {NoDoc},
          next : Statuses \cup {NoDoc},
          pending : Seq(Event),
          tail : Nat]

TypeOK ==
  /\ terms \in [Proposals -> TermsChoices]
  /\ submitted \subseteq Proposals
  /\ docs \in [Proposals -> Statuses \cup {NoDoc}]
  /\ audit \in Seq(Event)
  /\ health \in {"sound", "forked", "torn"}
  /\ ops \in [Actors -> OpSet]
  /\ runs \in [Proposals -> Nat]
  /\ cut \in [Proposals -> Nat]
  /\ begun \in Nat
  /\ faults \in Nat

Init ==
  /\ terms \in [Proposals -> TermsChoices]
  /\ submitted = {}
  /\ docs = [p \in Proposals |-> NoDoc]
  /\ audit = <<>>
  /\ health = "sound"
  /\ ops = [a \in Actors |-> Idle]
  /\ runs = [p \in Proposals |-> 0]
  /\ cut = [p \in Proposals |-> 0]
  /\ begun = 0
  /\ faults = 0

-----------------------------------------------------------------------------
(* Helpers. *)

Ev(p, kind, to) == [prop |-> p, kind |-> kind, to |-> to]

(* Actor a is free to begin; under the single-writer discipline nobody     *)
(* else is running anything.                                               *)
MayBegin(a) ==
  /\ begun < MaxOps
  /\ ops[a] = Idle
  /\ Exclusive => \A b \in Actors : ops[b] = Idle

Begin(a, op) ==
  /\ ops' = [ops EXCEPT ![a] = op]
  /\ begun' = begun + 1

Fault ==
  /\ faults < MaxFaults
  /\ faults' = faults + 1

(* The operation of a ends, at its last step or (counted in cut) early.    *)
Finish(a) == ops' = [ops EXCEPT ![a] = Idle] /\ UNCHANGED cut

CutShort(a) ==
  /\ ops' = [ops EXCEPT ![a] = Idle]
  /\ cut' = [cut EXCEPT ![ops[a].prop] = @ + 1]

(* Faulty variants are kept beside some definitions, to show which mistake *)
(* in the code each property would expose.                                 *)

(* Faulty variant: a document is never replaced after its audit event. *)
AfterAppendNoReplace(op) ==
  IF Len(op.pending) > 1
    THEN [op EXCEPT !.pc = "inspect", !.pending = Tail(op.pending)]
  ELSE IF op.next = NoDoc \/ op.kind # "submit"
    THEN Idle
  ELSE [op EXCEPT !.pc = "create", !.pending = <<>>]

(* After one event has been appended: the next event, or publication, or,  *)
(* for a submission that failed validation, nothing more.                  *)
AfterAppend(op) ==
  IF Len(op.pending) > 1
    THEN [op EXCEPT !.pc = "inspect", !.pending = Tail(op.pending)]
  ELSE IF op.next = NoDoc
    THEN Idle
  ELSE [op EXCEPT !.pc = IF op.kind = "submit" THEN "create" ELSE "check",
                  !.pending = <<>>]

-----------------------------------------------------------------------------
(* Faulty variant: an event names a status there is not. *)
SubmissionEventsUnknownStatus(p, valid) ==
  <<Ev(p, "created", "proposed"),
    Ev(p, "validation", IF valid THEN "valid" ELSE "invalid")>>

(* Submission: validation and the confirmation policy are computed, and    *)
(* their events are appended one at a time.                                *)
SubmissionEvents(p, valid) ==
  IF valid
    THEN <<Ev(p, "created", "proposed"), Ev(p, "validation", "proposed"),
           Ev(p, "transition", "validated"),
           Ev(p, "policy", PolicyTarget(terms[p][1], terms[p][2]))>>
    ELSE <<Ev(p, "created", "proposed"), Ev(p, "validation", NoDoc)>>

Submission(p, valid) ==
  [Idle EXCEPT
     !.pc = "inspect", !.kind = "submit", !.prop = p,
     !.next = IF valid THEN PolicyTarget(terms[p][1], terms[p][2]) ELSE NoDoc,
     !.pending = SubmissionEvents(p, valid)]

BeginSubmit(a, p) ==
  /\ MayBegin(a)
  /\ p \notin submitted
  /\ submitted' = submitted \cup {p}
  /\ \E valid \in BOOLEAN : Begin(a, Submission(p, valid))
  /\ UNCHANGED <<terms, docs, audit, health, runs, cut, faults>>

(* A human decision: the document is read, the decision is checked against *)
(* the status read, and one decision event is to be appended.  The commands*)
(* expect to replace a document in the status they read.                   *)
Decision(p, d) ==
  [Idle EXCEPT
     !.pc = "inspect", !.kind = "decide", !.prop = p, !.seen = docs[p],
     !.next = DecisionTarget(d),
     !.pending = <<Ev(p, "decision", DecisionTarget(d))>>]

BeginDecision(a, p, d) ==
  /\ MayBegin(a)
  /\ docs[p] # NoDoc
  /\ DecisionPermitted(docs[p], d)
  /\ Begin(a, Decision(p, d))
  /\ UNCHANGED <<terms, submitted, docs, audit, health, runs, cut, faults>>

(* Execution: only a document read as approved reaches the handler. *)
Execution(p) ==
  [Idle EXCEPT !.pc = "handler", !.kind = "execute", !.prop = p,
               !.seen = docs[p]]

(* Faulty variant: a document still awaiting confirmation is run. *)
BeginExecutionUnchecked(a, p) ==
  /\ MayBegin(a)
  /\ docs[p] \in {"awaiting_confirmation", "approved"}
  /\ Begin(a, Execution(p))
  /\ UNCHANGED <<terms, submitted, docs, audit, health, runs, cut, faults>>

BeginExecution(a, p) ==
  /\ MayBegin(a)
  /\ docs[p] = "approved"
  /\ Begin(a, Execution(p))
  /\ UNCHANGED <<terms, submitted, docs, audit, health, runs, cut, faults>>

(* The handler runs outside both stores: its effect is not undone. *)
InvokeHandler(a) ==
  /\ ops[a].pc = "handler"
  /\ ops' = [ops EXCEPT ![a].pc = "handling"]
  /\ runs' = [runs EXCEPT ![ops[a].prop] = @ + 1]
  /\ UNCHANGED <<terms, submitted, docs, audit, health, cut, begun, faults>>

(* It returns or raises; either way one execution event is to be appended. *)
HandlerReturns(a, to) ==
  /\ ops[a].pc = "handling"
  /\ to \in ExecutionTargets
  /\ ops' = [ops EXCEPT
       ![a].pc = "inspect", ![a].next = to,
       ![a].pending = <<Ev(ops[a].prop, "execution", to)>>]
  /\ UNCHANGED <<terms, submitted, docs, audit, health, runs, cut, begun, faults>>

-----------------------------------------------------------------------------
(* Appending one event: the whole file is read and verified, then the file *)
(* is opened again in append mode.  Nothing excludes another process       *)
(* between the two.                                                        *)

InspectLog(a) ==
  /\ ops[a].pc = "inspect"
  /\ health = "sound"
  /\ ops' = [ops EXCEPT ![a].pc = "write", ![a].tail = Len(audit)]
  /\ UNCHANGED <<terms, submitted, docs, audit, health, runs, cut, begun, faults>>

(* Faulty variant: a damaged log is read again, for ever. *)
RetryDamagedLog(a) ==
  /\ ops[a].pc = "inspect"
  /\ health # "sound"
  /\ UNCHANGED vars

(* A damaged log refuses every append: the operation ends with             *)
(* AUDIT_FAILED.                                                           *)
RefuseDamagedLog(a) ==
  /\ ops[a].pc = "inspect"
  /\ health # "sound"
  /\ CutShort(a)
  /\ UNCHANGED <<terms, submitted, docs, audit, health, runs, begun, faults>>

(* Faulty variant: the envelope is written where the verified tail ended. *)
WriteEnvelopeAtTail(a) ==
  /\ ops[a].pc = "write"
  /\ audit' = Append(SubSeq(audit, 1, ops[a].tail), Head(ops[a].pending))
  /\ ops' = [ops EXCEPT ![a] = AfterAppend(ops[a])]
  /\ UNCHANGED <<terms, submitted, docs, health, runs, cut, begun, faults>>

(* The envelope links to the tail that was verified: if the log has grown  *)
(* since, the chain forks.  After a partial line it continues that line,   *)
(* and the event is unreadable although the append reports success.        *)
WriteEnvelope(a) ==
  /\ ops[a].pc = "write"
  /\ audit' = IF health = "torn" THEN audit
                                 ELSE Append(audit, Head(ops[a].pending))
  /\ health' = IF health = "sound" /\ Len(audit) # ops[a].tail
                 THEN "forked" ELSE health
  /\ ops' = [ops EXCEPT ![a] = AfterAppend(ops[a])]
  /\ UNCHANGED <<terms, submitted, docs, runs, cut, begun, faults>>

(* Faulty variant: an append that raised counts as done. *)
AppendFailsUnnoticed(a) ==
  /\ ops[a].pc \in {"inspect", "write"}
  /\ Fault
  /\ ops' = [ops EXCEPT ![a] = AfterAppend(ops[a])]
  /\ UNCHANGED <<terms, submitted, docs, audit, health, runs, cut, begun>>

(* The append raises before anything was written (or the event could not   *)
(* be built, or the file could not be read or opened).                     *)
AppendFails(a) ==
  /\ ops[a].pc \in {"inspect", "write"}
  /\ Fault
  /\ CutShort(a)
  /\ UNCHANGED <<terms, submitted, docs, audit, health, runs, begun>>

(* The line is written in part: the append raises, or the process dies.    *)
AppendTears(a) ==
  /\ ops[a].pc = "write"
  /\ Fault
  /\ health' = "torn"
  /\ CutShort(a)
  /\ UNCHANGED <<terms, submitted, docs, audit, runs, begun>>

(* The line is complete but the append raises (flush or fsync failed and   *)
(* closing the file wrote the rest), so the operation stops.               *)
AppendUnreported(a) ==
  /\ ops[a].pc = "write"
  /\ health # "torn"
  /\ Fault
  /\ audit' = Append(audit, Head(ops[a].pending))
  /\ health' = IF Len(audit) # ops[a].tail THEN "forked" ELSE health
  /\ CutShort(a)
  /\ UNCHANGED <<terms, submitted, docs, runs, begun>>

-----------------------------------------------------------------------------
(* Publishing the document. *)

(* MarkdownProposalRepository.create: a hard link that never overwrites. *)
CreateDocument(a) ==
  /\ ops[a].pc = "create"
  /\ IF docs[ops[a].prop] = NoDoc
       THEN docs' = [docs EXCEPT ![ops[a].prop] = ops[a].next] /\ Finish(a)
       ELSE CutShort(a) /\ UNCHANGED docs
  /\ UNCHANGED <<terms, submitted, audit, health, runs, begun, faults>>

(* MarkdownProposalRepository.replace, first half: the document is read    *)
(* again and its status compared with the expected one.                    *)
CheckDocument(a) ==
  /\ ops[a].pc = "check"
  /\ docs[ops[a].prop] = ops[a].seen
  /\ ops' = [ops EXCEPT ![a].pc = "swap"]
  /\ UNCHANGED <<terms, submitted, docs, audit, health, runs, cut, begun, faults>>

RefuseConflict(a) ==
  /\ ops[a].pc = "check"
  /\ docs[ops[a].prop] # ops[a].seen
  /\ CutShort(a)
  /\ UNCHANGED <<terms, submitted, docs, audit, health, runs, begun, faults>>

(* Second half: os.replace of a temporary file, whatever is there by now.  *)
ReplaceDocument(a) ==
  /\ ops[a].pc = "swap"
  /\ docs' = [docs EXCEPT ![ops[a].prop] = ops[a].next]
  /\ ops' = [ops EXCEPT ![a].pc = "readback"]
  /\ UNCHANGED <<terms, submitted, audit, health, runs, cut, begun, faults>>

(* The document is read back and compared; a mismatch is only reported.    *)
ReadBack(a) ==
  /\ ops[a].pc = "readback"
  /\ IF docs[ops[a].prop] = ops[a].next THEN Finish(a) ELSE CutShort(a)
  /\ UNCHANGED <<terms, submitted, docs, audit, health, runs, begun, faults>>

(* Creating or replacing fails before the document is touched. *)
PublishFails(a) ==
  /\ ops[a].pc \in {"create", "check", "swap"}
  /\ Fault
  /\ CutShort(a)
  /\ UNCHANGED <<terms, submitted, docs, audit, health, runs, begun>>

(* The directory sync fails after the document was published: the          *)
(* repository reports a failure for a document that is in place.           *)
PublishUnreported(a) ==
  /\ Fsync
  /\ \/ ops[a].pc = "swap"
     \/ ops[a].pc = "create" /\ docs[ops[a].prop] = NoDoc
  /\ Fault
  /\ docs' = [docs EXCEPT ![ops[a].prop] = ops[a].next]
  /\ CutShort(a)
  /\ UNCHANGED <<terms, submitted, audit, health, runs, begun>>

(* The process dies between two steps.  Nothing resumes its operation. *)
Crash(a) ==
  /\ ops[a] # Idle
  /\ Fault
  /\ CutShort(a)
  /\ UNCHANGED <<terms, submitted, docs, audit, health, runs, begun>>

-----------------------------------------------------------------------------
BeginStep(a) ==
  \E p \in Proposals :
    \/ BeginSubmit(a, p)
    \/ \E d \in Decisions : BeginDecision(a, p, d)
    \/ BeginExecution(a, p)

(* The steps of a running operation, in the order the code takes them. *)
Continue(a) ==
  \/ InvokeHandler(a)
  \/ \E to \in ExecutionTargets : HandlerReturns(a, to)
  \/ InspectLog(a)
  \/ RefuseDamagedLog(a)
  \/ WriteEnvelope(a)
  \/ CreateDocument(a)
  \/ CheckDocument(a)
  \/ RefuseConflict(a)
  \/ ReplaceDocument(a)
  \/ ReadBack(a)

Fail(a) ==
  \/ AppendFails(a)
  \/ AppendTears(a)
  \/ AppendUnreported(a)
  \/ PublishFails(a)
  \/ PublishUnreported(a)
  \/ Crash(a)

Next == \E a \in Actors : BeginStep(a) \/ Continue(a) \/ Fail(a)

Spec == Init /\ [][Next]_vars

(* A running process keeps running; nobody has to begin anything, and      *)
(* nothing has to fail.                                                    *)
FairSpec == Spec /\ \A a \in Actors : WF_vars(Continue(a))

-----------------------------------------------------------------------------
(* Properties. *)

Records(i, p, s) == audit[i].prop = p /\ audit[i].to = s

(* The only risks and policies an approval needs no human for. *)
NoHumanNeeded == {<<"low", "never">>, <<"low", "when_required">>,
                  <<"medium", "never">>}

(* Event i approves p by the authority p needs: a human decision, or the   *)
(* confirmation policy where no human is needed.                           *)
Grants(i, p) ==
  /\ Records(i, p, "approved")
  /\ \/ audit[i].kind = "decision"
     \/ audit[i].kind = "policy" /\ terms[p] \in NoHumanNeeded

(* A partial line swallows the envelope of a process that verified the log *)
(* before the line was torn; only the single-writer discipline rules that  *)
(* out, so without it the audit properties end with the first torn line.   *)
(* With it they go on about what is recorded, which nobody can read back.  *)
LogComplete == Exclusive \/ health # "torn"

(* Audit before document: whatever crashes, fails or interleaves, the      *)
(* status in a proposal document has its event in the audit log            *)
(* (orchestrator appends first, the command replaces the document last).   *)
AuditBeforeDocument ==
  LogComplete => \A p \in Proposals :
    docs[p] # NoDoc => \E i \in DOMAIN audit : Records(i, p, docs[p])

(* No handler has run for a proposal that was not approved by the          *)
(* authority its risk and policy demand: approved-only execution and the   *)
(* confirmation matrix, held across processes by documents on disk.        *)
RunsAreGranted ==
  LogComplete => \A p \in Proposals :
    runs[p] > 0 => \E i \in DOMAIN audit : Grants(i, p)

(* By the events recorded alone, every execution event comes after an      *)
(* event that granted it.                                                  *)
TrailShowsGrant ==
  LogComplete => \A i \in DOMAIN audit :
    audit[i].kind = "execution" =>
      \E j \in 1..(i - 1) : Grants(j, audit[i].prop)

(* What reading the log gives: a torn line makes the whole file unreadable. *)
ReadLog == IF health = "torn" THEN [raised |-> TRUE, events |-> <<>>]
                              ELSE [raised |-> FALSE, events |-> audit]

Log == INSTANCE AuditLog WITH Entries <- Event, log <- audit, answer <- ReadLog

(* The workflow drives an audit log and nothing else: its steps only ever  *)
(* extend or damage the log AuditChain implements, and a torn line takes   *)
(* all of it from its readers.                                             *)
ImplementsLog == Log!Spec

(* Under the single-writer discipline a document only ever moves along the *)
(* transition table (with "executing" passed in memory), crashes and       *)
(* failed writes included: a terminal document never comes back.           *)
LegalStep(from, to) ==
  \/ from = NoDoc /\ to \in {"awaiting_confirmation", "approved"}
  \/ from # NoDoc /\ to # NoDoc /\ CanTransition(from, to)
  \/ from = "approved" /\ to \in ExecutionTargets

DocumentsMoveLegally ==
  [][Exclusive => \A p \in Proposals :
       docs'[p] # docs[p] => LegalStep(docs[p], docs'[p])]_docs

(* Under the same discipline a handler runs again only when an earlier     *)
(* operation on the proposal was cut short: execution is at most once but  *)
(* for the crashes, damaged logs and failed writes that left the document  *)
(* approved after its handler had run.                                     *)
RerunsAreAccounted ==
  Exclusive => \A p \in Proposals : runs[p] <= cut[p] + 1

(* Under the same discipline, once nothing is running on a proposal none   *)
(* of whose operations was cut short, its document is what the last of its *)
(* audit events says.                                                      *)
LastRecorded(p) ==
  IF \E i \in DOMAIN audit : audit[i].prop = p
    THEN LET last == CHOOSE i \in DOMAIN audit :
               /\ audit[i].prop = p
               /\ \A j \in DOMAIN audit : audit[j].prop = p => j <= i
         IN  audit[last].to
    ELSE NoDoc

DocumentMatchesTrail ==
  Exclusive => \A p \in Proposals :
    cut[p] = 0 /\ (\A a \in Actors : ops[a].prop # p)
      => docs[p] = LastRecorded(p)

(* Every operation ends: no step waits for another process, and a damaged  *)
(* log or a conflicting document stops the operation rather than block it. *)
OperationsEnd == \A a \in Actors : ops[a] # Idle ~> ops[a] = Idle
=============================================================================
