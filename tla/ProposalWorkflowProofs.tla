----------------------- MODULE ProposalWorkflowProofs -----------------------
(***************************************************************************)
(* Theorems about both sides of the audit log: ProposalWorkflow, which     *)
(* uses it, and at the end AuditChain, which keeps it.                     *)
(*                                                                         *)
(* About ProposalWorkflow, for every number of actors, proposals,          *)
(* operations and faults.  The argument has five layers, each inductive    *)
(* with the help of the ones below it:                                     *)
(*   Shape      types, and a running operation has a proposal and events   *)
(*   Discipline what the single-writer discipline keeps true               *)
(*   Grant      what the audit log says about documents and handler runs   *)
(*   Legal      which status each running operation may publish            *)
(*   Settled    what the discipline makes of documents, runs and log       *)
(***************************************************************************)
EXTENDS ProposalWorkflow, AuditChain, SequenceTheorems, NaturalsInduction,
        WellFoundedInduction, TLAPS

Running(a)   == ops[a].pc # "idle"
Appending(a) == ops[a].pc \in {"inspect", "write"}

(* A well formed operation: one that runs is about a proposal, one that    *)
(* appends has something to append, and there is one way to be idle.       *)
OpShape(op) ==
  /\ op \in OpSet
  /\ op.pc # "idle" => op.prop \in Proposals /\ op.kind # "none"
  /\ op.pc \in {"inspect", "write"} => op.pending # <<>>
  /\ op.pc \in {"handler", "handling"} => op.kind = "execute"
  /\ op.pc = "create" => op.kind = "submit"
  /\ op.pc \in {"check", "swap"} => op.kind \in {"decide", "execute"}
  /\ op.pc = "idle" => op = Idle

Shape ==
  /\ TypeOK
  /\ \A a \in Actors : OpShape(ops[a])

(* Under the single-writer discipline one operation runs at a time, so an  *)
(* append never meets a torn line.                                         *)
Discipline ==
  Exclusive => \A a \in Actors :
    /\ \A b \in Actors : Running(a) /\ Running(b) => a = b
    /\ ops[a].pc = "write" => health # "torn"

Authorised(e) ==
  e.to = "approved" =>
    \/ e.kind = "decision"
    \/ e.kind = "policy" /\ terms[e.prop] \in NoHumanNeeded

Backed(p, s) == \E i \in DOMAIN audit : Records(i, p, s)

(* What an operation carries towards the log. *)
PendingOK(op) ==
  /\ \A k \in DOMAIN op.pending :
       /\ op.pending[k].prop = op.prop
       /\ Authorised(op.pending[k])
       /\ op.pending[k].kind = "execution" => op.kind = "execute"
  /\ op.pc \in {"inspect", "write"} =>
       op.pending[Len(op.pending)].to = op.next

(* What the log already holds for an operation. *)
OpBacked(op) ==
  /\ op.pc \in {"create", "check", "swap"} =>
       op.next # NoDoc /\ Backed(op.prop, op.next)
  /\ op.kind = "execute" => Backed(op.prop, "approved")

Grant ==
  /\ \A a \in Actors : PendingOK(ops[a])
  /\ LogComplete =>
       /\ \A i \in DOMAIN audit : Authorised(audit[i])
       /\ \A a \in Actors : OpBacked(ops[a])
       /\ \A p \in Proposals : docs[p] # NoDoc => Backed(p, docs[p])
       /\ \A p \in Proposals : runs[p] > 0 => Backed(p, "approved")
       /\ \A i \in DOMAIN audit :
            audit[i].kind = "execution" =>
              \E j \in 1..(i - 1) : Records(j, audit[i].prop, "approved")

-----------------------------------------------------------------------------
(* Lemmas about the operators of the model. *)

(* apply_confirmation_policy leaves a proposal waiting or approved. *)
LEMMA PolicyTargetIsPublishable ==
  ASSUME NEW risk, NEW policy
  PROVE  PolicyTarget(risk, policy) \in {"awaiting_confirmation", "approved"}
  BY DEF PolicyTarget

(* Submission has two or four events to append. *)
LEMMA SubmissionEventsType ==
  ASSUME NEW p \in Proposals, NEW valid \in BOOLEAN
  PROVE  /\ SubmissionEvents(p, valid) \in Seq(Event)
         /\ SubmissionEvents(p, valid) # <<>>
  <1>1. \A to \in Statuses \cup {NoDoc} :
          /\ Ev(p, "created", to) \in Event
          /\ Ev(p, "validation", to) \in Event
          /\ Ev(p, "transition", to) \in Event
          /\ Ev(p, "policy", to) \in Event
    BY DEF Ev, Event
  <1>2. PolicyTarget(terms[p][1], terms[p][2]) \in Statuses
    BY PolicyTargetIsPublishable DEF Statuses
  <1>3. {"proposed", "validated"} \subseteq Statuses
    BY DEF Statuses
  <1> QED
    BY <1>1, <1>2, <1>3 DEF SubmissionEvents

(* An idle actor holds no operation. *)
LEMMA IdleType == Idle \in OpSet
  BY DEF Idle, OpSet

(* The tail of a long enough queue of events is a queue of events. *)
LEMMA TailType ==
  ASSUME NEW S, NEW s \in Seq(S), Len(s) > 1
  PROVE  /\ Tail(s) \in Seq(S)
         /\ Tail(s) # <<>>
         /\ Len(Tail(s)) = Len(s) - 1
         /\ \A k \in DOMAIN Tail(s) : k + 1 \in DOMAIN s /\ Tail(s)[k] = s[k + 1]
  <1>1. s # <<>>
    OBVIOUS
  <1>2. /\ Tail(s) \in Seq(S)
        /\ Len(Tail(s)) = Len(s) - 1
        /\ \A k \in 1..Len(Tail(s)) : Tail(s)[k] = s[k + 1]
    BY <1>1, HeadTailProperties
  <1>3. Len(s) \in Nat /\ DOMAIN s = 1..Len(s)
    OBVIOUS
  <1>4. DOMAIN Tail(s) = 1..(Len(s) - 1)
    BY <1>2
  <1>5. Tail(s) # <<>>
    <2>1. \A t \in Seq(S) : Len(t) > 0 => t # <<>>
      OBVIOUS
    <2>2. Len(Tail(s)) > 0
      BY <1>2, <1>3
    <2> QED
      BY <1>2, <2>1, <2>2
  <1>6. \A k \in 1..(Len(s) - 1) :
          k \in 1..Len(Tail(s)) /\ k + 1 \in 1..Len(s)
    BY <1>2, <1>3
  <1> QED
    BY <1>2, <1>3, <1>4, <1>5, <1>6

(* Appending one event keeps an operation well formed. *)
LEMMA AfterAppendType ==
  ASSUME NEW op \in OpSet, op.prop \in Proposals, op.kind # "none",
         op.pending # <<>>
  PROVE  OpShape(AfterAppend(op))
  <1>1. CASE Len(op.pending) > 1
    <2>1. AfterAppend(op) =
            [op EXCEPT !.pc = "inspect", !.pending = Tail(op.pending)]
      BY <1>1 DEF AfterAppend
    <2>2. op.pending \in Seq(Event)
      BY DEF OpSet
    <2>3. Tail(op.pending) \in Seq(Event) /\ Tail(op.pending) # <<>>
      BY <1>1, <2>2, TailType
    <2> QED
      BY <2>1, <2>3 DEF OpSet, OpShape
  <1>2. CASE ~(Len(op.pending) > 1) /\ op.next = NoDoc
    <2>1. AfterAppend(op) = Idle
      BY <1>2 DEF AfterAppend
    <2> QED
      BY <2>1, IdleType DEF Idle, OpShape
  <1>3. CASE ~(Len(op.pending) > 1) /\ op.next # NoDoc
    <2>1. PICK pc \in {"create", "check"} :
            /\ AfterAppend(op) = [op EXCEPT !.pc = pc, !.pending = <<>>]
            /\ pc = "create" => op.kind = "submit"
            /\ pc = "check" => op.kind # "submit"
      BY <1>3 DEF AfterAppend
    <2>2. <<>> \in Seq(Event)
      OBVIOUS
    <2>3. /\ AfterAppend(op).pc = pc /\ AfterAppend(op).prop = op.prop
          /\ AfterAppend(op).kind = op.kind
      BY <2>1 DEF OpSet
    <2> QED
      BY <2>1, <2>2, <2>3 DEF OpSet, OpShape
  <1> QED
    BY <1>1, <1>2, <1>3

-----------------------------------------------------------------------------
(* Layer 1: Shape. *)

(* The stores and counters keep their types. *)
StoresTyped ==
  /\ terms \in [Proposals -> TermsChoices]
  /\ submitted \subseteq Proposals
  /\ docs \in [Proposals -> Statuses \cup {NoDoc}]
  /\ audit \in Seq(Event)
  /\ health \in {"sound", "forked", "torn"}
  /\ runs \in [Proposals -> Nat]
  /\ cut \in [Proposals -> Nat]
  /\ begun \in Nat
  /\ faults \in Nat

LEMMA InitShape == Init => Shape
  BY IdleType DEF Init, Shape, OpShape, TypeOK, Idle

(* A step that puts a well formed operation in place of an actor's own     *)
(* keeps the shape of all.                                                 *)
LEMMA UpdateShape ==
  ASSUME Shape, NEW a \in Actors, NEW op, OpShape(op),
         ops' = [ops EXCEPT ![a] = op], StoresTyped'
  PROVE  Shape'
  <1>1. ops \in [Actors -> OpSet] /\ op \in OpSet
    BY DEF Shape, TypeOK, OpShape
  <1>2. ops' \in [Actors -> OpSet]
    BY <1>1
  <1>3. \A b \in Actors : ops'[b] = IF b = a THEN op ELSE ops[b]
    BY <1>1
  <1>4. \A b \in Actors : OpShape(ops'[b])
    BY <1>3 DEF Shape
  <1> QED
    BY <1>2, <1>4 DEF Shape, TypeOK, StoresTyped, OpShape, OpSet, Event

(* An actor that stops is idle, and the count of cut operations is typed.  *)
LEMMA StopShape ==
  ASSUME Shape, NEW a \in Actors, Running(a), Finish(a) \/ CutShort(a)
  PROVE  /\ ops' = [ops EXCEPT ![a] = Idle]
         /\ OpShape(Idle)
         /\ cut' \in [Proposals -> Nat]
  <1>1. /\ ops \in [Actors -> OpSet]
        /\ cut \in [Proposals -> Nat]
        /\ ops[a].prop \in Proposals
    BY DEF Shape, TypeOK, OpShape, Running
  <1>2. OpShape(Idle)
    BY IdleType DEF OpShape, Idle
  <1>3. CASE Finish(a)
    BY <1>1, <1>2, <1>3 DEF Finish
  <1>4. CASE CutShort(a)
    <2>1. cut' = [cut EXCEPT ![ops[a].prop] = @ + 1]
      BY <1>4 DEF CutShort
    <2>2. cut' \in [Proposals -> Nat]
      BY <1>1, <2>1
    <2> QED
      BY <1>2, <1>4, <2>2 DEF CutShort
  <1> QED
    BY <1>3, <1>4

(* What an operation begins as. *)
LEMMA BeginningsShape ==
  ASSUME Shape, NEW p \in Proposals
  PROVE  /\ \A valid \in BOOLEAN : OpShape(Submission(p, valid))
         /\ \A d \in Decisions : OpShape(Decision(p, d))
         /\ OpShape(Execution(p))
  <1>1. docs[p] \in Statuses \cup {NoDoc} /\ <<>> \in Seq(Event)
    BY DEF Shape, TypeOK
  <1>2. ASSUME NEW valid \in BOOLEAN PROVE OpShape(Submission(p, valid))
    BY PolicyTargetIsPublishable, SubmissionEventsType
       DEF Submission, OpShape, OpSet, Idle, Statuses
  <1>3. ASSUME NEW d \in Decisions PROVE OpShape(Decision(p, d))
    <2>1. DecisionTarget(d) \in Statuses
      BY DEF DecisionTarget, Decisions, Statuses
    <2>2. <<Ev(p, "decision", DecisionTarget(d))>> \in Seq(Event)
      BY <2>1 DEF Ev, Event
    <2>3. <<Ev(p, "decision", DecisionTarget(d))>> # <<>>
      OBVIOUS
    <2> QED
      BY <1>1, <2>1, <2>2, <2>3 DEF Decision, OpShape, OpSet, Idle
  <1>4. OpShape(Execution(p))
    BY <1>1 DEF Execution, OpShape, OpSet, Idle
  <1> QED
    BY <1>2, <1>3, <1>4

LEMMA BeginShape ==
  ASSUME Shape, NEW a \in Actors, BeginStep(a)
  PROVE  Shape'
  <1>1. StoresTyped
    BY DEF Shape, TypeOK, StoresTyped
  <1>2. PICK p \in Proposals :
          \/ BeginSubmit(a, p)
          \/ \E d \in Decisions : BeginDecision(a, p, d)
          \/ BeginExecution(a, p)
    BY DEF BeginStep
  <1>3. CASE BeginSubmit(a, p)
    <2>1. StoresTyped'
      BY <1>1, <1>3 DEF BeginSubmit, Begin, StoresTyped
    <2>2. PICK valid \in BOOLEAN : ops' = [ops EXCEPT ![a] = Submission(p, valid)]
      BY <1>3 DEF BeginSubmit, Begin
    <2> QED
      BY <2>1, <2>2, BeginningsShape, UpdateShape
  <1>4. CASE \E d \in Decisions : BeginDecision(a, p, d)
    <2>1. StoresTyped'
      BY <1>1, <1>4 DEF BeginDecision, Begin, StoresTyped
    <2>2. PICK d \in Decisions : ops' = [ops EXCEPT ![a] = Decision(p, d)]
      BY <1>4 DEF BeginDecision, Begin
    <2> QED
      BY <2>1, <2>2, BeginningsShape, UpdateShape
  <1>5. CASE BeginExecution(a, p)
    <2>1. StoresTyped' /\ ops' = [ops EXCEPT ![a] = Execution(p)]
      BY <1>1, <1>5 DEF BeginExecution, Begin, StoresTyped
    <2> QED
      BY <2>1, BeginningsShape, UpdateShape
  <1> QED
    BY <1>2, <1>3, <1>4, <1>5

(* Execution ends in one of the two outcomes of a handler. *)
LEMMA ExecutionTargetsAre == ExecutionTargets = {"succeeded", "failed"}
  BY DEF ExecutionTargets, CanTransition, Transitions, TerminalStatuses, Statuses

LEMMA ContinueShape ==
  ASSUME Shape, NEW a \in Actors, Continue(a)
  PROVE  Shape'
  <1>1. StoresTyped /\ OpShape(ops[a]) /\ ops \in [Actors -> OpSet]
    BY DEF Shape, TypeOK, StoresTyped
  <1>2. CASE InvokeHandler(a)
    <2>1. ops[a].prop \in Proposals /\ runs \in [Proposals -> Nat]
      BY <1>1, <1>2 DEF InvokeHandler, OpShape, StoresTyped
    <2>2. runs' \in [Proposals -> Nat]
      BY <2>1, <1>2 DEF InvokeHandler
    <2>3. StoresTyped'
      BY <1>1, <1>2, <2>2 DEF InvokeHandler, StoresTyped
    <2>4. ops' = [ops EXCEPT ![a] = [ops[a] EXCEPT !.pc = "handling"]]
      BY <1>2 DEF InvokeHandler
    <2>5. OpShape([ops[a] EXCEPT !.pc = "handling"])
      BY <1>1, <1>2 DEF InvokeHandler, OpShape, OpSet
    <2> QED
      BY <2>3, <2>4, <2>5, UpdateShape
  <1>3. CASE \E to \in ExecutionTargets : HandlerReturns(a, to)
    <2>1. PICK to \in ExecutionTargets : HandlerReturns(a, to)
      BY <1>3
    <2> DEFINE op == [ops[a] EXCEPT
             !.pc = "inspect", !.next = to,
             !.pending = <<Ev(ops[a].prop, "execution", to)>>]
    <2>2. ops[a].prop \in Proposals /\ to \in Statuses
      BY <1>1, <2>1, ExecutionTargetsAre DEF HandlerReturns, OpShape, Statuses
    <2>3. <<Ev(ops[a].prop, "execution", to)>> \in Seq(Event)
      BY <2>2 DEF Ev, Event
    <2>4. <<Ev(ops[a].prop, "execution", to)>> # <<>>
      OBVIOUS
    <2>5. OpShape(op)
      <3>1. ops[a] \in OpSet /\ ops[a].kind = "execute"
        BY <1>1, <2>1 DEF OpShape, HandlerReturns
      <3>2. op \in OpSet
        BY <2>2, <2>3, <3>1 DEF OpSet
      <3>3. /\ op.pc = "inspect" /\ op.kind = "execute"
            /\ op.prop = ops[a].prop
            /\ op.pending = <<Ev(ops[a].prop, "execution", to)>>
        BY <3>1 DEF OpSet
      <3> HIDE DEF op
      <3> QED
        BY <2>2, <2>4, <3>2, <3>3 DEF OpShape
    <2>6. ops' = [ops EXCEPT ![a] = op]
      BY <2>1 DEF HandlerReturns
    <2>7. StoresTyped'
      BY <1>1, <2>1 DEF HandlerReturns, StoresTyped
    <2> HIDE DEF op
    <2> QED
      BY <2>5, <2>6, <2>7, UpdateShape
  <1>4. CASE InspectLog(a)
    <2> DEFINE op == [ops[a] EXCEPT !.pc = "write", !.tail = Len(audit)]
    <2>1. OpShape(op)
      <3>1. Len(audit) \in Nat
        BY <1>1 DEF StoresTyped
      <3> QED
        BY <1>1, <1>4, <3>1 DEF InspectLog, OpShape, OpSet
    <2>2. StoresTyped' /\ ops' = [ops EXCEPT ![a] = op]
      BY <1>1, <1>4 DEF InspectLog, StoresTyped
    <2> HIDE DEF op
    <2> QED
      BY <2>1, <2>2, UpdateShape
  <1>5. CASE RefuseDamagedLog(a)
    <2>1. Running(a) /\ CutShort(a)
      BY <1>5 DEF RefuseDamagedLog, Running
    <2>2. StoresTyped'
      BY <1>1, <1>5, <2>1, StopShape DEF RefuseDamagedLog, StoresTyped
    <2> QED
      BY <2>1, <2>2, StopShape, UpdateShape
  <1>6. CASE WriteEnvelope(a)
    <2>1. OpShape(AfterAppend(ops[a]))
      BY <1>1, <1>6, AfterAppendType DEF WriteEnvelope, OpShape
    <2>2. Head(ops[a].pending) \in Event
      BY <1>1, <1>6, HeadTailProperties DEF WriteEnvelope, OpShape, OpSet
    <2>3. StoresTyped'
      <3>1. audit' \in Seq(Event)
        BY <1>1, <1>6, <2>2 DEF WriteEnvelope, StoresTyped
      <3>2. health' \in {"sound", "forked", "torn"}
        BY <1>1, <1>6 DEF WriteEnvelope, StoresTyped
      <3> QED
        BY <1>1, <1>6, <3>1, <3>2 DEF WriteEnvelope, StoresTyped
    <2>4. ops' = [ops EXCEPT ![a] = AfterAppend(ops[a])]
      BY <1>6 DEF WriteEnvelope
    <2> QED
      BY <2>1, <2>3, <2>4, UpdateShape
  <1>7. CASE CreateDocument(a)
    <2>1. Running(a) /\ (Finish(a) \/ CutShort(a))
      BY <1>7 DEF CreateDocument, Running
    <2>2. docs' \in [Proposals -> Statuses \cup {NoDoc}]
      BY <1>1, <1>7 DEF CreateDocument, OpShape, OpSet, StoresTyped
    <2>3. StoresTyped'
      BY <1>1, <1>7, <2>1, <2>2, StopShape DEF CreateDocument, StoresTyped
    <2> QED
      BY <2>1, <2>3, StopShape, UpdateShape
  <1>8. CASE CheckDocument(a)
    <2> DEFINE op == [ops[a] EXCEPT !.pc = "swap"]
    <2>1. OpShape(op)
      BY <1>1, <1>8 DEF CheckDocument, OpShape, OpSet
    <2>2. StoresTyped' /\ ops' = [ops EXCEPT ![a] = op]
      BY <1>1, <1>8 DEF CheckDocument, StoresTyped
    <2> HIDE DEF op
    <2> QED
      BY <2>1, <2>2, UpdateShape
  <1>9. CASE RefuseConflict(a)
    <2>1. Running(a) /\ CutShort(a)
      BY <1>9 DEF RefuseConflict, Running
    <2>2. StoresTyped'
      BY <1>1, <1>9, <2>1, StopShape DEF RefuseConflict, StoresTyped
    <2> QED
      BY <2>1, <2>2, StopShape, UpdateShape
  <1>10. CASE ReplaceDocument(a)
    <2> DEFINE op == [ops[a] EXCEPT !.pc = "readback"]
    <2>1. OpShape(op)
      BY <1>1, <1>10 DEF ReplaceDocument, OpShape, OpSet
    <2>2. docs' \in [Proposals -> Statuses \cup {NoDoc}]
      BY <1>1, <1>10 DEF ReplaceDocument, OpShape, OpSet, StoresTyped
    <2>3. StoresTyped' /\ ops' = [ops EXCEPT ![a] = op]
      BY <1>1, <1>10, <2>2 DEF ReplaceDocument, StoresTyped
    <2> HIDE DEF op
    <2> QED
      BY <2>1, <2>3, UpdateShape
  <1>11. CASE ReadBack(a)
    <2>1. Running(a) /\ (Finish(a) \/ CutShort(a))
      BY <1>11 DEF ReadBack, Running
    <2>2. StoresTyped'
      BY <1>1, <1>11, <2>1, StopShape DEF ReadBack, StoresTyped
    <2> QED
      BY <2>1, <2>2, StopShape, UpdateShape
  <1> QED
    BY <1>2, <1>3, <1>4, <1>5, <1>6, <1>7, <1>8, <1>9, <1>10, <1>11 DEF Continue

LEMMA FailShape ==
  ASSUME Shape, NEW a \in Actors, Fail(a)
  PROVE  Shape'
  <1>1. StoresTyped /\ OpShape(ops[a])
    BY DEF Shape, TypeOK, StoresTyped
  <1>2. Running(a) /\ CutShort(a) /\ Fault
    BY <1>1 DEF Fail, AppendFails, AppendTears, AppendUnreported, PublishFails,
                PublishUnreported, Crash, Running, OpShape
  <1>3. /\ ops' = [ops EXCEPT ![a] = Idle] /\ OpShape(Idle)
        /\ cut' \in [Proposals -> Nat]
    BY <1>2, StopShape
  <1>4. faults' \in Nat
    BY <1>1, <1>2 DEF Fault, StoresTyped
  <1>5. CASE AppendTears(a)
    BY <1>1, <1>3, <1>4, <1>5, UpdateShape DEF AppendTears, StoresTyped
  <1>6. CASE AppendUnreported(a)
    <2>1. Head(ops[a].pending) \in Event
      BY <1>1, <1>6, HeadTailProperties DEF AppendUnreported, OpShape, OpSet
    <2>2. audit' \in Seq(Event)
      BY <1>1, <1>6, <2>1 DEF AppendUnreported, StoresTyped
    <2>3. StoresTyped'
      BY <1>1, <1>3, <1>4, <1>6, <2>2 DEF AppendUnreported, StoresTyped
    <2> QED
      BY <1>3, <2>3, UpdateShape
  <1>7. CASE PublishUnreported(a)
    <2>1. docs' \in [Proposals -> Statuses \cup {NoDoc}]
      BY <1>1, <1>7 DEF PublishUnreported, OpShape, OpSet, StoresTyped
    <2>2. StoresTyped'
      BY <1>1, <1>3, <1>4, <1>7, <2>1 DEF PublishUnreported, StoresTyped
    <2> QED
      BY <1>3, <2>2, UpdateShape
  <1>8. CASE AppendFails(a) \/ PublishFails(a) \/ Crash(a)
    <2>1. StoresTyped'
      BY <1>1, <1>3, <1>4, <1>8
         DEF AppendFails, PublishFails, Crash, StoresTyped
    <2> QED
      BY <1>3, <2>1, UpdateShape
  <1> QED
    BY <1>5, <1>6, <1>7, <1>8 DEF Fail

LEMMA NextShape ==
  ASSUME Shape, [Next]_vars
  PROVE  Shape'
  <1>1. CASE UNCHANGED vars
    BY <1>1 DEF Shape, OpShape, OpSet, TypeOK, vars, Event
  <1>2. CASE Next
    BY <1>2, BeginShape, ContinueShape, FailShape DEF Next
  <1> QED
    BY <1>1, <1>2

(* The shape of every operation between its steps, on which the other      *)
(* layers rest: what an actor holds agrees with where it is.               *)
THEOREM ShapeInvariant == Spec => []Shape
  BY InitShape, NextShape, PTL DEF Spec

(* Every variable keeps its type, for any number of actors, proposals,     *)
(* operations and faults.                                                  *)
THEOREM TypeCorrect == Spec => []TypeOK
  <1>1. Shape => TypeOK
    BY DEF Shape
  <1> QED
    BY <1>1, ShapeInvariant, PTL

-----------------------------------------------------------------------------
(* Layer 2: Discipline. *)

(* A step belongs to one actor, and only a running operation continues or  *)
(* fails.                                                                  *)
LEMMA StepOfOne ==
  ASSUME Shape, NEW a \in Actors, BeginStep(a) \/ Continue(a) \/ Fail(a)
  PROVE  /\ \A b \in Actors : b # a => ops'[b] = ops[b]
         /\ Continue(a) \/ Fail(a) => Running(a)
  <1>1. ops \in [Actors -> OpSet] /\ OpShape(ops[a])
    BY DEF Shape, TypeOK
  <1>2. CASE BeginStep(a)
    <2>1. PICK op : ops' = [ops EXCEPT ![a] = op]
      BY <1>2 DEF BeginStep, BeginSubmit, BeginDecision, BeginExecution, Begin
    <2>2. ops[a] = Idle
      BY <1>2 DEF BeginStep, BeginSubmit, BeginDecision, BeginExecution, MayBegin
    <2>3. ~(Continue(a) \/ Fail(a))
      BY <2>2 DEF Idle, Continue, Fail, InvokeHandler, HandlerReturns,
           InspectLog, RefuseDamagedLog, WriteEnvelope, CreateDocument,
           CheckDocument, RefuseConflict, ReplaceDocument, ReadBack,
           AppendFails, AppendTears, AppendUnreported, PublishFails,
           PublishUnreported, Crash
    <2> QED
      BY <1>1, <2>1, <2>3
  <1>3. CASE Continue(a)
    <2>1. PICK op : ops' = [ops EXCEPT ![a] = op]
      BY <1>3 DEF Continue, InvokeHandler, HandlerReturns,
           InspectLog, RefuseDamagedLog, WriteEnvelope, CreateDocument,
           CheckDocument, RefuseConflict, ReplaceDocument, ReadBack,
           Finish, CutShort
    <2>2. Running(a)
      BY <1>3 DEF Running, Continue, InvokeHandler, HandlerReturns,
           InspectLog, RefuseDamagedLog, WriteEnvelope, CreateDocument,
           CheckDocument, RefuseConflict, ReplaceDocument, ReadBack
    <2> QED
      BY <1>1, <2>1, <2>2
  <1>4. CASE Fail(a)
    <2>1. ops' = [ops EXCEPT ![a] = Idle]
      BY <1>4 DEF Fail, AppendFails, AppendTears, AppendUnreported,
           PublishFails, PublishUnreported, Crash, CutShort
    <2>2. Running(a)
      BY <1>1, <1>4 DEF OpShape, Running, Fail, AppendFails, AppendTears,
           AppendUnreported, PublishFails, PublishUnreported, Crash
    <2> QED
      BY <1>1, <2>1, <2>2
  <1> QED
    BY <1>2, <1>3, <1>4

LEMMA InitDiscipline == Init => Discipline
  BY DEF Init, Discipline, Running, Idle

LEMMA NextDiscipline ==
  ASSUME Shape, Discipline, [Next]_vars
  PROVE  Discipline'
  <1> SUFFICES ASSUME Exclusive, Next
               PROVE  Discipline'
    BY DEF Discipline, Running, vars
  <1>1. PICK a \in Actors : BeginStep(a) \/ Continue(a) \/ Fail(a)
    BY DEF Next
  <1>2. \A b \in Actors : b # a => ops'[b] = ops[b]
    BY <1>1, StepOfOne
  <1>3. \A b \in Actors : b # a => ~Running(b)
    <2>1. CASE BeginStep(a)
      BY <2>1 DEF BeginStep, BeginSubmit, BeginDecision, BeginExecution,
                  MayBegin, Running, Idle
    <2>2. CASE Continue(a) \/ Fail(a)
      BY <2>2, StepOfOne DEF Discipline
    <2> QED
      BY <1>1, <2>1, <2>2
  <1>4. \A b \in Actors : b # a => ~Running(b)'
    BY <1>2, <1>3 DEF Running
  <1>5. (ops[a].pc = "write")' => (health # "torn")'
    <2>1. ops \in [Actors -> OpSet] /\ OpShape(ops[a])
      BY DEF Shape, TypeOK
    <2>2. CASE BeginStep(a)
      <3>1. PICK op :
              /\ ops' = [ops EXCEPT ![a] = op]
              /\ \E p \in Proposals :
                   \/ \E valid \in BOOLEAN : op = Submission(p, valid)
                   \/ \E d \in Decisions : op = Decision(p, d)
                   \/ op = Execution(p)
        BY <2>2 DEF BeginStep, BeginSubmit, BeginDecision, BeginExecution, Begin
      <3>2. op.pc # "write"
        BY <3>1 DEF Submission, Decision, Execution, Idle
      <3> QED
        BY <2>1, <3>1, <3>2
    <2>3. CASE InspectLog(a)
      BY <2>1, <2>3 DEF InspectLog
    <2>4. CASE WriteEnvelope(a)
      <3>1. ops'[a] = AfterAppend(ops[a])
        BY <2>1, <2>4 DEF WriteEnvelope
      <3>2. AfterAppend(ops[a]).pc # "write"
        BY <2>1 DEF AfterAppend, Idle, OpShape, OpSet
      <3> QED
        BY <3>1, <3>2
    <2>5. CASE \/ RefuseDamagedLog(a) \/ CreateDocument(a)
               \/ RefuseConflict(a) \/ ReadBack(a)
      <3>1. ops' = [ops EXCEPT ![a] = Idle]
        BY <2>5 DEF RefuseDamagedLog, CreateDocument, RefuseConflict, ReadBack,
                    Finish, CutShort
      <3> QED
        BY <2>1, <3>1 DEF Idle
    <2>6. CASE \/ InvokeHandler(a) \/ CheckDocument(a) \/ ReplaceDocument(a)
               \/ \E to \in ExecutionTargets : HandlerReturns(a, to)
      <3>1. CASE InvokeHandler(a) \/ CheckDocument(a) \/ ReplaceDocument(a)
        BY <2>1, <3>1 DEF InvokeHandler, CheckDocument, ReplaceDocument,
                          OpShape, OpSet
      <3>2. CASE \E to \in ExecutionTargets : HandlerReturns(a, to)
        <4>1. PICK to \in ExecutionTargets : HandlerReturns(a, to)
          BY <3>2
        <4> QED
          BY <2>1, <4>1 DEF HandlerReturns, OpShape, OpSet
      <3> QED
        BY <2>6, <3>1, <3>2
    <2>7. CASE Fail(a)
      <3>1. ops' = [ops EXCEPT ![a] = Idle]
        BY <2>7 DEF Fail, AppendFails, AppendTears, AppendUnreported,
             PublishFails, PublishUnreported, Crash, CutShort
      <3> QED
        BY <2>1, <3>1 DEF Idle
    <2> QED
      BY <1>1, <2>2, <2>3, <2>4, <2>5, <2>6, <2>7 DEF Continue
  <1> QED
    BY <1>4, <1>5 DEF Discipline, Running

-----------------------------------------------------------------------------
(* Layer 3: Grant. *)

(* The policy approves on its own only what needs no human. *)
LEMMA PolicyApprovesWithoutHuman ==
  ASSUME NEW t \in Risks \X Policies, PolicyTarget(t[1], t[2]) = "approved"
  PROVE  t \in NoHumanNeeded
  <1>1. PICK r \in Risks, q \in Policies : t = <<r, q>>
    OBVIOUS
  <1>2. ~Required(r, q)
    BY <1>1 DEF PolicyTarget
  <1> QED
    BY <1>1, <1>2 DEF Required, NoHumanNeeded, Risks, Policies

(* How a step of a may touch the stores: the log only grows, by the event  *)
(* a is appending; a document only takes the status a is publishing; and a *)
(* handler only runs for an execution.                                     *)
LogStep(a) ==
  \/ audit' = audit
  \/ Appending(a) /\ audit' = Append(audit, Head(ops[a].pending))

StoreStep(a) ==
  /\ terms' = terms
  /\ LogComplete' => LogComplete
  /\ LogStep(a)
  /\ \A p \in Proposals : docs'[p] # docs[p] =>
       /\ p = ops[a].prop /\ docs'[p] = ops[a].next
       /\ ops[a].pc \in {"create", "swap"}
  /\ \A p \in Proposals : runs'[p] > 0 =>
       runs[p] > 0 \/ (p = ops[a].prop /\ ops[a].kind = "execute")

(* What the log holds it keeps, at the same place. *)
LEMMA LogGrows ==
  ASSUME Shape, NEW a \in Actors, LogStep(a)
  PROVE  /\ audit' \in Seq(Event)
         /\ \A i \in DOMAIN audit : i \in DOMAIN audit' /\ audit'[i] = audit[i]
         /\ \A i \in DOMAIN audit' \ DOMAIN audit :
              /\ i = Len(audit) + 1
              /\ Appending(a)
              /\ ops[a].pending # <<>>
              /\ audit'[i] = ops[a].pending[1]
         /\ \A p, s : Backed(p, s) => Backed(p, s)'
  <1>1. audit \in Seq(Event) /\ OpShape(ops[a])
    BY DEF Shape, TypeOK
  <1>2. CASE audit' = audit
    BY <1>1, <1>2 DEF Backed, Records
  <1>3. CASE Appending(a) /\ audit' = Append(audit, Head(ops[a].pending))
    <2>1. ops[a].pending # <<>> /\ ops[a].pending \in Seq(Event)
      BY <1>1, <1>3 DEF OpShape, OpSet, Appending
    <2>2. /\ Head(ops[a].pending) \in Event
          /\ Head(ops[a].pending) = ops[a].pending[1]
      BY <2>1, HeadTailProperties
    <2>3. /\ audit' \in Seq(Event)
          /\ DOMAIN audit' = 1..(Len(audit) + 1)
          /\ DOMAIN audit = 1..Len(audit)
          /\ Len(audit) \in Nat
          /\ \A i \in 1..Len(audit) : audit'[i] = audit[i]
          /\ audit'[Len(audit) + 1] = Head(ops[a].pending)
      BY <1>1, <1>3, <2>2
    <2>4. \A i \in DOMAIN audit : i \in DOMAIN audit' /\ audit'[i] = audit[i]
      BY <2>3
    <2>5. \A p, s : Backed(p, s) => Backed(p, s)'
      BY <2>4 DEF Backed, Records
    <2>6. \A i \in DOMAIN audit' \ DOMAIN audit : i = Len(audit) + 1
      BY <2>3
    <2> QED
      BY <1>3, <2>1, <2>2, <2>3, <2>4, <2>5, <2>6
  <1> QED
    BY <1>2, <1>3 DEF LogStep

(* A step that touches the stores in these ways, and leaves its actor with *)
(* an operation that is in order, keeps Grant.                             *)
LEMMA UpdateGrant ==
  ASSUME Shape, Grant, NEW a \in Actors, NEW op,
         ops' = [ops EXCEPT ![a] = op], StoreStep(a),
         PendingOK(op), LogComplete' => OpBacked(op)'
  PROVE  Grant'
  <1>1. /\ ops \in [Actors -> OpSet]
        /\ audit \in Seq(Event)
        /\ OpShape(ops[a])
        /\ terms' = terms
        /\ PendingOK(ops[a])
    BY DEF Shape, TypeOK, StoreStep, Grant
  <1>2. \A b \in Actors : ops'[b] = IF b = a THEN op ELSE ops[b]
    BY <1>1
  <1>3. \A b \in Actors : PendingOK(ops[b])'
    BY <1>1, <1>2 DEF Grant, PendingOK, Authorised
  <1>4. SUFFICES ASSUME LogComplete'
                 PROVE  /\ \A i \in DOMAIN audit' : Authorised(audit[i])'
                        /\ \A b \in Actors : OpBacked(ops[b])'
                        /\ \A p \in Proposals :
                             docs'[p] # NoDoc => Backed(p, docs[p])'
                        /\ \A p \in Proposals :
                             runs'[p] > 0 => Backed(p, "approved")'
                        /\ \A i \in DOMAIN audit' :
                             audit'[i].kind = "execution" =>
                               \E j \in 1..(i - 1) :
                                 Records(j, audit[i].prop, "approved")'
    BY <1>3 DEF Grant
  <1>5. LogComplete /\ LogStep(a)
    BY <1>4 DEF StoreStep
  <1>6. /\ \A i \in DOMAIN audit : i \in DOMAIN audit' /\ audit'[i] = audit[i]
        /\ \A i \in DOMAIN audit' \ DOMAIN audit :
              /\ i = Len(audit) + 1
              /\ Appending(a)
              /\ ops[a].pending # <<>>
              /\ audit'[i] = ops[a].pending[1]
        /\ \A p, s : Backed(p, s) => Backed(p, s)'
    BY <1>5, LogGrows
  <1>7. \A b \in Actors : OpBacked(ops[b])
    BY <1>5 DEF Grant
  <1>8. \A b \in Actors : OpBacked(ops[b])'
    <2>1. TAKE b \in Actors
    <2>2. CASE b = a
      BY <1>2, <1>4, <2>2 DEF OpBacked
    <2>3. CASE b # a
      BY <1>2, <1>6, <1>7, <2>3 DEF OpBacked
    <2> QED
      BY <2>2, <2>3
  <1>9. 1 \in DOMAIN ops[a].pending \/ ops[a].pending = <<>>
    <2>1. ops[a].pending \in Seq(Event)
      BY <1>1 DEF OpShape, OpSet
    <2> QED
      BY <2>1
  <1>10. \A i \in DOMAIN audit' : Authorised(audit[i])'
    BY <1>1, <1>5, <1>6, <1>9 DEF Grant, PendingOK, Authorised
  <1>11. \A p \in Proposals : docs'[p] # NoDoc => Backed(p, docs[p])'
    <2>1. TAKE p \in Proposals
    <2>2. CASE docs'[p] = docs[p]
      BY <1>5, <1>6, <2>2 DEF Grant
    <2>3. CASE docs'[p] # docs[p]
      <3>1. Backed(p, docs'[p])
        BY <1>7, <2>3 DEF StoreStep, OpBacked
      <3> QED
        BY <1>6, <3>1
    <2> QED
      BY <2>2, <2>3
  <1>12. \A p \in Proposals : runs'[p] > 0 => Backed(p, "approved")'
    BY <1>5, <1>6, <1>7 DEF Grant, StoreStep, OpBacked
  <1>13. \A i \in DOMAIN audit' :
           audit'[i].kind = "execution" =>
             \E j \in 1..(i - 1) : Records(j, audit[i].prop, "approved")'
    <2>1. SUFFICES ASSUME NEW i \in DOMAIN audit', audit'[i].kind = "execution"
                   PROVE  \E j \in 1..(i - 1) :
                            /\ audit'[j].prop = audit'[i].prop
                            /\ audit'[j].to = "approved"
      BY DEF Records
    <2>2. DOMAIN audit = 1..Len(audit) /\ Len(audit) \in Nat
      BY <1>1
    <2>3. CASE i \in DOMAIN audit
      <3>1. PICK j \in 1..(i - 1) : Records(j, audit[i].prop, "approved")
        BY <1>5, <1>6, <2>1, <2>3 DEF Grant
      <3>2. j \in DOMAIN audit
        BY <2>2, <2>3
      <3> QED
        BY <1>6, <2>3, <3>1, <3>2 DEF Records
    <2>4. CASE i \notin DOMAIN audit
      <3>1. /\ i = Len(audit) + 1
            /\ 1 \in DOMAIN ops[a].pending
            /\ audit'[i] = ops[a].pending[1]
        BY <1>6, <1>9, <2>4
      <3>2. audit'[i].prop = ops[a].prop /\ ops[a].kind = "execute"
        BY <1>1, <2>1, <3>1 DEF PendingOK
      <3>3. PICK j \in DOMAIN audit : Records(j, ops[a].prop, "approved")
        BY <1>7, <3>2 DEF OpBacked, Backed
      <3>4. j \in 1..(i - 1)
        BY <2>2, <3>1
      <3> QED
        BY <1>6, <3>2, <3>3, <3>4 DEF Records
    <2> QED
      BY <2>3, <2>4
  <1> QED
    BY <1>8, <1>10, <1>11, <1>12, <1>13

LEMMA InitGrant == Init => Grant
  BY DEF Init, Grant, PendingOK, OpBacked, Idle

(* What an operation begins with is in order. *)
LEMMA BeginningsPending ==
  ASSUME Shape, NEW p \in Proposals
  PROVE  /\ \A valid \in BOOLEAN : PendingOK(Submission(p, valid))
         /\ \A d \in Decisions : PendingOK(Decision(p, d))
         /\ PendingOK(Execution(p))
  <1>1. terms[p] \in Risks \X Policies
    BY ConstantsAssumption DEF Shape, TypeOK
  <1>2. PendingOK(Submission(p, TRUE))
    <2> DEFINE to == PolicyTarget(terms[p][1], terms[p][2])
    <2>1. Authorised(Ev(p, "policy", to))
      BY <1>1, PolicyApprovesWithoutHuman DEF Authorised, Ev
    <2> DEFINE events ==
          <<Ev(p, "created", "proposed"), Ev(p, "validation", "proposed"),
            Ev(p, "transition", "validated"), Ev(p, "policy", to)>>
    <2>2. \A k \in 1..4 : /\ events[k].prop = p
                          /\ Authorised(events[k])
                          /\ events[k].kind # "execution"
      BY <2>1 DEF Authorised, Ev
    <2>3. Len(events) = 4 /\ DOMAIN events = 1..4 /\ events[4].to = to
      BY DEF Ev
    <2>4. /\ Submission(p, TRUE).pending = events
          /\ Submission(p, TRUE).prop = p
          /\ Submission(p, TRUE).next = to
      BY DEF Submission, SubmissionEvents, Idle
    <2> HIDE DEF to, events
    <2> QED
      BY <2>2, <2>3, <2>4 DEF PendingOK
  <1>3. PendingOK(Submission(p, FALSE))
    <2> DEFINE events == <<Ev(p, "created", "proposed"),
                           Ev(p, "validation", NoDoc)>>
    <2>1. NoDoc # "approved"
      BY ConstantsAssumption DEF Statuses
    <2>2. \A k \in 1..2 : /\ events[k].prop = p
                          /\ Authorised(events[k])
                          /\ events[k].kind # "execution"
      BY <2>1 DEF Authorised, Ev
    <2>3. Len(events) = 2 /\ DOMAIN events = 1..2 /\ events[2].to = NoDoc
      BY DEF Ev
    <2>4. /\ Submission(p, FALSE).pending = events
          /\ Submission(p, FALSE).prop = p
          /\ Submission(p, FALSE).next = NoDoc
      BY DEF Submission, SubmissionEvents, Idle
    <2> HIDE DEF events
    <2> QED
      BY <2>2, <2>3, <2>4 DEF PendingOK
  <1>4. ASSUME NEW d \in Decisions PROVE PendingOK(Decision(p, d))
    <2> DEFINE to == DecisionTarget(d)
    <2>1. /\ Decision(p, d).pending = <<Ev(p, "decision", to)>>
          /\ Decision(p, d).prop = p
          /\ Decision(p, d).next = to
      BY DEF Decision, Idle
    <2> HIDE DEF to
    <2> QED
      BY <2>1 DEF PendingOK, Ev, Authorised
  <1>5. PendingOK(Execution(p))
    BY DEF PendingOK, Execution, Idle
  <1> QED
    BY <1>2, <1>3, <1>4, <1>5

LEMMA BeginGrant ==
  ASSUME Shape, Grant, NEW a \in Actors, BeginStep(a)
  PROVE  Grant'
  <1>1. PICK p \in Proposals :
          \/ BeginSubmit(a, p)
          \/ \E d \in Decisions : BeginDecision(a, p, d)
          \/ BeginExecution(a, p)
    BY DEF BeginStep
  <1>2. UNCHANGED <<terms, docs, audit, health, runs>>
    BY <1>1 DEF BeginSubmit, BeginDecision, BeginExecution
  <1>3. StoreStep(a)
    BY <1>2 DEF StoreStep, LogComplete, LogStep
  <1>4. CASE BeginSubmit(a, p)
    <2>1. PICK valid \in BOOLEAN : ops' = [ops EXCEPT ![a] = Submission(p, valid)]
      BY <1>4 DEF BeginSubmit, Begin
    <2>2. PICK op : op = Submission(p, valid)
      OBVIOUS
    <2>3. op.pc = "inspect" /\ op.kind = "submit"
      BY <2>2 DEF Submission, Idle
    <2>4. OpBacked(op)'
      BY <2>3 DEF OpBacked
    <2>5. PendingOK(op)
      BY <2>2, BeginningsPending
    <2> QED
      BY <1>3, <2>1, <2>2, <2>4, <2>5, UpdateGrant
  <1>5. CASE \E d \in Decisions : BeginDecision(a, p, d)
    <2>1. PICK d \in Decisions : ops' = [ops EXCEPT ![a] = Decision(p, d)]
      BY <1>5 DEF BeginDecision, Begin
    <2>2. PICK op : op = Decision(p, d)
      OBVIOUS
    <2>3. op.pc = "inspect" /\ op.kind = "decide"
      BY <2>2 DEF Decision, Idle
    <2>4. OpBacked(op)'
      BY <2>3 DEF OpBacked
    <2>5. PendingOK(op)
      BY <2>2, BeginningsPending
    <2> QED
      BY <1>3, <2>1, <2>2, <2>4, <2>5, UpdateGrant
  <1>6. CASE BeginExecution(a, p)
    <2>1. ops' = [ops EXCEPT ![a] = Execution(p)] /\ docs[p] = "approved"
      BY <1>6 DEF BeginExecution, Begin
    <2>2. PICK op : op = Execution(p)
      OBVIOUS
    <2>3. op.pc = "handler" /\ op.prop = p
      BY <2>2 DEF Execution, Idle
    <2>4. LogComplete' => Backed(p, "approved")'
      BY <1>2, <2>1, ConstantsAssumption
         DEF Grant, LogComplete, Backed, Records, Statuses
    <2>5. LogComplete' => OpBacked(op)'
      BY <2>3, <2>4 DEF OpBacked
    <2>6. PendingOK(op)
      BY <2>2, BeginningsPending
    <2> QED
      BY <1>3, <2>1, <2>2, <2>5, <2>6, UpdateGrant
  <1> QED
    BY <1>1, <1>4, <1>5, <1>6

(* An actor that stops leaves nothing to be in order. *)
LEMMA StopGrant ==
  ASSUME Shape, Grant, NEW a \in Actors, Finish(a) \/ CutShort(a), StoreStep(a)
  PROVE  Grant'
  <1>1. PICK op : op = Idle
    OBVIOUS
  <1>2. op.pc = "idle" /\ op.kind = "none" /\ op.pending = <<>>
    BY <1>1 DEF Idle
  <1>3. PendingOK(op) /\ OpBacked(op)'
    BY <1>2 DEF PendingOK, OpBacked
  <1>4. ops' = [ops EXCEPT ![a] = op]
    BY <1>1 DEF Finish, CutShort
  <1> QED
    BY <1>3, <1>4, UpdateGrant

(* The append of one event: what the operation becomes is in order, and    *)
(* once its last event is in the log it may publish.                       *)
LEMMA WriteGrant ==
  ASSUME Shape, Discipline, Grant, NEW a \in Actors, WriteEnvelope(a)
  PROVE  Grant'
  <1>1. /\ OpShape(ops[a]) /\ PendingOK(ops[a])
        /\ audit \in Seq(Event)
        /\ LogComplete => OpBacked(ops[a])
    BY DEF Shape, TypeOK, Grant
  <1>2. /\ ops[a].pending \in Seq(Event)
        /\ ops[a].pending # <<>>
        /\ Appending(a)
    BY <1>1 DEF OpShape, OpSet, WriteEnvelope, Appending
  <1>3. StoreStep(a)
    BY <1>2 DEF WriteEnvelope, StoreStep, LogStep, LogComplete
  <1>4. PICK op : op = AfterAppend(ops[a])
    OBVIOUS
  <1>5. ops' = [ops EXCEPT ![a] = op]
    BY <1>4 DEF WriteEnvelope
  <1>6. LogComplete' => LogComplete /\ audit' = Append(audit, Head(ops[a].pending))
    BY DEF WriteEnvelope, LogComplete, Discipline
  <1>7. \A p, s : Backed(p, s) => Backed(p, s)'
    BY <1>3, LogGrows DEF StoreStep
  <1>8. CASE Len(ops[a].pending) > 1
    <2>1. op = [ops[a] EXCEPT !.pc = "inspect", !.pending = Tail(ops[a].pending)]
      BY <1>4, <1>8 DEF AfterAppend
    <2>2. /\ op.pc = "inspect" /\ op.kind = ops[a].kind
          /\ op.prop = ops[a].prop /\ op.next = ops[a].next
          /\ op.pending = Tail(ops[a].pending)
      BY <1>1, <2>1 DEF OpShape, OpSet
    <2>3. /\ Tail(ops[a].pending) \in Seq(Event)
          /\ Tail(ops[a].pending) # <<>>
          /\ Len(Tail(ops[a].pending)) = Len(ops[a].pending) - 1
          /\ \A k \in DOMAIN Tail(ops[a].pending) :
               /\ k + 1 \in DOMAIN ops[a].pending
               /\ Tail(ops[a].pending)[k] = ops[a].pending[k + 1]
      BY <1>2, <1>8, TailType
    <2>4. /\ Len(op.pending) \in DOMAIN op.pending
          /\ Len(op.pending) + 1 = Len(ops[a].pending)
      BY <1>2, <2>2, <2>3
    <2>5. op.pending[Len(op.pending)] = ops[a].pending[Len(ops[a].pending)]
      BY <2>2, <2>3, <2>4
    <2>6. \A k \in DOMAIN op.pending :
            /\ op.pending[k].prop = op.prop
            /\ Authorised(op.pending[k])
            /\ op.pending[k].kind = "execution" => op.kind = "execute"
      BY <1>1, <2>2, <2>3 DEF PendingOK
    <2>7. PendingOK(op)
      BY <1>1, <1>2, <2>2, <2>5, <2>6 DEF PendingOK, Appending
    <2>8. LogComplete' => OpBacked(op)'
      BY <1>1, <1>6, <1>7, <2>2 DEF OpBacked
    <2> QED
      BY <1>3, <1>5, <2>7, <2>8, UpdateGrant
  <1>9. CASE ~(Len(ops[a].pending) > 1) /\ ops[a].next = NoDoc
    <2>1. op = Idle
      BY <1>4, <1>9 DEF AfterAppend
    <2>2. op.pc = "idle" /\ op.kind = "none" /\ op.pending = <<>>
      BY <2>1 DEF Idle
    <2>3. PendingOK(op) /\ OpBacked(op)'
      BY <2>2 DEF PendingOK, OpBacked
    <2> QED
      BY <1>3, <1>5, <2>3, UpdateGrant
  <1>10. CASE ~(Len(ops[a].pending) > 1) /\ ops[a].next # NoDoc
    <2>1. PICK pc \in {"create", "check"} :
            op = [ops[a] EXCEPT !.pc = pc, !.pending = <<>>]
      BY <1>4, <1>10 DEF AfterAppend
    <2>2. /\ op.pc = pc /\ op.kind = ops[a].kind
          /\ op.prop = ops[a].prop /\ op.next = ops[a].next
          /\ op.pending = <<>>
      BY <1>1, <2>1 DEF OpShape, OpSet
    <2>3. PendingOK(op)
      BY <2>2 DEF PendingOK
    <2>4. Len(ops[a].pending) = 1
      <3>1. \A t \in Seq(Event) : t # <<>> => Len(t) \in Nat /\ Len(t) > 0
        OBVIOUS
      <3>2. Len(ops[a].pending) \in Nat /\ Len(ops[a].pending) > 0
        BY <1>2, <3>1
      <3>3. \A n \in Nat : n > 0 /\ ~(n > 1) => n = 1
        OBVIOUS
      <3> QED
        BY <1>10, <3>2, <3>3
    <2>5. /\ Head(ops[a].pending) \in Event
          /\ Head(ops[a].pending).prop = ops[a].prop
          /\ Head(ops[a].pending).to = ops[a].next
      BY <1>1, <1>2, <2>4, HeadTailProperties DEF PendingOK, Appending
    <2>6. LogComplete' => Backed(op.prop, op.next)'
      <3>1. SUFFICES ASSUME LogComplete'
                     PROVE  \E i \in DOMAIN audit' :
                              /\ audit'[i].prop = ops[a].prop
                              /\ audit'[i].to = ops[a].next
        BY <2>2 DEF Backed, Records
      <3>2. audit' = Append(audit, Head(ops[a].pending))
        BY <1>6, <3>1
      <3>3. /\ Len(audit) + 1 \in DOMAIN audit'
            /\ audit'[Len(audit) + 1] = Head(ops[a].pending)
        BY <1>1, <2>5, <3>2
      <3> QED
        BY <2>5, <3>3
    <2>7. LogComplete' => OpBacked(op)'
      BY <1>1, <1>6, <1>7, <1>10, <2>2, <2>6 DEF OpBacked
    <2> QED
      BY <1>3, <1>5, <2>3, <2>7, UpdateGrant
  <1> QED
    BY <1>8, <1>9, <1>10

LEMMA ContinueGrant ==
  ASSUME Shape, Discipline, Grant, NEW a \in Actors, Continue(a)
  PROVE  Grant'
  <1>1. /\ OpShape(ops[a]) /\ PendingOK(ops[a]) /\ ops[a] \in OpSet
        /\ LogComplete => OpBacked(ops[a])
        /\ runs \in [Proposals -> Nat]
        /\ docs \in [Proposals -> Statuses \cup {NoDoc}]
    BY DEF Shape, TypeOK, Grant, OpShape
  <1>2. CASE InvokeHandler(a)
    <2>1. StoreStep(a)
      BY <1>1, <1>2 DEF InvokeHandler, StoreStep, LogStep, LogComplete, OpShape
    <2>2. PICK op : op = [ops[a] EXCEPT !.pc = "handling"]
      OBVIOUS
    <2>3. /\ op.pc = "handling" /\ op.kind = ops[a].kind
          /\ op.prop = ops[a].prop /\ op.pending = ops[a].pending
      BY <1>1, <2>2 DEF OpSet
    <2>4. PendingOK(op)
      BY <1>1, <2>3 DEF PendingOK
    <2>5. LogComplete' => OpBacked(op)'
      BY <1>1, <1>2, <2>3
         DEF InvokeHandler, OpBacked, Backed, Records, LogComplete
    <2>6. ops' = [ops EXCEPT ![a] = op]
      BY <1>2, <2>2 DEF InvokeHandler
    <2> QED
      BY <2>1, <2>4, <2>5, <2>6, UpdateGrant
  <1>3. CASE \E to \in ExecutionTargets : HandlerReturns(a, to)
    <2>1. PICK to \in ExecutionTargets : HandlerReturns(a, to)
      BY <1>3
    <2>2. StoreStep(a)
      BY <2>1 DEF HandlerReturns, StoreStep, LogStep, LogComplete
    <2>3. PICK op : op = [ops[a] EXCEPT
                            !.pc = "inspect", !.next = to,
                            !.pending = <<Ev(ops[a].prop, "execution", to)>>]
      OBVIOUS
    <2>4. /\ op.pc = "inspect" /\ op.kind = ops[a].kind
          /\ op.prop = ops[a].prop /\ op.next = to
          /\ op.pending = <<Ev(ops[a].prop, "execution", to)>>
      BY <1>1, <2>3 DEF OpSet
    <2>5. ops[a].kind = "execute"
      BY <1>1, <2>1 DEF OpShape, HandlerReturns
    <2>6. PendingOK(op)
      BY <2>4, <2>5, ExecutionTargetsAre DEF PendingOK, Ev, Authorised
    <2>7. LogComplete' => OpBacked(op)'
      BY <1>1, <2>1, <2>4
         DEF HandlerReturns, OpBacked, Backed, Records, LogComplete
    <2>8. ops' = [ops EXCEPT ![a] = op]
      BY <2>1, <2>3 DEF HandlerReturns
    <2> QED
      BY <2>2, <2>6, <2>7, <2>8, UpdateGrant
  <1>4. CASE InspectLog(a)
    <2>1. StoreStep(a)
      BY <1>4 DEF InspectLog, StoreStep, LogStep, LogComplete
    <2>2. PICK op : op = [ops[a] EXCEPT !.pc = "write", !.tail = Len(audit)]
      OBVIOUS
    <2>3. /\ op.pc = "write" /\ op.kind = ops[a].kind
          /\ op.prop = ops[a].prop /\ op.next = ops[a].next
          /\ op.pending = ops[a].pending
      BY <1>1, <2>2 DEF OpSet
    <2>4. PendingOK(op)
      BY <1>1, <1>4, <2>3 DEF PendingOK, InspectLog
    <2>5. LogComplete' => OpBacked(op)'
      BY <1>1, <1>4, <2>3
         DEF InspectLog, OpBacked, Backed, Records, LogComplete
    <2>6. ops' = [ops EXCEPT ![a] = op]
      BY <1>4, <2>2 DEF InspectLog
    <2> QED
      BY <2>1, <2>4, <2>5, <2>6, UpdateGrant
  <1>5. CASE WriteEnvelope(a)
    BY <1>5, WriteGrant
  <1>6. CASE CreateDocument(a)
    <2>1. StoreStep(a)
      BY <1>1, <1>6 DEF CreateDocument, StoreStep, LogStep, LogComplete
    <2> QED
      BY <1>6, <2>1, StopGrant DEF CreateDocument
  <1>7. CASE CheckDocument(a)
    <2>1. StoreStep(a)
      BY <1>7 DEF CheckDocument, StoreStep, LogStep, LogComplete
    <2>2. PICK op : op = [ops[a] EXCEPT !.pc = "swap"]
      OBVIOUS
    <2>3. /\ op.pc = "swap" /\ op.kind = ops[a].kind
          /\ op.prop = ops[a].prop /\ op.next = ops[a].next
          /\ op.pending = ops[a].pending
      BY <1>1, <2>2 DEF OpSet
    <2>4. PendingOK(op)
      BY <1>1, <2>3 DEF PendingOK
    <2>5. LogComplete' => OpBacked(op)'
      BY <1>1, <1>7, <2>3
         DEF CheckDocument, OpBacked, Backed, Records, LogComplete
    <2>6. ops' = [ops EXCEPT ![a] = op]
      BY <1>7, <2>2 DEF CheckDocument
    <2> QED
      BY <2>1, <2>4, <2>5, <2>6, UpdateGrant
  <1>8. CASE ReplaceDocument(a)
    <2>1. StoreStep(a)
      BY <1>1, <1>8 DEF ReplaceDocument, StoreStep, LogStep, LogComplete
    <2>2. PICK op : op = [ops[a] EXCEPT !.pc = "readback"]
      OBVIOUS
    <2>3. /\ op.pc = "readback" /\ op.kind = ops[a].kind
          /\ op.prop = ops[a].prop /\ op.pending = ops[a].pending
      BY <1>1, <2>2 DEF OpSet
    <2>4. PendingOK(op)
      BY <1>1, <2>3 DEF PendingOK
    <2>5. LogComplete' => OpBacked(op)'
      BY <1>1, <1>8, <2>3
         DEF ReplaceDocument, OpBacked, Backed, Records, LogComplete
    <2>6. ops' = [ops EXCEPT ![a] = op]
      BY <1>8, <2>2 DEF ReplaceDocument
    <2> QED
      BY <2>1, <2>4, <2>5, <2>6, UpdateGrant
  <1>9. CASE RefuseDamagedLog(a) \/ RefuseConflict(a) \/ ReadBack(a)
    <2>1. StoreStep(a)
      BY <1>9 DEF RefuseDamagedLog, RefuseConflict, ReadBack, StoreStep,
                  LogStep, LogComplete
    <2>2. Finish(a) \/ CutShort(a)
      BY <1>9 DEF RefuseDamagedLog, RefuseConflict, ReadBack
    <2> QED
      BY <2>1, <2>2, StopGrant
  <1> QED
    BY <1>2, <1>3, <1>4, <1>5, <1>6, <1>7, <1>8, <1>9 DEF Continue

LEMMA FailGrant ==
  ASSUME Shape, Grant, NEW a \in Actors, Fail(a)
  PROVE  Grant'
  <1>1. docs \in [Proposals -> Statuses \cup {NoDoc}] /\ OpShape(ops[a])
    BY DEF Shape, TypeOK
  <1>2. CutShort(a) /\ terms' = terms /\ runs' = runs
    BY DEF Fail, AppendFails, AppendTears, AppendUnreported, PublishFails,
           PublishUnreported, Crash
  <1>3. LogComplete' => LogComplete
    BY DEF LogComplete, Fail, AppendFails, AppendTears, AppendUnreported,
           PublishFails, PublishUnreported, Crash
  <1>4. LogStep(a)
    BY DEF LogStep, Appending, Fail, AppendFails, AppendTears,
           AppendUnreported, PublishFails, PublishUnreported, Crash
  <1>5. \A p \in Proposals : docs'[p] # docs[p] =>
          /\ p = ops[a].prop /\ docs'[p] = ops[a].next
          /\ ops[a].pc \in {"create", "swap"}
    <2>1. CASE PublishUnreported(a)
      BY <1>1, <2>1 DEF PublishUnreported
    <2>2. CASE docs' = docs
      BY <2>2
    <2> QED
      BY <2>1, <2>2 DEF Fail, AppendFails, AppendTears, AppendUnreported,
                        PublishFails, Crash
  <1>6. StoreStep(a)
    BY <1>2, <1>3, <1>4, <1>5 DEF StoreStep
  <1> QED
    BY <1>2, <1>6, StopGrant

LEMMA NextGrant ==
  ASSUME Shape, Discipline, Grant, [Next]_vars
  PROVE  Grant'
  <1>1. CASE UNCHANGED vars
    BY <1>1 DEF Grant, PendingOK, OpBacked, Authorised, Backed, Records,
                LogComplete, vars
  <1>2. CASE Next
    BY <1>2, BeginGrant, ContinueGrant, FailGrant DEF Next
  <1> QED
    BY <1>1, <1>2

(* The inductive invariant behind the audit properties: whatever a process *)
(* is about to publish or run is already backed by the log.                *)
THEOREM GrantInvariant == Spec => []Grant
  <1>1. Init => Shape /\ Discipline /\ Grant
    BY InitShape, InitDiscipline, InitGrant
  <1>2. Shape /\ Discipline /\ Grant /\ [Next]_vars
          => Shape' /\ Discipline' /\ Grant'
    BY NextShape, NextDiscipline, NextGrant
  <1> QED
    BY <1>1, <1>2, PTL DEF Spec

(* Whatever crashes, fails or interleaves, every published document has    *)
(* its status in the audit log (until a torn line, when writers race).     *)
THEOREM AuditIsWrittenFirst == Spec => []AuditBeforeDocument
  <1>1. Grant => AuditBeforeDocument
    BY DEF Grant, AuditBeforeDocument, Backed
  <1> QED
    BY <1>1, GrantInvariant, PTL

(* An approval in the log that is authorised grants. *)
LEMMA ApprovalGrants ==
  ASSUME NEW i \in DOMAIN audit, NEW p, Authorised(audit[i]),
         Records(i, p, "approved")
  PROVE  Grants(i, p)
  BY DEF Authorised, Records, Grants

(* A handler has only ever run for a proposal that a human approved, or    *)
(* that the policy approves without one.                                   *)
THEOREM OnlyGrantedRuns == Spec => []RunsAreGranted
  <1>1. Grant => RunsAreGranted
    BY ApprovalGrants DEF Grant, RunsAreGranted, Backed
  <1> QED
    BY <1>1, GrantInvariant, PTL

(* The audit log alone shows, before each execution, what granted it. *)
THEOREM TrailIsComplete == Spec => []TrailShowsGrant
  <1>1. Shape /\ Grant => TrailShowsGrant
    <2> SUFFICES ASSUME Shape, Grant, LogComplete,
                        NEW i \in DOMAIN audit, audit[i].kind = "execution"
                 PROVE  \E j \in 1..(i - 1) : Grants(j, audit[i].prop)
      BY DEF TrailShowsGrant
    <2>1. PICK j \in 1..(i - 1) : Records(j, audit[i].prop, "approved")
      BY DEF Grant
    <2>2. j \in DOMAIN audit
      BY DEF Shape, TypeOK
    <2>3. Authorised(audit[j])
      BY <2>2 DEF Grant
    <2> QED
      BY <2>1, <2>2, <2>3, ApprovalGrants
  <1> QED
    BY <1>1, ShapeInvariant, GrantInvariant, PTL

-----------------------------------------------------------------------------
(* Layer 4: Legal. *)

(* What an operation will publish is a legal step from what it read. *)
LegalOp(op) ==
  /\ op.kind = "submit" =>
       op.next \in {NoDoc, "awaiting_confirmation", "approved"}
  /\ op.kind = "decide" => LegalStep(op.seen, op.next)
  /\ op.kind = "execute" =>
       /\ op.seen = "approved"
       /\ op.pc \notin {"handler", "handling"} => op.next \in ExecutionTargets

Legal ==
  /\ \A a \in Actors : LegalOp(ops[a])
  /\ Exclusive => \A a \in Actors :
       ops[a].pc = "swap" => docs[ops[a].prop] = ops[a].seen

LEMMA InitLegal == Init => Legal
  BY DEF Init, Legal, LegalOp, Idle

LEMMA BeginningsLegal ==
  ASSUME Shape, NEW a \in Actors, NEW p \in Proposals
  PROVE  /\ \A valid \in BOOLEAN : LegalOp(Submission(p, valid))
         /\ \A d \in Decisions : BeginDecision(a, p, d) => LegalOp(Decision(p, d))
         /\ BeginExecution(a, p) => LegalOp(Execution(p))
  <1>1. ASSUME NEW valid \in BOOLEAN PROVE LegalOp(Submission(p, valid))
    BY PolicyTargetIsPublishable DEF LegalOp, Submission, Idle
  <1>2. ASSUME NEW d \in Decisions, BeginDecision(a, p, d)
        PROVE  LegalOp(Decision(p, d))
    <2>1. DecisionTarget(d) # NoDoc
      BY ConstantsAssumption DEF DecisionTarget, Decisions, Statuses
    <2>2. LegalStep(docs[p], DecisionTarget(d))
      BY <1>2, <2>1 DEF BeginDecision, DecisionPermitted, LegalStep
    <2> QED
      BY <2>2 DEF LegalOp, Decision, Idle
  <1>3. ASSUME BeginExecution(a, p) PROVE LegalOp(Execution(p))
    BY <1>3 DEF BeginExecution, LegalOp, Execution, Idle
  <1> QED
    BY <1>1, <1>2, <1>3

(* Replacing one actor's operation keeps Legal, if the new one is legal,   *)
(* and an operation about to replace a document still has it as it read it.*)
LEMMA UpdateLegal ==
  ASSUME Shape, Legal, NEW a \in Actors, NEW op,
         ops' = [ops EXCEPT ![a] = op], LegalOp(op),
         Exclusive => \A b \in Actors : b # a => ops[b].pc # "swap",
         Exclusive /\ op.pc = "swap" => docs'[op.prop] = op.seen
  PROVE  Legal'
  <1>1. \A b \in Actors : ops'[b] = IF b = a THEN op ELSE ops[b]
    BY DEF Shape, TypeOK
  <1>2. \A b \in Actors : LegalOp(ops[b])'
    BY <1>1 DEF Legal, LegalOp, LegalStep
  <1> QED
    BY <1>1, <1>2 DEF Legal

LEMMA NextLegal ==
  ASSUME Shape, Discipline, Grant, Legal, [Next]_vars
  PROVE  Legal'
  <1> SUFFICES ASSUME Next
               PROVE  Legal'
    BY DEF Legal, LegalOp, LegalStep, vars
  <1>1. PICK a \in Actors : BeginStep(a) \/ Continue(a) \/ Fail(a)
    BY DEF Next
  <1>2. /\ OpShape(ops[a]) /\ ops[a] \in OpSet /\ LegalOp(ops[a])
    BY DEF Shape, OpShape, Legal
  <1>3. Exclusive => \A b \in Actors : b # a => ops[b].pc # "swap"
    <2>1. CASE BeginStep(a)
      BY <2>1 DEF BeginStep, BeginSubmit, BeginDecision, BeginExecution,
                  MayBegin, Idle
    <2>2. CASE Continue(a) \/ Fail(a)
      BY <2>2, StepOfOne DEF Discipline, Running
    <2> QED
      BY <1>1, <2>1, <2>2
  <1>4. CASE BeginStep(a)
    <2>1. PICK p \in Proposals :
            \/ BeginSubmit(a, p)
            \/ \E d \in Decisions : BeginDecision(a, p, d)
            \/ BeginExecution(a, p)
      BY <1>4 DEF BeginStep
    <2>2. PICK op :
            /\ ops' = [ops EXCEPT ![a] = op]
            /\ \/ \E valid \in BOOLEAN : op = Submission(p, valid)
               \/ \E d \in Decisions : BeginDecision(a, p, d) /\ op = Decision(p, d)
               \/ BeginExecution(a, p) /\ op = Execution(p)
      BY <2>1 DEF BeginSubmit, BeginDecision, BeginExecution, Begin
    <2>3. LegalOp(op)
      BY <2>2, BeginningsLegal
    <2>4. op.pc # "swap"
      BY <2>2 DEF Submission, Decision, Execution, Idle
    <2> QED
      BY <1>3, <2>2, <2>3, <2>4, UpdateLegal
  <1>5. CASE InvokeHandler(a)
    <2>1. PICK op : op = [ops[a] EXCEPT !.pc = "handling"]
      OBVIOUS
    <2>2. /\ op.pc = "handling" /\ op.kind = ops[a].kind
          /\ op.seen = ops[a].seen /\ op.next = ops[a].next
      BY <1>2, <2>1 DEF OpSet
    <2>3. LegalOp(op)
      BY <1>2, <2>2 DEF LegalOp
    <2>4. ops' = [ops EXCEPT ![a] = op]
      BY <1>5, <2>1 DEF InvokeHandler
    <2> QED
      BY <1>3, <2>2, <2>3, <2>4, UpdateLegal
  <1>6. CASE \E to \in ExecutionTargets : HandlerReturns(a, to)
    <2>1. PICK to \in ExecutionTargets : HandlerReturns(a, to)
      BY <1>6
    <2>2. PICK op : op = [ops[a] EXCEPT
                            !.pc = "inspect", !.next = to,
                            !.pending = <<Ev(ops[a].prop, "execution", to)>>]
      OBVIOUS
    <2>3. /\ op.pc = "inspect" /\ op.kind = ops[a].kind
          /\ op.seen = ops[a].seen /\ op.next = to
      BY <1>2, <2>2 DEF OpSet
    <2>4. ops[a].kind = "execute"
      BY <1>2, <2>1 DEF OpShape, HandlerReturns
    <2>5. LegalOp(op)
      BY <1>2, <2>3, <2>4 DEF LegalOp
    <2>6. ops' = [ops EXCEPT ![a] = op]
      BY <2>1, <2>2 DEF HandlerReturns
    <2> QED
      BY <1>3, <2>3, <2>5, <2>6, UpdateLegal
  <1>7. CASE InspectLog(a)
    <2>1. PICK op : op = [ops[a] EXCEPT !.pc = "write", !.tail = Len(audit)]
      OBVIOUS
    <2>2. /\ op.pc = "write" /\ op.kind = ops[a].kind
          /\ op.seen = ops[a].seen /\ op.next = ops[a].next
      BY <1>2, <2>1 DEF OpSet
    <2>3. LegalOp(op)
      BY <1>2, <1>7, <2>2 DEF LegalOp, InspectLog
    <2>4. ops' = [ops EXCEPT ![a] = op]
      BY <1>7, <2>1 DEF InspectLog
    <2> QED
      BY <1>3, <2>2, <2>3, <2>4, UpdateLegal
  <1>8. CASE WriteEnvelope(a)
    <2>1. PICK op : op = AfterAppend(ops[a])
      OBVIOUS
    <2>2. /\ op.pc # "swap"
          /\ op = Idle \/ ( /\ op.kind = ops[a].kind
                            /\ op.seen = ops[a].seen
                            /\ op.next = ops[a].next
                            /\ ops[a].pc \notin {"handler", "handling"})
      BY <1>2, <1>8, <2>1 DEF AfterAppend, Idle, OpSet, WriteEnvelope
    <2>3. LegalOp(op)
      BY <1>2, <2>2 DEF LegalOp, Idle
    <2>4. ops' = [ops EXCEPT ![a] = op]
      BY <1>8, <2>1 DEF WriteEnvelope
    <2> QED
      BY <1>3, <2>2, <2>3, <2>4, UpdateLegal
  <1>9. CASE CheckDocument(a)
    <2>1. PICK op : op = [ops[a] EXCEPT !.pc = "swap"]
      OBVIOUS
    <2>2. /\ op.kind = ops[a].kind /\ op.prop = ops[a].prop
          /\ op.seen = ops[a].seen /\ op.next = ops[a].next
      BY <1>2, <2>1 DEF OpSet
    <2>3. LegalOp(op) /\ docs'[op.prop] = op.seen
      BY <1>2, <1>9, <2>2 DEF LegalOp, CheckDocument
    <2>4. ops' = [ops EXCEPT ![a] = op]
      BY <1>9, <2>1 DEF CheckDocument
    <2> QED
      BY <1>3, <2>3, <2>4, UpdateLegal
  <1>10. CASE ReplaceDocument(a)
    <2>1. PICK op : op = [ops[a] EXCEPT !.pc = "readback"]
      OBVIOUS
    <2>2. /\ op.pc = "readback" /\ op.kind = ops[a].kind
          /\ op.seen = ops[a].seen /\ op.next = ops[a].next
      BY <1>2, <2>1 DEF OpSet
    <2>3. LegalOp(op)
      BY <1>2, <1>10, <2>2 DEF LegalOp, ReplaceDocument
    <2>4. ops' = [ops EXCEPT ![a] = op]
      BY <1>10, <2>1 DEF ReplaceDocument
    <2> QED
      BY <1>3, <2>2, <2>3, <2>4, UpdateLegal
  <1>11. CASE \/ RefuseDamagedLog(a) \/ CreateDocument(a)
              \/ RefuseConflict(a) \/ ReadBack(a) \/ Fail(a)
    <2>1. ops' = [ops EXCEPT ![a] = Idle]
      BY <1>11 DEF RefuseDamagedLog, CreateDocument, RefuseConflict, ReadBack,
           Fail, AppendFails, AppendTears, AppendUnreported, PublishFails,
           PublishUnreported, Crash, Finish, CutShort
    <2>2. LegalOp(Idle) /\ Idle.pc # "swap"
      BY DEF LegalOp, Idle
    <2> QED
      BY <1>3, <2>1, <2>2, UpdateLegal
  <1> QED
    BY <1>1, <1>4, <1>5, <1>6, <1>7, <1>8, <1>9, <1>10, <1>11 DEF Continue

(* Under the single-writer discipline every change of a document, by a     *)
(* command or by a write that was reported as failed, is a legal step.     *)
LEMMA StepMovesLegally ==
  ASSUME Shape, Discipline, Grant, Legal, Next, Exclusive,
         NEW p \in Proposals, docs'[p] # docs[p]
  PROVE  LegalStep(docs[p], docs'[p])
  <1>1. PICK a \in Actors : BeginStep(a) \/ Continue(a) \/ Fail(a)
    BY DEF Next
  <1>2. /\ OpShape(ops[a]) /\ LegalOp(ops[a]) /\ OpBacked(ops[a])
        /\ ops[a].pc = "swap" => docs[ops[a].prop] = ops[a].seen
        /\ docs \in [Proposals -> Statuses \cup {NoDoc}]
    BY DEF Shape, TypeOK, Legal, Grant, LogComplete
  <1>3. /\ p = ops[a].prop /\ docs'[p] = ops[a].next
        /\ \/ ops[a].pc = "swap"
           \/ ops[a].pc = "create" /\ docs[p] = NoDoc
    <2>1. CASE CreateDocument(a) \/ ReplaceDocument(a) \/ PublishUnreported(a)
      BY <1>2, <2>1 DEF CreateDocument, ReplaceDocument, PublishUnreported
    <2>2. CASE docs' = docs
      BY <2>2
    <2> QED
      BY <1>1, <2>1, <2>2 DEF BeginStep, BeginSubmit, BeginDecision,
           BeginExecution, Continue, InvokeHandler, HandlerReturns, InspectLog,
           RefuseDamagedLog, WriteEnvelope, CheckDocument, RefuseConflict,
           ReadBack, Fail, AppendFails, AppendTears, AppendUnreported,
           PublishFails, Crash
  <1>4. CASE ops[a].pc = "create" /\ docs[p] = NoDoc
    BY <1>2, <1>3, <1>4 DEF OpShape, LegalOp, OpBacked, LegalStep
  <1>5. CASE ops[a].pc = "swap"
    <2>1. docs[p] = ops[a].seen /\ ops[a].next # NoDoc
      BY <1>2, <1>3, <1>5 DEF OpBacked
    <2>2. ops[a].kind \in {"decide", "execute"}
      BY <1>2, <1>5 DEF OpShape, OpSet
    <2> QED
      BY <1>2, <1>3, <1>5, <2>1, <2>2 DEF LegalOp, LegalStep
  <1> QED
    BY <1>3, <1>4, <1>5

(* Under the single-writer discipline a document changes only along the    *)
(* transition table, failed and unreported writes included.                *)
THEOREM MovesAreLegal == Spec => DocumentsMoveLegally
  <1>1. Init => Shape /\ Discipline /\ Grant /\ Legal
    BY InitShape, InitDiscipline, InitGrant, InitLegal
  <1>2. Shape /\ Discipline /\ Grant /\ Legal /\ [Next]_vars
          => Shape' /\ Discipline' /\ Grant' /\ Legal'
    BY NextShape, NextDiscipline, NextGrant, NextLegal
  <1>3. Shape /\ Discipline /\ Grant /\ Legal /\ [Next]_vars
          => [Exclusive => \A p \in Proposals :
                docs'[p] # docs[p] => LegalStep(docs[p], docs'[p])]_docs
    BY StepMovesLegally DEF vars
  <1> QED
    BY <1>1, <1>2, <1>3, PTL DEF Spec, DocumentsMoveLegally


-----------------------------------------------------------------------------
(* Layer 5: Settled. *)

(* The last event about p says s; where there is none, there is nothing to *)
(* say.                                                                    *)
LogSays(p, s) ==
  \/ s = NoDoc /\ \A i \in DOMAIN audit : audit[i].prop # p
  \/ \E i \in DOMAIN audit :
       /\ Records(i, p, s)
       /\ \A j \in DOMAIN audit : audit[j].prop = p => j <= i

(* What the single-writer discipline makes of a running operation: the     *)
(* document is as it left it, and the log says what it will publish.       *)
OpSettled(op) ==
  /\ op.kind = "submit" => docs[op.prop] = NoDoc
  /\ op.pc = "handler" => docs[op.prop] = "approved"
  /\ op.pc = "readback" => docs[op.prop] = op.next
  /\ op.pc \in {"create", "check", "swap", "readback"} /\ cut[op.prop] = 0
       => LogSays(op.prop, op.next)

HandlerRan(op) == op.kind = "execute" /\ op.pc # "handler"

(* While p may be executed again, every handler run but one in progress    *)
(* belongs to an operation that was cut short.                             *)
Accounted(p) ==
  /\ runs[p] <= cut[p] + 1
  /\ /\ docs[p] \notin TerminalStatuses
     /\ \A a \in Actors : ops[a].prop = p => ~HandlerRan(ops[a])
     => runs[p] <= cut[p]

Matched(p) ==
  cut[p] = 0 /\ (\A a \in Actors : ops[a].prop # p) => LogSays(p, docs[p])

(* A proposal has a document, or an operation, only after its submission.  *)
Drawn ==
  /\ \A p \in Proposals : docs[p] # NoDoc => p \in submitted
  /\ \A a \in Actors : Running(a) => ops[a].prop \in submitted

AllSettled ==
  /\ \A a \in Actors : OpSettled(ops[a])
  /\ \A p \in Proposals : Accounted(p) /\ Matched(p)

Settled == Drawn /\ (Exclusive => AllSettled)

(* The log holds one last event about a proposal.                          *)
LEMMA LastIsUnique ==
  ASSUME Shape, NEW p \in Proposals, NEW s, LogSays(p, s)
  PROVE  LastRecorded(p) = s
  <1>1. DOMAIN audit = 1..Len(audit) /\ Len(audit) \in Nat
    BY DEF Shape, TypeOK
  <1>2. CASE s = NoDoc /\ \A i \in DOMAIN audit : audit[i].prop # p
    BY <1>2 DEF LastRecorded
  <1>3. CASE \E i \in DOMAIN audit :
               /\ Records(i, p, s)
               /\ \A j \in DOMAIN audit : audit[j].prop = p => j <= i
    <2> DEFINE LastEvent(i) == /\ audit[i].prop = p
                               /\ \A j \in DOMAIN audit : audit[j].prop = p => j <= i
               last == CHOOSE i \in DOMAIN audit : LastEvent(i)
    <2>1. PICK i \in DOMAIN audit : LastEvent(i) /\ audit[i].to = s
      BY <1>3 DEF Records
    <2>2. last \in DOMAIN audit /\ LastEvent(last)
      BY <2>1
    <2>3. last = i
      BY <1>1, <2>1, <2>2
    <2>4. LastRecorded(p) = audit[last].to
      BY <2>1 DEF LastRecorded
    <2> QED
      BY <2>1, <2>3, <2>4
  <1> QED
    BY <1>2, <1>3 DEF LogSays

(* An event that is appended is the last about its proposal, and changes   *)
(* nothing for the others.                                                 *)
LEMMA AppendSays ==
  ASSUME Shape, NEW e \in Event, audit' = Append(audit, e)
  PROVE  /\ LogSays(e.prop, e.to)'
         /\ \A q \in Proposals, s \in Statuses \cup {NoDoc} :
              q # e.prop /\ LogSays(q, s) => LogSays(q, s)'
  <1>1. /\ audit \in Seq(Event)
        /\ DOMAIN audit = 1..Len(audit) /\ Len(audit) \in Nat
    BY DEF Shape, TypeOK
  <1>2. /\ DOMAIN audit' = 1..(Len(audit) + 1)
        /\ audit'[Len(audit) + 1] = e
        /\ \A i \in DOMAIN audit : audit'[i] = audit[i]
    BY <1>1
  <1>3. LogSays(e.prop, e.to)'
    <2>1. PICK n \in DOMAIN audit' : n = Len(audit) + 1
      BY <1>1, <1>2
    <2>2. audit'[n].prop = e.prop /\ audit'[n].to = e.to
      BY <1>2, <2>1
    <2>3. \A j \in DOMAIN audit' : j <= n
      BY <1>1, <1>2, <2>1
    <2> QED
      BY <2>2, <2>3 DEF LogSays, Records
  <1>4. ASSUME NEW q \in Proposals, NEW s \in Statuses \cup {NoDoc},
               q # e.prop, LogSays(q, s)
        PROVE  LogSays(q, s)'
    <2>1. \A i \in DOMAIN audit' :
            audit'[i].prop = q => i \in DOMAIN audit /\ audit'[i] = audit[i]
      BY <1>1, <1>2, <1>4
    <2>2. CASE s = NoDoc /\ \A i \in DOMAIN audit : audit[i].prop # q
      BY <2>1, <2>2 DEF LogSays
    <2>3. CASE \E i \in DOMAIN audit :
                 /\ Records(i, q, s)
                 /\ \A j \in DOMAIN audit : audit[j].prop = q => j <= i
      <3>1. PICK i \in DOMAIN audit :
              /\ audit[i].prop = q /\ audit[i].to = s
              /\ \A j \in DOMAIN audit : audit[j].prop = q => j <= i
        BY <2>3 DEF Records
      <3>2. /\ i \in DOMAIN audit' /\ audit'[i].prop = q /\ audit'[i].to = s
            /\ \A j \in DOMAIN audit' : audit'[j].prop = q => j <= i
        BY <1>1, <1>2, <2>1, <3>1
      <3> QED
        BY <3>2 DEF LogSays, Records
    <2> QED
      BY <1>4, <2>2, <2>3 DEF LogSays
  <1> QED
    BY <1>3, <1>4

(* What a step on one proposal leaves alone: the other actors are idle,    *)
(* and nothing is said or done about another proposal.                     *)
Alone(a, p) ==
  /\ \A b \in Actors : b # a => ops[b] = Idle /\ ops'[b] = Idle
  /\ ops[a].prop \in {p, NoActor}
  /\ ops'[a].prop \in {p, NoActor}
  /\ \A q \in Proposals : q # p =>
       /\ docs'[q] = docs[q] /\ runs'[q] = runs[q] /\ cut'[q] = cut[q]
       /\ \A s \in Statuses \cup {NoDoc} : LogSays(q, s) => LogSays(q, s)'

LEMMA StepSettles ==
  ASSUME Shape, Settled, Exclusive, NEW a \in Actors, NEW p \in Proposals,
         Alone(a, p), OpSettled(ops[a])', Accounted(p)', Matched(p)'
  PROVE  /\ \A b \in Actors : OpSettled(ops[b])'
         /\ \A q \in Proposals : Accounted(q)' /\ Matched(q)'
  <1>1. \A b \in Actors : OpSettled(ops[b])'
    BY DEF Alone, OpSettled, Idle
  <1>2. ASSUME NEW q \in Proposals, q # p
        PROVE  Accounted(q)' /\ Matched(q)'
    <2>1. \A b \in Actors : ops[b].prop # q /\ ops'[b].prop # q
      BY <1>2, ConstantsAssumption DEF Alone, Idle
    <2>2. docs'[q] = docs[q] /\ runs'[q] = runs[q] /\ cut'[q] = cut[q]
      BY <1>2 DEF Alone
    <2>3. Accounted(q)'
      <3>1. Accounted(q)
        BY DEF Settled, Drawn, AllSettled
      <3> QED
        BY <2>1, <2>2, <3>1 DEF Accounted
    <2>4. Matched(q)'
      <3>1. PICK s \in Statuses \cup {NoDoc} : s = docs[q]
        BY DEF Shape, TypeOK
      <3>2. LogSays(q, s) => LogSays(q, s)'
        BY <1>2 DEF Alone
      <3>3. cut[q] = 0 => LogSays(q, s)
        BY <2>1, <3>1 DEF Settled, Drawn, AllSettled, Matched
      <3>4. cut'[q] = 0 => LogSays(q, s)'
        BY <2>2, <3>2, <3>3
      <3> QED
        BY <2>2, <3>1, <3>4 DEF Matched
    <2> QED
      BY <2>3, <2>4
  <1> QED
    BY <1>1, <1>2

(* Under the discipline only the actor of a step is running anything.      *)
LEMMA OthersAreIdle ==
  ASSUME Shape, Discipline, Exclusive, NEW a \in Actors,
         BeginStep(a) \/ Continue(a) \/ Fail(a)
  PROVE  \A b \in Actors : b # a => ops[b] = Idle /\ ops'[b] = Idle
  <1>1. \A b \in Actors : b # a => ops'[b] = ops[b]
    BY StepOfOne
  <1>2. \A b \in Actors : b # a => ~Running(b)
    <2>1. CASE BeginStep(a)
      BY <2>1 DEF BeginStep, BeginSubmit, BeginDecision, BeginExecution,
                  MayBegin, Running, Idle
    <2>2. CASE Continue(a) \/ Fail(a)
      BY <2>2, StepOfOne DEF Discipline
    <2> QED
      BY <2>1, <2>2
  <1>3. \A b \in Actors : b # a => ops[b] = Idle
    BY <1>2 DEF Shape, OpShape, Running
  <1> QED
    BY <1>1, <1>3

(* A step of an actor says nothing about another proposal than its own.    *)
LEMMA SaysNothingElse ==
  ASSUME Shape, Grant, NEW a \in Actors, LogStep(a),
         NEW q \in Proposals, q # ops[a].prop,
         NEW s \in Statuses \cup {NoDoc}, LogSays(q, s)
  PROVE  LogSays(q, s)'
  <1>1. CASE audit' = audit
    BY <1>1 DEF LogSays, Records
  <1>2. CASE Appending(a) /\ audit' = Append(audit, Head(ops[a].pending))
    <2>1. ops[a].pending # <<>> /\ ops[a].pending \in Seq(Event)
      BY <1>2 DEF Shape, OpShape, OpSet, Appending
    <2>2. /\ Head(ops[a].pending) \in Event
          /\ Head(ops[a].pending) = ops[a].pending[1]
          /\ 1 \in DOMAIN ops[a].pending
      BY <2>1, HeadTailProperties
    <2>3. Head(ops[a].pending).prop = ops[a].prop
      BY <2>2 DEF Grant, PendingOK
    <2> QED
      BY <1>2, <2>2, <2>3, AppendSays
  <1> QED
    BY <1>1, <1>2 DEF LogStep

(* Under the discipline a running operation is alone with its proposal.    *)
LEMMA RunsAlone ==
  ASSUME Shape, Discipline, Grant, Exclusive, NEW a \in Actors,
         Continue(a) \/ Fail(a)
  PROVE  ops[a].prop \in Proposals /\ Alone(a, ops[a].prop)
  <1>1. OpShape(ops[a]) /\ ops \in [Actors -> OpSet]
    BY DEF Shape, TypeOK
  <1>2. /\ ops[a].prop \in Proposals
        /\ docs \in [Proposals -> Statuses \cup {NoDoc}]
        /\ runs \in [Proposals -> Nat] /\ cut \in [Proposals -> Nat]
    BY <1>1, StepOfOne DEF Shape, TypeOK, OpShape, Running
  <1>3. LogStep(a)
    BY DEF LogStep, Appending, Continue, InvokeHandler, HandlerReturns,
       InspectLog, RefuseDamagedLog, WriteEnvelope, CreateDocument,
       CheckDocument, RefuseConflict, ReplaceDocument, ReadBack, Fail,
       AppendFails, AppendTears, AppendUnreported, PublishFails,
       PublishUnreported, Crash
  <1>4. \A q \in Proposals : q # ops[a].prop =>
          docs'[q] = docs[q] /\ runs'[q] = runs[q] /\ cut'[q] = cut[q]
    BY <1>2 DEF Finish, CutShort, Continue, InvokeHandler, HandlerReturns,
       InspectLog, RefuseDamagedLog, WriteEnvelope, CreateDocument,
       CheckDocument, RefuseConflict, ReplaceDocument, ReadBack, Fail,
       AppendFails, AppendTears, AppendUnreported, PublishFails,
       PublishUnreported, Crash
  <1>5. ops'[a].prop \in {ops[a].prop, NoActor}
    <2>1. CASE ops' = [ops EXCEPT ![a] = Idle]
      BY <1>1, <2>1 DEF Idle
    <2>2. CASE WriteEnvelope(a)
      BY <1>1, <2>2 DEF WriteEnvelope, AfterAppend, Idle, OpShape, OpSet
    <2>3. CASE \/ InvokeHandler(a) \/ InspectLog(a) \/ CheckDocument(a)
               \/ ReplaceDocument(a)
      BY <1>1, <2>3 DEF InvokeHandler, InspectLog, CheckDocument,
         ReplaceDocument, OpShape, OpSet
    <2>4. ASSUME NEW to \in ExecutionTargets, HandlerReturns(a, to)
          PROVE  ops'[a].prop = ops[a].prop
      BY <1>1, <2>4 DEF HandlerReturns, OpShape, OpSet
    <2> QED
      BY <2>1, <2>2, <2>3, <2>4
         DEF Continue, Fail, RefuseDamagedLog, CreateDocument,
         RefuseConflict, ReadBack, AppendFails, AppendTears, AppendUnreported,
         PublishFails, PublishUnreported, Crash, Finish, CutShort
  <1>6. \A q \in Proposals, s \in Statuses \cup {NoDoc} :
          q # ops[a].prop /\ LogSays(q, s) => LogSays(q, s)'
    BY <1>3, SaysNothingElse
  <1> QED
    BY <1>2, <1>4, <1>5, <1>6, OthersAreIdle DEF Alone

(* An idle actor asks nothing of the documents or the log.                 *)
LEMMA IdleSettles ==
  ASSUME NEW a \in Actors, ops'[a] = Idle
  PROVE  OpSettled(ops[a])'
  BY DEF OpSettled, Idle

(* A step that leaves its operation beyond the handler, or about to run    *)
(* it, with the counts of its proposal as they were.                       *)
LEMMA StillAccounted ==
  ASSUME Shape, Settled, Exclusive, NEW a \in Actors,
         ops[a].prop \in Proposals,
         docs'[ops[a].prop] = docs[ops[a].prop],
         runs'[ops[a].prop] = runs[ops[a].prop],
         cut'[ops[a].prop] = cut[ops[a].prop],
         ops'[a].prop = ops[a].prop,
         HandlerRan(ops[a]) <=> HandlerRan(ops[a])',
         \A b \in Actors : b # a => ops[b] = Idle /\ ops'[b] = Idle
  PROVE  Accounted(ops[a].prop)' /\ Matched(ops[a].prop)'
  <1>1. PICK p \in Proposals : p = ops[a].prop
    OBVIOUS
  <1>2. Accounted(p)
    BY <1>1 DEF Settled, Drawn, AllSettled
  <1>3. Accounted(p)'
    <2>1. ASSUME \A b \in Actors : ops'[b].prop = p => ~HandlerRan(ops[b])'
          PROVE  \A b \in Actors : ops[b].prop = p => ~HandlerRan(ops[b])
      <3>1. ~HandlerRan(Idle)
        BY DEF HandlerRan, Idle
      <3> QED
        BY <1>1, <2>1, <3>1
    <2> QED
      BY <1>1, <1>2, <2>1 DEF Accounted
  <1>4. Matched(p)'
    BY <1>1 DEF Matched
  <1>5. ops'[a].prop = p
    BY <1>1
  <1> QED
    BY <1>3, <1>4, <1>5

(* A step that is cut short is counted, whatever it did to the stores.     *)
LEMMA CutSettles ==
  ASSUME Shape, Settled, Exclusive, NEW a \in Actors,
         ops[a].prop \in Proposals, CutShort(a), runs' = runs
  PROVE  \A p \in Proposals : p = ops[a].prop => Accounted(p)' /\ Matched(p)'
  <1> SUFFICES ASSUME NEW p \in Proposals, p = ops[a].prop
               PROVE  Accounted(p)' /\ Matched(p)'
    OBVIOUS
  <1>1. runs[p] \in Nat /\ cut[p] \in Nat /\ cut'[p] = cut[p] + 1
    BY DEF Shape, TypeOK, CutShort
  <1>2. runs[p] <= cut[p] + 1
    BY DEF Settled, Drawn, AllSettled, Accounted
  <1> QED
    BY <1>1, <1>2 DEF Accounted, Matched

LEMMA BeginSettles ==
  ASSUME Shape, Discipline, Settled, Exclusive, NEW a \in Actors, BeginStep(a)
  PROVE  AllSettled'
  <1>1. PICK p \in Proposals :
          \/ BeginSubmit(a, p)
          \/ \E d \in Decisions : BeginDecision(a, p, d)
          \/ BeginExecution(a, p)
    BY DEF BeginStep
  <1>2. PICK op :
          /\ ops' = [ops EXCEPT ![a] = op]
          /\ \/ /\ p \notin submitted
                /\ \E valid \in BOOLEAN : op = Submission(p, valid)
             \/ \E d \in Decisions : op = Decision(p, d)
             \/ docs[p] = "approved" /\ op = Execution(p)
    BY <1>1 DEF BeginSubmit, BeginDecision, BeginExecution, Begin
  <1>3. /\ ops[a] = Idle
        /\ docs' = docs /\ runs' = runs /\ cut' = cut /\ audit' = audit
        /\ ops'[a] = op
    BY <1>1, <1>2 DEF BeginSubmit, BeginDecision, BeginExecution, MayBegin,
                      Shape, TypeOK
  <1>4. /\ op.prop = p /\ op.pc \in {"inspect", "handler"}
        /\ op.kind = "submit" => p \notin submitted
        /\ op.pc = "handler" => docs[p] = "approved"
        /\ op.kind = "execute" => op.pc = "handler"
    BY <1>2 DEF Submission, Decision, Execution, Idle
  <1>5. Alone(a, p)
    <2>1. \A q, s : LogSays(q, s) => LogSays(q, s)'
      BY <1>3 DEF LogSays, Records
    <2> QED
      BY <1>1, <1>3, <1>4, <2>1, OthersAreIdle DEF Alone, Idle
  <1>6. OpSettled(ops[a])'
    BY <1>3, <1>4 DEF OpSettled, Settled, Drawn, AllSettled
  <1>7. Accounted(p)'
    <2>1. \A b \in Actors : ~HandlerRan(ops[b])
      BY <1>3, <1>5 DEF Alone, HandlerRan, Idle
    <2> QED
      BY <1>3, <2>1 DEF Settled, Drawn, AllSettled, Accounted
  <1>8. Matched(p)'
    BY <1>3, <1>4 DEF Matched
  <1> QED
    BY <1>5, <1>6, <1>7, <1>8, StepSettles DEF AllSettled

(* The envelope of the last event makes the log say what the operation     *)
(* will publish.                                                           *)
LEMMA WriteSettles ==
  ASSUME Shape, Discipline, Grant, Legal, Settled, Exclusive,
         NEW a \in Actors, NEW p \in Proposals, p = ops[a].prop,
         WriteEnvelope(a)
  PROVE  OpSettled(ops[a])' /\ Accounted(p)' /\ Matched(p)'
  <1>0. PICK op, e : op = AfterAppend(ops[a]) /\ e = Head(ops[a].pending)
    OBVIOUS
  <1>1. /\ OpShape(ops[a]) /\ PendingOK(ops[a]) /\ OpSettled(ops[a])
        /\ LegalOp(ops[a]) /\ ops[a].pc = "write"
        /\ Accounted(p) /\ Matched(p)
    BY DEF Shape, Grant, Settled, Drawn, AllSettled, Legal, WriteEnvelope
  <1>2. /\ docs' = docs /\ runs' = runs /\ cut' = cut
        /\ ops' = [ops EXCEPT ![a] = op] /\ ops'[a] = op
        /\ audit' = Append(audit, e)
    BY <1>0 DEF WriteEnvelope, Discipline, Shape, TypeOK
  <1>3. /\ ops[a].pending \in Seq(Event) /\ ops[a].pending # <<>>
        /\ e \in Event /\ e = ops[a].pending[1]
    BY <1>0, <1>1, HeadTailProperties DEF OpShape, OpSet
  <1>4. \A b \in Actors : b # a => ops[b] = Idle /\ ops'[b] = Idle
    BY OthersAreIdle DEF Continue
  <1>5. Len(ops[a].pending) > 1 \/ Len(ops[a].pending) = 1
    <2>1. \A t \in Seq(Event) : t # <<>> => Len(t) \in Nat /\ Len(t) > 0
      OBVIOUS
    <2>2. Len(ops[a].pending) \in Nat /\ Len(ops[a].pending) > 0
      BY <1>3, <2>1
    <2>3. \A n \in Nat : n > 0 => n > 1 \/ n = 1
      OBVIOUS
    <2> QED
      BY <2>2, <2>3
  <1>6. CASE Len(ops[a].pending) > 1
    <2>1. op = [ops[a] EXCEPT !.pc = "inspect",
                              !.pending = Tail(ops[a].pending)]
      BY <1>0, <1>6 DEF AfterAppend
    <2>2. /\ op.pc = "inspect" /\ op.kind = ops[a].kind /\ op.prop = p
          /\ op.next = ops[a].next
      BY <1>1, <2>1 DEF OpShape, OpSet
    <2>3. OpSettled(op)'
      BY <1>1, <1>2, <2>2 DEF OpSettled
    <2>4. HandlerRan(ops[a]) <=> HandlerRan(ops[a])'
      BY <1>1, <1>2, <2>2 DEF HandlerRan
    <2>5. Accounted(ops[a].prop)' /\ Matched(ops[a].prop)'
      BY <1>2, <1>4, <2>2, <2>4, StillAccounted
    <2> QED
      BY <1>2, <2>2, <2>3, <2>5
  <1>7. CASE Len(ops[a].pending) = 1
    <2>1. e.prop = p /\ e.to = ops[a].next
      BY <1>1, <1>3, <1>7 DEF PendingOK
    <2>2. PICK s \in Statuses \cup {NoDoc} : s = ops[a].next
      BY <1>1 DEF OpShape, OpSet
    <2>3. LogSays(p, s)'
      <3>1. LogSays(e.prop, e.to)'
        BY <1>2, <1>3, AppendSays
      <3> QED
        BY <2>1, <2>2, <3>1 DEF LogSays, Records
    <2>4. CASE s = NoDoc
      <3>1. op = Idle
        BY <1>0, <1>7, <2>2, <2>4 DEF AfterAppend
      <3>2. ops[a].kind = "submit"
        <4>1. LegalOp(ops[a]) /\ ops[a].kind # "none"
          BY <1>1 DEF OpShape
        <4>2. ops[a].kind # "decide"
          BY <2>2, <2>4, <4>1, ConstantsAssumption
             DEF LegalOp, LegalStep, ExecutionTargets, Statuses
        <4>3. ops[a].kind # "execute"
          BY <1>1, <2>2, <2>4, <4>1, ConstantsAssumption DEF LegalOp,
             ExecutionTargets
        <4> QED
          BY <1>1, <4>1, <4>2, <4>3 DEF OpShape, OpSet
      <3>3. docs[p] = NoDoc
        BY <1>1, <3>2 DEF OpSettled
      <3>4. OpSettled(ops[a])'
        BY <1>2, <3>1, IdleSettles
      <3>5. Accounted(p)'
        <4>1. \A b \in Actors : ops[b].prop = p => ~HandlerRan(ops[b])
          BY <1>4, <3>2 DEF HandlerRan, Idle
        <4> QED
          BY <1>1, <1>2, <4>1 DEF Accounted
      <3>6. Matched(p)'
        BY <1>2, <2>3, <2>4, <3>3 DEF Matched
      <3> QED
        BY <3>4, <3>5, <3>6
    <2>5. CASE s # NoDoc
      <3>0. ~(Len(ops[a].pending) > 1) /\ ops[a].next # NoDoc
        BY <1>7, <2>2, <2>5
      <3>1. PICK pc \in {"create", "check"} :
              op = [ops[a] EXCEPT !.pc = pc, !.pending = <<>>]
        BY <1>0, <3>0 DEF AfterAppend
      <3>2. /\ op.pc = pc /\ op.kind = ops[a].kind /\ op.prop = p
            /\ op.next = s
        BY <1>1, <2>2, <3>1 DEF OpShape, OpSet
      <3>3. OpSettled(op)'
        BY <1>1, <1>2, <2>3, <3>2 DEF OpSettled
      <3>4. HandlerRan(ops[a]) <=> HandlerRan(ops[a])'
        BY <1>1, <1>2, <3>2 DEF HandlerRan
      <3>5. Accounted(ops[a].prop)' /\ Matched(ops[a].prop)'
        BY <1>2, <1>4, <3>2, <3>4, StillAccounted
      <3> QED
        BY <1>2, <3>2, <3>3, <3>5
    <2> QED
      BY <2>4, <2>5
  <1> QED
    BY <1>5, <1>6, <1>7

LEMMA ContinueSettles ==
  ASSUME Shape, Discipline, Grant, Legal, Settled, Exclusive,
         NEW a \in Actors, Continue(a)
  PROVE  AllSettled'
  <1>1. PICK p \in Proposals : p = ops[a].prop
    BY RunsAlone
  <1>2. /\ Alone(a, p)
        /\ \A b \in Actors : b # a => ops[b] = Idle /\ ops'[b] = Idle
    BY <1>1, RunsAlone DEF Alone
  <1>3. /\ ops \in [Actors -> OpSet] /\ ops[a] \in OpSet /\ OpShape(ops[a])
        /\ OpSettled(ops[a]) /\ LegalOp(ops[a])
        /\ Accounted(p) /\ Matched(p)
    BY DEF Shape, TypeOK, Settled, Drawn, AllSettled, Legal
  <1>4. /\ docs \in [Proposals -> Statuses \cup {NoDoc}]
        /\ runs[p] \in Nat /\ cut[p] \in Nat /\ runs \in [Proposals -> Nat]
    BY DEF Shape, TypeOK
  <1>5. ASSUME NEW op, ops' = [ops EXCEPT ![a] = op], op.prop = p,
               docs' = docs, runs' = runs, cut' = cut, audit' = audit,
               HandlerRan(ops[a]) <=> HandlerRan(op),
               OpSettled(op)'
        PROVE  OpSettled(ops[a])' /\ Accounted(p)' /\ Matched(p)'
    <2>1. ops'[a] = op
      BY <1>3, <1>5
    <2>2. OpSettled(ops[a])'
      BY <1>5, <2>1
    <2>3. HandlerRan(ops[a]) <=> HandlerRan(ops[a])'
      BY <1>5, <2>1 DEF HandlerRan
    <2>4. Accounted(ops[a].prop)' /\ Matched(ops[a].prop)'
      BY <1>1, <1>2, <1>5, <2>1, <2>3, StillAccounted
    <2> QED
      BY <1>1, <1>5, <2>1, <2>2, <2>4
  <1>6. CASE InvokeHandler(a)
    <2>1. PICK op : op = [ops[a] EXCEPT !.pc = "handling"]
      OBVIOUS
    <2>2. /\ op.pc = "handling" /\ op.kind = "execute" /\ op.prop = p
          /\ ops'[a] = op /\ ops[a].pc = "handler"
          /\ runs'[p] = runs[p] + 1
          /\ docs' = docs /\ cut' = cut
      BY <1>1, <1>3, <1>4, <1>6, <2>1 DEF InvokeHandler, OpShape, OpSet
    <2>3. docs[p] = "approved"
      BY <1>1, <1>3, <2>2 DEF OpSettled
    <2>4. \A b \in Actors : ~HandlerRan(ops[b])
      BY <1>2, <2>2 DEF HandlerRan, Idle
    <2>5. runs[p] <= cut[p]
      BY <1>3, <2>3, <2>4 DEF Accounted, TerminalStatuses
    <2>6. Accounted(p)'
      <3>1. HandlerRan(ops[a])' /\ ops'[a].prop = p
        BY <2>2 DEF HandlerRan
      <3> QED
        BY <1>4, <2>2, <2>5, <3>1 DEF Accounted
    <2>7. Matched(p)'
      BY <2>2 DEF Matched
    <2>8. OpSettled(ops[a])'
      BY <2>2 DEF OpSettled
    <2> QED
      BY <1>2, <2>6, <2>7, <2>8, StepSettles DEF AllSettled
  <1>7. ASSUME NEW to \in ExecutionTargets, HandlerReturns(a, to)
        PROVE  AllSettled'
    <2>1. PICK op : op = [ops[a] EXCEPT
                            !.pc = "inspect", !.next = to,
                            !.pending = <<Ev(ops[a].prop, "execution", to)>>]
      OBVIOUS
    <2>2. /\ op.pc = "inspect" /\ op.kind = ops[a].kind /\ op.prop = p
          /\ ops[a].kind = "execute" /\ ops[a].pc = "handling"
      BY <1>1, <1>3, <1>7, <2>1 DEF OpSet, OpShape, HandlerReturns
    <2>3. OpSettled(op)' /\ (HandlerRan(ops[a]) <=> HandlerRan(op))
      BY <2>2 DEF OpSettled, HandlerRan
    <2>4. /\ ops' = [ops EXCEPT ![a] = op]
          /\ docs' = docs /\ runs' = runs /\ cut' = cut /\ audit' = audit
      BY <1>7, <2>1 DEF HandlerReturns
    <2> QED
      BY <1>2, <1>5, <2>2, <2>3, <2>4, StepSettles DEF AllSettled
  <1>8. CASE InspectLog(a)
    <2>1. PICK op : op = [ops[a] EXCEPT !.pc = "write", !.tail = Len(audit)]
      OBVIOUS
    <2>2. /\ op.pc = "write" /\ op.kind = ops[a].kind /\ op.prop = p
          /\ ops[a].pc = "inspect"
          /\ ops' = [ops EXCEPT ![a] = op]
          /\ docs' = docs /\ runs' = runs /\ cut' = cut /\ audit' = audit
      BY <1>1, <1>3, <1>8, <2>1 DEF OpSet, InspectLog
    <2>3. OpSettled(op)' /\ (HandlerRan(ops[a]) <=> HandlerRan(op))
      BY <1>1, <1>3, <2>2 DEF OpSettled, HandlerRan
    <2> QED
      BY <1>2, <1>5, <2>2, <2>3, StepSettles DEF AllSettled
  <1>9. CASE WriteEnvelope(a)
    BY <1>1, <1>2, <1>9, WriteSettles, StepSettles DEF AllSettled
  <1>10. CASE CheckDocument(a)
    <2>1. PICK op : op = [ops[a] EXCEPT !.pc = "swap"]
      OBVIOUS
    <2>2. /\ op.pc = "swap" /\ op.kind = ops[a].kind /\ op.prop = p
          /\ op.next = ops[a].next /\ ops[a].pc = "check"
          /\ ops' = [ops EXCEPT ![a] = op]
          /\ docs' = docs /\ runs' = runs /\ cut' = cut /\ audit' = audit
      BY <1>1, <1>3, <1>10, <2>1 DEF OpSet, CheckDocument
    <2>3. OpSettled(op)' /\ (HandlerRan(ops[a]) <=> HandlerRan(op))
      BY <1>1, <1>3, <2>2 DEF OpSettled, HandlerRan, LogSays, Records
    <2> QED
      BY <1>2, <1>5, <2>2, <2>3, StepSettles DEF AllSettled
  <1>11. CASE ReplaceDocument(a)
    <2>1. PICK op : op = [ops[a] EXCEPT !.pc = "readback"]
      OBVIOUS
    <2>2. /\ op.pc = "readback" /\ op.kind = ops[a].kind /\ op.prop = p
          /\ op.next = ops[a].next /\ ops[a].pc = "swap" /\ ops'[a] = op
          /\ runs' = runs /\ cut' = cut /\ audit' = audit
          /\ docs'[p] = op.next
      BY <1>1, <1>3, <1>4, <1>11, <2>1 DEF OpSet, ReplaceDocument
    <2>3. /\ docs[p] = ops[a].seen
          /\ ops[a].kind \in {"decide", "execute"}
      BY <1>1, <1>3, <2>2 DEF Legal, OpShape
    <2>4. docs'[p] \notin TerminalStatuses => docs[p] \notin TerminalStatuses
      <3>1. CASE ops[a].kind = "decide"
        BY <1>3, <2>2, <2>3, <3>1, ConstantsAssumption
           DEF LegalOp, LegalStep, CanTransition, TerminalStatuses, Statuses
      <3>2. CASE ops[a].kind = "execute"
        BY <1>3, <2>2, <2>3, <3>2 DEF LegalOp, TerminalStatuses
      <3> QED
        BY <2>3, <3>1, <3>2
    <2>5. OpSettled(ops[a])'
      BY <1>1, <1>3, <2>2, <2>3 DEF OpSettled, LogSays, Records
    <2>6. Accounted(p)'
      <3>1. ASSUME \A b \in Actors : ops'[b].prop = p => ~HandlerRan(ops[b])'
            PROVE  \A b \in Actors : ops[b].prop = p => ~HandlerRan(ops[b])
        <4>1. ~HandlerRan(Idle)
          BY DEF HandlerRan, Idle
        <4>2. HandlerRan(ops[a]) <=> HandlerRan(ops[a])'
          BY <2>2 DEF HandlerRan
        <4> QED
          BY <1>2, <2>2, <3>1, <4>1, <4>2
      <3> QED
        BY <1>3, <2>2, <2>4, <3>1 DEF Accounted
    <2>7. Matched(p)'
      BY <2>2 DEF Matched
    <2> QED
      BY <1>2, <2>5, <2>6, <2>7, StepSettles DEF AllSettled
  <1>12. CASE \/ RefuseDamagedLog(a) \/ RefuseConflict(a)
              \/ CreateDocument(a) /\ CutShort(a)
              \/ ReadBack(a) /\ CutShort(a)
    <2>1. CutShort(a) /\ runs' = runs
      BY <1>12 DEF RefuseDamagedLog, RefuseConflict, CreateDocument, ReadBack
    <2>2. ops'[a] = Idle
      BY <1>3, <2>1 DEF CutShort
    <2> QED
      BY <1>1, <1>2, <2>1, <2>2, CutSettles, IdleSettles, StepSettles
         DEF AllSettled
  <1>13. CASE \/ CreateDocument(a) /\ Finish(a)
              \/ ReadBack(a) /\ Finish(a)
    <2>1. /\ ops'[a] = Idle /\ runs' = runs /\ cut' = cut /\ audit' = audit
          /\ ops[a].pc \in {"create", "readback"}
      BY <1>3, <1>13 DEF CreateDocument, ReadBack, Finish
    <2>2. docs'[p] = ops[a].next
      <3>1. CASE CreateDocument(a) /\ Finish(a)
        <4>1. ops[a].kind = "submit" /\ docs[p] = NoDoc
          BY <1>1, <1>3, <3>1 DEF CreateDocument, OpShape, OpSettled
        <4> QED
          BY <1>1, <1>4, <3>1, <4>1 DEF CreateDocument
      <3>2. CASE ReadBack(a) /\ Finish(a)
        BY <1>1, <1>3, <3>2 DEF ReadBack, OpSettled
      <3> QED
        BY <1>13, <3>1, <3>2
    <2>3. OpSettled(ops[a])'
      BY <2>1, IdleSettles
    <2>4. Matched(p)'
      <3>1. cut[p] = 0 => LogSays(p, ops[a].next)
        BY <1>1, <1>3, <2>1 DEF OpSettled
      <3> QED
        BY <2>1, <2>2, <3>1 DEF Matched, LogSays, Records
    <2>5. Accounted(p)'
      <3>1. CASE ops[a].kind = "execute"
        <4>1. docs'[p] \in TerminalStatuses
          BY <1>3, <2>1, <2>2, <3>1, ExecutionTargetsAre
             DEF LegalOp, TerminalStatuses
        <4> QED
          BY <1>3, <2>1, <4>1 DEF Accounted
      <3>2. CASE ops[a].kind # "execute"
        <4>1. \A b \in Actors : ~HandlerRan(ops[b])
          BY <1>2, <3>2 DEF HandlerRan, Idle
        <4>2. docs'[p] \notin TerminalStatuses
                => docs[p] \notin TerminalStatuses
          <5>1. CASE ReadBack(a)
            BY <1>1, <1>3, <2>2, <5>1 DEF ReadBack
          <5>2. CASE CreateDocument(a)
            <6>1. docs[p] = NoDoc
              BY <1>1, <1>3, <5>2 DEF CreateDocument, OpShape, OpSettled
            <6> QED
              BY <6>1, ConstantsAssumption DEF TerminalStatuses, Statuses
          <5> QED
            BY <1>13, <5>1, <5>2
        <4> QED
          BY <1>3, <2>1, <4>1, <4>2 DEF Accounted
      <3> QED
        BY <3>1, <3>2
    <2> QED
      BY <1>2, <2>3, <2>4, <2>5, StepSettles DEF AllSettled
  <1>14. CreateDocument(a) \/ ReadBack(a) => Finish(a) \/ CutShort(a)
    BY DEF CreateDocument, ReadBack
  <1> QED
    BY <1>6, <1>7, <1>8, <1>9, <1>10, <1>11, <1>12, <1>13, <1>14 DEF Continue

LEMMA FailSettles ==
  ASSUME Shape, Discipline, Grant, Settled, Exclusive,
         NEW a \in Actors, Fail(a)
  PROVE  AllSettled'
  <1>1. CutShort(a) /\ runs' = runs
    BY DEF Fail, AppendFails, AppendTears, AppendUnreported, PublishFails,
           PublishUnreported, Crash
  <1>2. ops'[a] = Idle
    BY <1>1 DEF CutShort, Shape, TypeOK
  <1>3. PICK p \in Proposals : p = ops[a].prop
    BY RunsAlone
  <1>4. Alone(a, p)
    BY <1>3, RunsAlone
  <1> QED
    BY <1>1, <1>2, <1>3, <1>4, CutSettles, IdleSettles, StepSettles
       DEF AllSettled

LEMMA NextDrawn ==
  ASSUME Shape, Drawn, Next
  PROVE  Drawn'
  <1>1. PICK a \in Actors : BeginStep(a) \/ Continue(a) \/ Fail(a)
    BY DEF Next
  <1>2. /\ \A b \in Actors : b # a => ops'[b] = ops[b]
        /\ Continue(a) \/ Fail(a) => Running(a)
    BY <1>1, StepOfOne
  <1>3. /\ ops \in [Actors -> OpSet] /\ OpShape(ops[a])
        /\ docs \in [Proposals -> Statuses \cup {NoDoc}]
    BY DEF Shape, TypeOK
  <1>4. CASE BeginStep(a)
    <2>1. PICK p \in Proposals :
            /\ docs' = docs
            /\ \/ /\ submitted' = submitted \cup {p}
                  /\ \E valid \in BOOLEAN :
                       ops' = [ops EXCEPT ![a] = Submission(p, valid)]
               \/ /\ submitted' = submitted /\ docs[p] # NoDoc
                  /\ \/ \E d \in Decisions : ops' = [ops EXCEPT ![a] = Decision(p, d)]
                     \/ ops' = [ops EXCEPT ![a] = Execution(p)]
      BY <1>4, ConstantsAssumption
         DEF BeginStep, BeginSubmit, BeginDecision, BeginExecution, Begin,
             Statuses
    <2>2. p \in submitted' /\ submitted \subseteq submitted'
      BY <2>1 DEF Drawn
    <2>3. ops'[a].prop = p
      <3>1. \A valid \in BOOLEAN : Submission(p, valid).prop = p
        BY DEF Submission, Idle
      <3>2. \A d \in Decisions : Decision(p, d).prop = p
        BY DEF Decision, Idle
      <3>3. Execution(p).prop = p
        BY DEF Execution, Idle
      <3>4. \/ \E valid \in BOOLEAN : ops'[a] = Submission(p, valid)
            \/ \E d \in Decisions : ops'[a] = Decision(p, d)
            \/ ops'[a] = Execution(p)
        BY <1>3, <2>1
      <3> QED
        BY <3>1, <3>2, <3>3, <3>4
    <2>4. \A b \in Actors : Running(b)' => ops'[b].prop \in submitted'
      BY <1>2, <2>2, <2>3 DEF Drawn, Running
    <2> QED
      BY <2>1, <2>2, <2>4 DEF Drawn
  <1>5. CASE Continue(a) \/ Fail(a)
    <2>1. submitted' = submitted
      BY <1>5 DEF Continue, InvokeHandler, HandlerReturns,
         InspectLog, RefuseDamagedLog, WriteEnvelope, CreateDocument,
         CheckDocument, RefuseConflict, ReplaceDocument, ReadBack, Fail,
         AppendFails, AppendTears, AppendUnreported, PublishFails,
         PublishUnreported, Crash
    <2>2. ops[a].prop \in submitted
      BY <1>2, <1>5 DEF Drawn
    <2>3. \A p \in Proposals : docs'[p] # docs[p] => p = ops[a].prop
      BY <1>3, <1>5 DEF Continue, InvokeHandler, HandlerReturns,
         InspectLog, RefuseDamagedLog, WriteEnvelope, CreateDocument,
         CheckDocument, RefuseConflict, ReplaceDocument, ReadBack, Fail,
         AppendFails, AppendTears, AppendUnreported, PublishFails,
         PublishUnreported, Crash
    <2>4. ops'[a].prop = ops[a].prop \/ ops'[a] = Idle
      <3>1. CASE ops' = [ops EXCEPT ![a] = Idle]
        BY <1>3, <3>1
      <3>2. CASE WriteEnvelope(a)
        BY <1>3, <3>2 DEF WriteEnvelope, AfterAppend, OpShape, OpSet
      <3>3. CASE \/ InvokeHandler(a) \/ InspectLog(a) \/ CheckDocument(a)
                 \/ ReplaceDocument(a)
        BY <1>3, <3>3 DEF InvokeHandler, InspectLog, CheckDocument,
           ReplaceDocument, OpShape, OpSet
      <3>4. ASSUME NEW to \in ExecutionTargets, HandlerReturns(a, to)
            PROVE  ops'[a].prop = ops[a].prop
        BY <1>3, <3>4 DEF HandlerReturns, OpShape, OpSet
      <3> QED
        BY <1>5, <3>1, <3>2, <3>3, <3>4 DEF Continue, Fail, RefuseDamagedLog,
           CreateDocument, RefuseConflict, ReadBack, AppendFails, AppendTears,
           AppendUnreported, PublishFails, PublishUnreported, Crash, Finish,
           CutShort
    <2> QED
      BY <1>2, <2>1, <2>2, <2>3, <2>4 DEF Drawn, Running, Idle
  <1> QED
    BY <1>1, <1>4, <1>5

LEMMA InitSettled == Init => Settled
  <1> SUFFICES ASSUME Init PROVE Settled
    OBVIOUS
  <1>1. \A p \in Proposals : LogSays(p, NoDoc)
    BY DEF Init, LogSays
  <1>2. \A a \in Actors : OpSettled(ops[a])
    BY DEF Init, OpSettled, Idle
  <1>3. \A p \in Proposals : Accounted(p) /\ Matched(p)
    BY <1>1 DEF Init, Accounted, Matched
  <1> QED
    BY <1>2, <1>3 DEF Init, Settled, Drawn, AllSettled, Running, Idle

LEMMA NextSettled ==
  ASSUME Shape, Discipline, Grant, Legal, Settled, [Next]_vars
  PROVE  Settled'
  <1>1. CASE UNCHANGED vars
    BY <1>1
       DEF Settled, Drawn, AllSettled, OpSettled, Accounted, Matched,
           HandlerRan, LogSays, Records, Running, vars
  <1>2. CASE Next
    <2>1. Drawn'
      BY <1>2, NextDrawn DEF Drawn, Settled, AllSettled
    <2>2. Exclusive => AllSettled'
      BY <1>2, BeginSettles, ContinueSettles, FailSettles DEF Next
    <2> QED
      BY <2>1, <2>2 DEF Settled, Drawn, AllSettled
  <1> QED
    BY <1>1, <1>2

(* Under the single-writer discipline the documents, the handler runs and  *)
(* the log agree about every proposal none of whose operations is running  *)
(* or was cut short.                                                       *)
THEOREM SettledInvariant == Spec => []Settled
  <1>1. Init => Shape /\ Discipline /\ Grant /\ Legal /\ Settled
    BY InitShape, InitDiscipline, InitGrant, InitLegal, InitSettled
  <1>2. Shape /\ Discipline /\ Grant /\ Legal /\ Settled /\ [Next]_vars
          => Shape' /\ Discipline' /\ Grant' /\ Legal' /\ Settled'
    BY NextShape, NextDiscipline, NextGrant, NextLegal, NextSettled
  <1> QED
    BY <1>1, <1>2, PTL DEF Spec

(* Under the single-writer discipline a handler runs again only for as     *)
(* many operations on its proposal as were cut short.                      *)
THEOREM RerunsHaveACause == Spec => []RerunsAreAccounted
  <1>1. Settled => RerunsAreAccounted
    BY DEF Settled, Drawn, AllSettled, Accounted, RerunsAreAccounted
  <1> QED
    BY <1>1, SettledInvariant, PTL

(* Under the same discipline, a document that nothing is running on and    *)
(* nothing was cut short on says what the last audit event about it says.  *)
THEOREM QuietDocumentsMatch == Spec => []DocumentMatchesTrail
  <1>1. Shape /\ Settled => DocumentMatchesTrail
    BY LastIsUnique
       DEF Settled, Drawn, AllSettled, Matched, DocumentMatchesTrail
  <1> QED
    BY <1>1, ShapeInvariant, SettledInvariant, PTL

-----------------------------------------------------------------------------
(* Under the single-writer discipline a refused, cancelled or finished     *)
(* proposal is over: its document stays, and its handler does not run.     *)
FinalStatusStands ==
  [][Exclusive => \A p \in Proposals :
       docs[p] \in TerminalStatuses => docs'[p] = docs[p] /\ runs'[p] = runs[p]]_vars

(* A step that runs a handler runs it for an approved document. *)
LEMMA RunsAreOfApproved ==
  ASSUME Shape, Settled, Next, Exclusive, NEW p \in Proposals, runs'[p] # runs[p]
  PROVE  docs[p] = "approved"
  <1>1. PICK a \in Actors : BeginStep(a) \/ Continue(a) \/ Fail(a)
    BY DEF Next
  <1>2. CASE InvokeHandler(a)
    <2>1. ops[a].pc = "handler" /\ p = ops[a].prop
      BY <1>2 DEF InvokeHandler, Shape, TypeOK
    <2> QED
      BY <2>1 DEF Settled, AllSettled, OpSettled
  <1>3. CASE ~InvokeHandler(a)
    <2>1. runs' = runs
      BY <1>1, <1>3 DEF BeginStep, BeginSubmit, BeginDecision, BeginExecution,
           Continue, HandlerReturns, InspectLog, RefuseDamagedLog, WriteEnvelope,
           CreateDocument, CheckDocument, RefuseConflict, ReplaceDocument,
           ReadBack, Fail, AppendFails, AppendTears, AppendUnreported,
           PublishFails, PublishUnreported, Crash
    <2> QED
      BY <2>1
  <1> QED
    BY <1>2, <1>3

(* A rejected or cancelled proposal never runs, and one that succeeded or  *)
(* failed never runs again, whatever crashes (the terminal statuses of     *)
(* actions/transitions.py, kept from one command to the next by the        *)
(* documents on disk).                                                     *)
THEOREM DecisionsStand == Spec => FinalStatusStands
  <1>1. Init => Shape /\ Discipline /\ Grant /\ Legal /\ Settled
    BY InitShape, InitDiscipline, InitGrant, InitLegal, InitSettled
  <1>2. Shape /\ Discipline /\ Grant /\ Legal /\ Settled /\ [Next]_vars
          => Shape' /\ Discipline' /\ Grant' /\ Legal' /\ Settled'
    BY NextShape, NextDiscipline, NextGrant, NextLegal, NextSettled
  <1>3. ASSUME Shape, Discipline, Grant, Legal, Settled, Next, Exclusive,
               NEW p \in Proposals, docs[p] \in TerminalStatuses
        PROVE  docs'[p] = docs[p] /\ runs'[p] = runs[p]
    <2>1. docs[p] # "approved"
      BY <1>3 DEF TerminalStatuses
    <2>2. docs[p] # NoDoc
      BY <1>3, ConstantsAssumption DEF TerminalStatuses, Statuses
    <2>3. ~LegalStep(docs[p], docs'[p])
      BY <1>3, <2>1, <2>2 DEF LegalStep, CanTransition
    <2> QED
      BY <1>3, <2>1, <2>3, StepMovesLegally, RunsAreOfApproved
  <1>4. Shape /\ Discipline /\ Grant /\ Legal /\ Settled /\ [Next]_vars
          => [Exclusive => \A p \in Proposals :
                docs[p] \in TerminalStatuses =>
                  docs'[p] = docs[p] /\ runs'[p] = runs[p]]_vars
    BY <1>3
  <1> QED
    BY <1>1, <1>2, <1>4, PTL DEF Spec, FinalStatusStands

-----------------------------------------------------------------------------
(* The workflow implements the abstract audit log. *)

LEMMA StepExtendsLog ==
  ASSUME Shape, [Next]_vars
  PROVE  [Log!Next]_<<audit, health, ReadLog>>
  <1>1. CASE UNCHANGED vars
    BY <1>1 DEF vars, ReadLog
  <1>2. ASSUME NEW a \in Actors, BeginStep(a)
        PROVE  UNCHANGED <<audit, health, ReadLog>>
    BY <1>2 DEF BeginStep, BeginSubmit, BeginDecision, BeginExecution, ReadLog
  <1>3. ASSUME NEW a \in Actors, ops[a].pc = "write"
        PROVE  Head(ops[a].pending) \in Event
    <2>1. ops[a].pending \in Seq(Event) /\ ops[a].pending # <<>>
      BY <1>3 DEF Shape, OpShape, OpSet, TypeOK
    <2> QED
      BY <2>1, HeadTailProperties
  <1>4. ASSUME NEW a \in Actors, ops[a].pc = "write", health # "torn",
               audit' = Append(audit, Head(ops[a].pending)),
               health' \in {"forked", health}
        PROVE  Log!Next
    <2>1. health' # "torn"
      BY <1>4
    <2>2. ReadLog' = Log!Returns(audit')
      BY <2>1 DEF ReadLog, Log!Returns
    <2> QED
      BY <1>3, <1>4, <2>2 DEF Log!Next, Log!Extend
  <1>5. health \in {"sound", "forked", "torn"}
    BY DEF Shape, TypeOK
  <1>6. ASSUME NEW a \in Actors, Continue(a)
        PROVE  [Log!Next]_<<audit, health, ReadLog>>
    <2>1. CASE WriteEnvelope(a)
      <3>1. CASE health = "torn"
        BY <2>1, <3>1 DEF WriteEnvelope, ReadLog
      <3>2. CASE health # "torn"
        BY <1>4, <1>5, <2>1, <3>2 DEF WriteEnvelope
      <3> QED
        BY <3>1, <3>2
    <2>2. CASE ~WriteEnvelope(a)
      BY <1>6, <2>2 DEF ReadLog, Continue, InvokeHandler, HandlerReturns, InspectLog,
         RefuseDamagedLog, CreateDocument, CheckDocument, RefuseConflict,
         ReplaceDocument, ReadBack
    <2> QED
      BY <2>1, <2>2
  <1>7. ASSUME NEW a \in Actors, Fail(a)
        PROVE  [Log!Next]_<<audit, health, ReadLog>>
    <2>1. CASE AppendTears(a)
      BY <2>1 DEF AppendTears, ReadLog, Log!Next, Log!Tear, Log!Raises
    <2>2. CASE AppendUnreported(a)
      BY <1>4, <1>5, <2>2 DEF AppendUnreported
    <2>3. CASE AppendFails(a) \/ PublishFails(a) \/ PublishUnreported(a) \/ Crash(a)
      BY <2>3 DEF AppendFails, PublishFails, PublishUnreported, Crash, ReadLog
    <2> QED
      BY <1>7, <2>1, <2>2, <2>3 DEF Fail
  <1> QED
    BY <1>1, <1>2, <1>6, <1>7 DEF Next

(* Every behaviour of the workflow is a behaviour of the abstract audit    *)
(* log: nothing it does loses or reorders an event recorded.               *)
THEOREM WorkflowImplementsLog == Spec => ImplementsLog
  <1>1. Init => Log!Init
    BY DEF Init, ReadLog, Log!Init, Log!Returns
  <1>2. Shape /\ [Next]_vars => [Log!Next]_<<audit, health, ReadLog>>
    BY StepExtendsLog
  <1> QED
    BY <1>1, <1>2, ShapeInvariant, PTL DEF Spec, ImplementsLog, Log!Spec

-----------------------------------------------------------------------------
(***************************************************************************)
(* The other side of AuditLog: theorems about AuditChain, for every number *)
(* of writers, lines, faults and edits.  ChainShape is inductive; what the *)
(* verifier and the reader make of a file is proved about any sequence of  *)
(* lines, and then applied to the file before and after a step.            *)
(***************************************************************************)

(* Lines whose envelopes hold an event and a hash that was given to one. *)
HashedLines(given) ==
  {l \in Lines : l.form = "envelope" => l.event \in Events /\ l.hash \in given}

(* Types; no hash is in the file that no writer computed; and without      *)
(* hands and the plain store every line is an envelope or damage.          *)
ChainShape ==
  /\ ChainTypeOK
  /\ file \in Seq(HashedLines(attested))
  /\ \A w \in Writers : writer[w].pc = "write" => writer[w].event \in Events
  /\ Promised => \A i \in DOMAIN file : file[i].form # "plain"

(* The events of the first n lines, and the lines that do not parse. *)
EventsUpTo(f, n) == [i \in 1..n |-> f[i].event]
BadLines(f) == {i \in DOMAIN f : f[i].form \in {"broken", "partial"}}

(* EventsRecorded and Health, of any file. *)
WholeUpTo(f) == IF BadLines(f) = {} THEN Len(f)
               ELSE (CHOOSE i \in BadLines(f) : \A j \in BadLines(f) : i <= j) - 1
HealthOf(f) == IF Valid(f) THEN "sound"
               ELSE IF FileFormat(f) = "integrity" THEN "forked" ELSE "torn"

(* ReadAll of any file, and what it is for a log of that health.           *)
ReadingOf(f) ==
  IF FileFormat(f) \in {"empty", "integrity"}
    THEN [raised |-> FALSE, events |-> [i \in DOMAIN f |-> f[i].event]]
    ELSE [raised |-> TRUE, events |-> <<>>]
Reading(h, events) == IF h = "torn" THEN [raised |-> TRUE, events |-> <<>>]
                                    ELSE [raised |-> FALSE, events |-> events]

(* One writer at a time, and nobody else on the file: the one that writes  *)
(* has verified the file as it still is, so the chain is never forked.     *)
ChainTurns ==
  cast.exclusive /\ Promised =>
    /\ \A v, w \in Writers :
         writer[v].pc = "write" /\ writer[w].pc = "write" => v = w
    /\ \A w \in Writers : writer[w].pc = "write" =>
         Health = "sound" /\ writer[w].tail = TailHash(file)
    /\ Health # "forked"

NoPlain(f) == \A i \in DOMAIN f : f[i].form # "plain"

-----------------------------------------------------------------------------
(* Every non-empty set of naturals has a least element: the form in which  *)
(* induction over the lines of the file is used below.                     *)
LEMMA LeastElement ==
  ASSUME NEW S, S \subseteq Nat, S # {}
  PROVE  \E n \in S : \A m \in S : n <= m
  <1>1. \E n \in S : \A m \in S : ~(<<m, n>> \in OpToRel(<, Nat))
    BY NatLessThanWellFounded, WFMin
  <1>2. \A m, n \in Nat : m < n => <<m, n>> \in OpToRel(<, Nat)
    BY DEF OpToRel
  <1>3. \E n \in S : \A m \in S : ~(m < n)
    BY <1>1, <1>2, Zenon
  <1> QED
    BY <1>3

(* A line taken out of, or copied into, a sequence leaves a sequence of    *)
(* the same set.                                                           *)
LEMMA EditedSequence ==
  ASSUME NEW S, NEW f \in Seq(S), NEW i \in DOMAIN f, NEW j \in 1..(Len(f) + 1)
  PROVE  /\ RemoveAt(f, i) \in Seq(S)
         /\ InsertAt(f, j, f[i]) \in Seq(S)
  <1>1. Len(f) \in Nat /\ DOMAIN f = 1..Len(f) /\ f[i] \in S
    OBVIOUS
  <1>2. SubSeq(f, 1, i - 1) \in Seq(S) /\ SubSeq(f, i + 1, Len(f)) \in Seq(S)
    BY <1>1
  <1>3. SubSeq(f, 1, j - 1) \in Seq(S) /\ SubSeq(f, j, Len(f)) \in Seq(S)
    BY <1>1
  <1>4. <<f[i]>> \in Seq(S)
    BY <1>1
  <1>5. RemoveAt(f, i) \in Seq(S)
    BY <1>2, ConcatProperties DEF RemoveAt
  <1>6. SubSeq(f, 1, j - 1) \o <<f[i]>> \in Seq(S)
    BY <1>3, <1>4, ConcatProperties
  <1>7. InsertAt(f, j, f[i]) \in Seq(S)
    BY <1>3, <1>6, ConcatProperties DEF InsertAt
  <1> QED
    BY <1>5, <1>7

(* More hashes given: more lines are hashed. *)
LEMMA HashedLinesGrow ==
  ASSUME NEW g, NEW h, g \subseteq h
  PROVE  Seq(HashedLines(g)) \subseteq Seq(HashedLines(h))
  <1>1. HashedLines(g) \subseteq HashedLines(h)
    BY DEF HashedLines
  <1> QED
    BY <1>1

(* Writing a hashed line leaves hashed lines. *)
LEMMA WrittenType ==
  ASSUME NEW g, NEW f \in Seq(HashedLines(g)), NEW line \in HashedLines(g)
  PROVE  Written(f, line) \in Seq(HashedLines(g))
  <1>1. Text("broken") \in HashedLines(g)
    BY DEF Text, HashedLines, Lines
  <1>2. CASE f # <<>> /\ f[Len(f)].form = "partial"
    <2>1. PICK l \in HashedLines(g) : Written(f, line) = [f EXCEPT ![Len(f)] = l]
      BY <1>1, <1>2 DEF Written
    <2>2. Len(f) \in 1..Len(f)
      BY <1>2
    <2> QED
      BY <2>1, <2>2, ExceptSeq
  <1>3. CASE ~(f # <<>> /\ f[Len(f)].form = "partial")
    <2>1. Written(f, line) = Append(f, line)
      BY <1>3 DEF Written
    <2> QED
      BY <2>1
  <1> QED
    BY <1>2, <1>3

(* What the lines written are. *)
LEMMA TextType ==
  ASSUME NEW g, NEW form \in {"broken", "partial"}
  PROVE  Text(form) \in HashedLines(g)
  BY DEF Text, HashedLines, Lines

LEMMA PlainType ==
  ASSUME NEW g, NEW e \in Events
  PROVE  Plain(e) \in HashedLines(g)
  BY DEF Plain, HashedLines, Lines

LEMMA EnvelopeType ==
  ASSUME NEW g, NEW e \in Events, NEW prev \in Seq(Events)
  PROVE  /\ Envelope(e, prev).hash \in Seq(Events)
         /\ Envelope(e, prev) \in HashedLines(g \cup {Envelope(e, prev).hash})
  <1>1. Append(prev, e) \in Seq(Events)
    OBVIOUS
  <1> QED
    BY <1>1 DEF Envelope, EventHash, HashedLines, Lines

-----------------------------------------------------------------------------
(* The shape of the file and its writers. *)

LEMMA ChainShapeInit == ChainInit => ChainShape
  <1> SUFFICES ASSUME ChainInit
               PROVE  ChainShape
    OBVIOUS
  <1>1. /\ cast \in Casts /\ attested = {} /\ edits = 0 /\ writeFaults = 0
        /\ writer = [w \in Writers |-> IdleWriter]
    BY DEF ChainInit
  <1>2. file = <<>> \/ (cast.plain /\ \E e \in Events : file = <<Plain(e)>>)
    BY DEF ChainInit
  <1>3. file \in Seq(HashedLines(attested))
    <2>1. \A e \in Events : <<Plain(e)>> \in Seq(HashedLines(attested))
      BY PlainType
    <2>2. <<>> \in Seq(HashedLines(attested))
      BY EmptySeq
    <2> QED
      BY <1>2, <2>1, <2>2
  <1>4. Seq(HashedLines(attested)) \subseteq Seq(Lines)
    BY DEF HashedLines
  <1>5. ChainTypeOK
    BY <1>1, <1>3, <1>4, ChainAssumption DEF ChainTypeOK, IdleWriter
  <1>6. \A w \in Writers : writer[w].pc # "write"
    BY <1>1 DEF IdleWriter
  <1>7. Promised => \A i \in DOMAIN file : file[i].form # "plain"
    BY <1>2 DEF Promised
  <1> QED
    BY <1>3, <1>5, <1>6, <1>7 DEF ChainShape

(* A process that stops writing leaves the other processes as they were. *)
LEMMA WriterStops ==
  ASSUME ChainShape, NEW w \in Writers,
         writer' = [writer EXCEPT ![w] = IdleWriter]
  PROVE  /\ writer' \in [Writers -> [pc : {"idle", "write"},
                                     event : Events \cup {NoEvent},
                                     tail : Seq(Events)]]
         /\ \A v \in Writers : writer'[v].pc = "write" => writer'[v].event \in Events
  <1>1. IdleWriter \in [pc : {"idle", "write"}, event : Events \cup {NoEvent},
                        tail : Seq(Events)]
    BY DEF IdleWriter
  <1>2. \A v \in Writers : writer'[v] = IF v = w THEN IdleWriter ELSE writer[v]
    BY DEF ChainShape, ChainTypeOK
  <1> QED
    BY <1>1, <1>2 DEF ChainShape, ChainTypeOK, IdleWriter

(* What a new line adds to the lines that are not plain. *)
LEMMA WrittenNotPlain ==
  ASSUME NEW f \in Seq(Lines), NEW line \in Lines, line.form # "plain",
         \A i \in DOMAIN f : f[i].form # "plain"
  PROVE  \A i \in DOMAIN Written(f, line) : Written(f, line)[i].form # "plain"
  <1>1. CASE f # <<>> /\ f[Len(f)].form = "partial"
    <2>1. PICK l : /\ l.form # "plain"
                   /\ Written(f, line) = [f EXCEPT ![Len(f)] = l]
      BY <1>1 DEF Written, Text
    <2> QED
      BY <2>1
  <1>2. CASE ~(f # <<>> /\ f[Len(f)].form = "partial")
    <2>1. Written(f, line) = Append(f, line)
      BY <1>2 DEF Written
    <2> QED
      BY <2>1
  <1> QED
    BY <1>1, <1>2

LEMMA ChainShapeInspect ==
  ASSUME ChainShape, NEW w \in Writers, NEW e \in Events, Inspect(w, e)
  PROVE  ChainShape'
  <1>1. /\ writer' = [writer EXCEPT
             ![w] = [pc |-> "write", event |-> e, tail |-> TailHash(file)]]
        /\ UNCHANGED <<cast, file, attested, writeFaults, edits>>
    BY DEF Inspect
  <1>2. file \in Seq(Lines)
    BY DEF ChainShape, ChainTypeOK
  <1>3. TailHash(file) \in Seq(Events)
    <2>1. CASE file = <<>>
      BY <2>1 DEF TailHash
    <2>2. CASE file # <<>>
      <3>1. file[Len(file)] \in Lines
        BY <1>2, <2>2
      <3> QED
        BY <2>2, <3>1 DEF TailHash, Lines
    <2> QED
      BY <2>1, <2>2
  <1>4. \A v \in Writers :
          writer'[v] = IF v = w THEN [pc |-> "write", event |-> e, tail |-> TailHash(file)]
                                ELSE writer[v]
    BY <1>1 DEF ChainShape, ChainTypeOK
  <1>5. ChainTypeOK'
    BY <1>1, <1>3 DEF ChainShape, ChainTypeOK
  <1> QED
    BY <1>1, <1>4, <1>5 DEF ChainShape, Promised

LEMMA ChainShapeWrite ==
  ASSUME ChainShape, NEW w \in Writers, Write(w)
  PROVE  ChainShape'
  <1> DEFINE line == Envelope(writer[w].event, writer[w].tail)
  <1>1. /\ file' = Written(file, line)
        /\ attested' = attested \cup {line.hash}
        /\ writer' = [writer EXCEPT ![w] = IdleWriter]
        /\ UNCHANGED <<cast, writeFaults, edits>>
    BY DEF Write
  <1>2. writer[w].event \in Events /\ writer[w].tail \in Seq(Events)
    BY DEF Write, ChainShape, ChainTypeOK
  <1>3. line.hash \in Seq(Events) /\ line \in HashedLines(attested')
    BY <1>1, <1>2, EnvelopeType
  <1>4. file \in Seq(HashedLines(attested'))
    BY <1>1, HashedLinesGrow DEF ChainShape
  <1> HIDE DEF line
  <1>5. file' \in Seq(HashedLines(attested'))
    BY <1>1, <1>3, <1>4, WrittenType
  <1>6. file' \in Seq(Lines)
    BY <1>5 DEF HashedLines
  <1>7. ChainTypeOK'
    BY <1>1, <1>3, <1>6, WriterStops DEF ChainShape, ChainTypeOK
  <1>8. Promised' => \A i \in DOMAIN file' : file'[i].form # "plain"
    <2>1. line.form # "plain" /\ line \in Lines
      BY <1>3 DEF line, Envelope, HashedLines
    <2>2. Promised' => Promised
      BY <1>1 DEF Promised
    <2> QED
      BY <1>1, <2>1, <2>2, WrittenNotPlain DEF ChainShape, ChainTypeOK
  <1> QED
    BY <1>1, <1>5, <1>7, <1>8, WriterStops DEF ChainShape

(* A torn line, whether a writer's or the plain store's. *)
LEMMA TornShape ==
  ASSUME ChainShape, file' = Written(file, Text("partial")),
         UNCHANGED <<cast, attested>>
  PROVE  /\ file' \in Seq(HashedLines(attested'))
         /\ Promised' => \A i \in DOMAIN file' : file'[i].form # "plain"
  <1>1. Text("partial") \in HashedLines(attested)
    BY TextType
  <1>2. file' \in Seq(HashedLines(attested'))
    BY <1>1, WrittenType DEF ChainShape
  <1>3. Text("partial") \in Lines /\ Text("partial").form # "plain"
    BY <1>1 DEF HashedLines, Text
  <1> QED
    BY <1>2, <1>3, WrittenNotPlain DEF ChainShape, ChainTypeOK, Promised

LEMMA ChainShapeTear ==
  ASSUME ChainShape, NEW w \in Writers, Tear(w)
  PROVE  ChainShape'
  <1>1. /\ file' = Written(file, Text("partial"))
        /\ writer' = [writer EXCEPT ![w] = IdleWriter]
        /\ writeFaults < cast.faults /\ writeFaults' = writeFaults + 1
        /\ UNCHANGED <<cast, attested, edits>>
    BY DEF Tear
  <1>2. file' \in Seq(Lines)
    BY <1>1, TornShape DEF HashedLines
  <1>3. writeFaults' \in 0..MaxWriteFaults
    BY <1>1, ChainAssumption DEF ChainShape, ChainTypeOK
  <1>4. ChainTypeOK'
    BY <1>1, <1>2, <1>3, WriterStops DEF ChainShape, ChainTypeOK
  <1> QED
    BY <1>1, <1>4, TornShape, WriterStops DEF ChainShape

LEMMA ChainShapeWriteFails ==
  ASSUME ChainShape, NEW w \in Writers, WriteFails(w)
  PROVE  ChainShape'
  <1>1. /\ writer' = [writer EXCEPT ![w] = IdleWriter]
        /\ writeFaults < cast.faults /\ writeFaults' = writeFaults + 1
        /\ UNCHANGED <<cast, file, attested, edits>>
    BY DEF WriteFails
  <1>2. writeFaults' \in 0..MaxWriteFaults
    BY <1>1, ChainAssumption DEF ChainShape, ChainTypeOK
  <1>3. ChainTypeOK'
    BY <1>1, <1>2, WriterStops DEF ChainShape, ChainTypeOK
  <1> QED
    BY <1>1, <1>3, WriterStops DEF ChainShape, Promised

LEMMA ChainShapePlain ==
  ASSUME ChainShape, PlainTear \/ \E e \in Events : PlainAppend(e)
  PROVE  ChainShape'
  <1>1. cast.plain /\ UNCHANGED <<cast, writer, attested, edits>>
    BY DEF PlainTear, PlainAppend
  <1>2. file' \in Seq(HashedLines(attested'))
    <2>1. PICK line \in HashedLines(attested) : file' = Written(file, line)
      BY TextType, PlainType DEF PlainTear, PlainAppend
    <2> QED
      BY <1>1, <2>1, WrittenType DEF ChainShape
  <1>3. file' \in Seq(Lines)
    BY <1>2 DEF HashedLines
  <1>4. writeFaults' \in 0..MaxWriteFaults
    BY ChainAssumption DEF ChainShape, ChainTypeOK, PlainTear, PlainAppend
  <1>5. ChainTypeOK'
    BY <1>1, <1>3, <1>4 DEF ChainShape, ChainTypeOK
  <1>6. ~Promised'
    BY <1>1 DEF Promised
  <1> QED
    BY <1>1, <1>2, <1>5, <1>6 DEF ChainShape

(* A hashed envelope with one field changed is a hashed envelope. *)
LEMMA EditedEnvelope ==
  ASSUME NEW g, g \subseteq Seq(Events), NEW l \in HashedLines(g),
         l.form = "envelope"
  PROVE  /\ \A e \in Events : [l EXCEPT !.event = e] \in HashedLines(g)
         /\ \A h \in g : [l EXCEPT !.hash = h] \in HashedLines(g)
         /\ \A h \in g \cup {<<>>} : [l EXCEPT !.prev = h] \in HashedLines(g)
  <1>1. l \in Lines /\ l.event \in Events /\ l.hash \in g
    BY DEF HashedLines
  <1>2. ASSUME NEW e \in Events
        PROVE  [l EXCEPT !.event = e] \in HashedLines(g)
    <2>1. [l EXCEPT !.event = e] \in Lines
      BY <1>1 DEF Lines
    <2>2. [l EXCEPT !.event = e].event = e /\ [l EXCEPT !.event = e].hash = l.hash
      BY <1>1 DEF Lines
    <2> QED
      BY <1>1, <2>1, <2>2 DEF HashedLines
  <1>3. ASSUME NEW h \in g
        PROVE  [l EXCEPT !.hash = h] \in HashedLines(g)
    <2>1. [l EXCEPT !.hash = h] \in Lines
      BY <1>1 DEF Lines
    <2>2. [l EXCEPT !.hash = h].event = l.event /\ [l EXCEPT !.hash = h].hash = h
      BY <1>1 DEF Lines
    <2> QED
      BY <1>1, <2>1, <2>2 DEF HashedLines
  <1>4. ASSUME NEW h \in g \cup {<<>>}
        PROVE  [l EXCEPT !.prev = h] \in HashedLines(g)
    <2>1. [l EXCEPT !.prev = h] \in Lines
      <3>1. g \cup {<<>>} \subseteq Seq(Events)
        BY EmptySeq
      <3> QED
        BY <1>1, <3>1 DEF Lines
    <2>2. [l EXCEPT !.prev = h].event = l.event /\ [l EXCEPT !.prev = h].hash = l.hash
      BY <1>1 DEF Lines
    <2> QED
      BY <1>1, <2>1, <2>2 DEF HashedLines
  <1> QED
    BY <1>2, <1>3, <1>4

(* Whoever edits by hand has only the lines and the hashes that are there. *)
LEMMA HandEditIsHashed ==
  ASSUME ChainShape, HandEdit
  PROVE  \E f \in Seq(HashedLines(attested)) : Edit(f)
  <1> DEFINE H == HashedLines(attested)
  <1>1. file \in Seq(H) /\ attested \subseteq Seq(Events)
    BY DEF ChainShape, ChainTypeOK
  <1>2. \A i \in DOMAIN file : i \in 1..Len(file) /\ file[i] \in H
    BY <1>1
  <1>3. ASSUME NEW i \in DOMAIN file, file[i].form = "envelope"
        PROVE  /\ \A e \in Events : [file[i] EXCEPT !.event = e] \in H
               /\ \A h \in attested : [file[i] EXCEPT !.hash = h] \in H
               /\ \A h \in attested \cup {<<>>} : [file[i] EXCEPT !.prev = h] \in H
    BY <1>1, <1>2, <1>3, EditedEnvelope
  <1> HIDE DEF H
  <1>4. CASE ChangeEvent
    <2>1. PICK i \in DOMAIN file, e \in Events :
            file[i].form = "envelope" /\ Edit([file EXCEPT ![i].event = e])
      BY <1>4 DEF ChangeEvent
    <2>2. [file[i] EXCEPT !.event = e] \in H
      BY <1>3, <2>1
    <2>3. [file EXCEPT ![i].event = e] \in Seq(H)
      BY <1>1, <1>2, <2>2, ExceptSeq
    <2> QED
      BY <2>1, <2>3 DEF H
  <1>5. CASE ChangeHash
    <2>1. PICK i \in DOMAIN file, h \in attested :
            file[i].form = "envelope" /\ Edit([file EXCEPT ![i].hash = h])
      BY <1>5 DEF ChangeHash
    <2>2. [file[i] EXCEPT !.hash = h] \in H
      BY <1>3, <2>1
    <2>3. [file EXCEPT ![i].hash = h] \in Seq(H)
      BY <1>1, <1>2, <2>2, ExceptSeq
    <2> QED
      BY <2>1, <2>3 DEF H
  <1>6. CASE ChangeLink
    <2>1. PICK i \in DOMAIN file, h \in attested \cup {<<>>} :
            file[i].form = "envelope" /\ Edit([file EXCEPT ![i].prev = h])
      BY <1>6 DEF ChangeLink
    <2>2. [file[i] EXCEPT !.prev = h] \in H
      BY <1>3, <2>1
    <2>3. [file EXCEPT ![i].prev = h] \in Seq(H)
      BY <1>1, <1>2, <2>2, ExceptSeq
    <2> QED
      BY <2>1, <2>3 DEF H
  <1>7. CASE DropLine
    BY <1>1, <1>7, EditedSequence DEF DropLine, H
  <1>8. CASE SwapLines
    <2>1. PICK i \in DOMAIN file, j \in DOMAIN file :
            Edit([file EXCEPT ![i] = file[j], ![j] = file[i]])
      BY <1>8 DEF SwapLines
    <2>2. [file EXCEPT ![i] = file[j]] \in Seq(H) /\ Len([file EXCEPT ![i] = file[j]]) = Len(file)
      BY <1>1, <1>2, ExceptSeq
    <2>3. [file EXCEPT ![i] = file[j], ![j] = file[i]] \in Seq(H)
      BY <1>2, <2>2, ExceptSeq
    <2> QED
      BY <2>1, <2>3 DEF H
  <1>9. CASE CopyLine
    BY <1>1, <1>9, EditedSequence DEF CopyLine, H
  <1> QED
    BY <1>4, <1>5, <1>6, <1>7, <1>8, <1>9 DEF HandEdit

LEMMA ChainShapeHandEdit ==
  ASSUME ChainShape, HandEdit
  PROVE  ChainShape'
  <1>1. PICK f \in Seq(HashedLines(attested)) : Edit(f)
    BY HandEditIsHashed
  <1>2. /\ edits < cast.edits /\ edits' = edits + 1 /\ file' = f
        /\ UNCHANGED <<cast, writer, attested, writeFaults>>
    BY <1>1 DEF Edit
  <1>3. file' \in Seq(Lines)
    BY <1>2 DEF HashedLines
  <1>4. edits' \in 0..MaxEdits /\ ~Promised'
    BY <1>2, ChainAssumption DEF ChainShape, ChainTypeOK, Promised
  <1>5. ChainTypeOK'
    BY <1>2, <1>3, <1>4 DEF ChainShape, ChainTypeOK
  <1> QED
    BY <1>2, <1>4, <1>5 DEF ChainShape

LEMMA ChainShapeStep == ChainShape /\ [ChainNext]_chainVars => ChainShape'
  <1> SUFFICES ASSUME ChainShape, [ChainNext]_chainVars
               PROVE  ChainShape'
    OBVIOUS
  <1>1. ASSUME NEW w \in cast.writers, WriterStep(w)
        PROVE  ChainShape'
    <2>1. w \in Writers
      BY ChainAssumption DEF ChainShape, ChainTypeOK
    <2> QED
      BY <1>1, <2>1, ChainShapeInspect, ChainShapeWrite, ChainShapeTear,
         ChainShapeWriteFails DEF WriterStep
  <1>2. CASE PlainTear \/ \E e \in Events : PlainAppend(e)
    BY <1>2, ChainShapePlain
  <1>3. CASE HandEdit
    BY <1>3, ChainShapeHandEdit
  <1>4. CASE UNCHANGED chainVars
    BY <1>4 DEF chainVars, ChainShape, ChainTypeOK, Promised
  <1> QED
    BY <1>1, <1>2, <1>3, <1>4 DEF ChainNext

LEMMA ChainShapeInvariant == ChainSpec => []ChainShape
  BY ChainShapeInit, ChainShapeStep, PTL DEF ChainSpec

(* The type invariant of the audit file, however it is written, torn and   *)
(* edited.                                                                 *)
THEOREM ChainIsTyped == ChainSpec => []ChainTypeOK
  <1>1. ChainShape => ChainTypeOK
    BY DEF ChainShape
  <1> QED
    BY <1>1, ChainShapeInvariant, PTL

-----------------------------------------------------------------------------
(* What verification reads. *)

(* The least element that CHOOSE picks in Stops and in EventsRecorded. *)
LEMMA FirstOf ==
  ASSUME NEW S, S \subseteq Nat, S # {}
  PROVE  /\ (CHOOSE i \in S : \A j \in S : i <= j) \in S
         /\ \A j \in S : (CHOOSE i \in S : \A k \in S : i <= k) <= j
  BY LeastElement

(* The verifier stops somewhere: after the last line, or before the first  *)
(* one that is not sealed.                                                 *)
LEMMA CheckedEventsStops ==
  ASSUME NEW f, Len(f) \in Nat, FileFormat(f) = "integrity"
  PROVE  /\ CheckedEvents(f) \in 0..Len(f)
         /\ \A i \in 1..CheckedEvents(f) : Sealed(f, i)
         /\ CheckedEvents(f) < Len(f) => ~Sealed(f, CheckedEvents(f) + 1)
  <1> DEFINE Stop(n) == /\ \A i \in 1..n : Sealed(f, i)
                        /\ n < Len(f) => ~Sealed(f, n + 1)
             Unsealed == {i \in 1..Len(f) : ~Sealed(f, i)}
  <1>1. \E n \in 0..Len(f) : Stop(n)
    <2>1. CASE Unsealed = {}
      <3>1. Stop(Len(f))
        BY <2>1
      <3> QED
        BY <3>1
    <2>2. CASE Unsealed # {}
      <3>1. PICK u \in Unsealed : \A j \in Unsealed : u <= j
        <4>1. Unsealed \subseteq Nat
          OBVIOUS
        <4> HIDE DEF Unsealed
        <4> QED
          BY <2>2, <4>1, LeastElement
      <3>2. u - 1 \in 0..Len(f) /\ (u - 1) + 1 = u
        BY <3>1
      <3>3. \A i \in 1..(u - 1) : Sealed(f, i)
        BY <3>1
      <3>4. Stop(u - 1)
        BY <3>1, <3>2, <3>3
      <3> QED
        BY <3>2, <3>4
    <2> QED
      BY <2>1, <2>2
  <1>2. CheckedEvents(f) = CHOOSE n \in 0..Len(f) : Stop(n)
    BY DEF CheckedEvents
  <1> HIDE DEF Stop
  <1>3. CheckedEvents(f) \in 0..Len(f) /\ Stop(CheckedEvents(f))
    BY <1>1, <1>2
  <1> QED
    BY <1>3 DEF Stop

(* A file in the integrity format holds envelopes only. *)
LEMMA IntegrityIsEnvelopes ==
  ASSUME NEW f \in Seq(Lines), FileFormat(f) = "integrity"
  PROVE  f # <<>> /\ \A i \in DOMAIN f : f[i].form = "envelope"
  <1>1. f # <<>> /\ Stops(f) = {} /\ f[1].form # "plain"
    BY DEF FileFormat
  <1>2. 1 \in DOMAIN f
    BY <1>1
  <1>3. \A i \in DOMAIN f : /\ f[i].form \notin {"broken", "partial"}
                            /\ f[i].form = f[1].form
    BY <1>1 DEF Stops
  <1>4. \A i \in DOMAIN f : f[i].form \in {"envelope", "plain", "broken", "partial"}
    <2>1. \A i \in DOMAIN f : f[i] \in Lines
      OBVIOUS
    <2> QED
      BY <2>1 DEF Lines
  <1> QED
    BY <1>1, <1>2, <1>3, <1>4

(* One line more: its event is appended to those before it. *)
LEMMA EventsUpToNext ==
  ASSUME NEW f, NEW n \in Nat, \A i \in 1..(n + 1) : f[i].event \in Events
  PROVE  /\ EventsUpTo(f, n) \in Seq(Events)
         /\ EventsUpTo(f, n + 1) = Append(EventsUpTo(f, n), f[n + 1].event)
  <1>1. /\ EventsUpTo(f, n) \in Seq(Events) /\ Len(EventsUpTo(f, n)) = n
        /\ EventsUpTo(f, n + 1) \in Seq(Events) /\ Len(EventsUpTo(f, n + 1)) = n + 1
    BY DEF EventsUpTo
  <1>2. /\ Append(EventsUpTo(f, n), f[n + 1].event) \in Seq(Events)
        /\ Len(Append(EventsUpTo(f, n), f[n + 1].event)) = n + 1
        /\ \A i \in 1..(n + 1) :
             Append(EventsUpTo(f, n), f[n + 1].event)[i] =
               IF i = n + 1 THEN f[n + 1].event ELSE EventsUpTo(f, n)[i]
    BY <1>1, AppendProperties
  <1>3. \A i \in 1..(n + 1) :
          EventsUpTo(f, n + 1)[i] = Append(EventsUpTo(f, n), f[n + 1].event)[i]
    BY <1>2 DEF EventsUpTo
  <1> QED
    BY <1>1, <1>2, <1>3, SeqEqual

LEMMA EventsUpToZero ==
  ASSUME NEW f
  PROVE  EventsUpTo(f, 0) = <<>>
  BY DEF EventsUpTo

(* A sealed envelope stands for all events up to it: the hash of a line is *)
(* the sequence of the events that lead to it, or some line before it is   *)
(* not sealed.                                                             *)
LEMMA SealedStandsForEvents ==
  ASSUME NEW f, NEW c \in Nat, \A i \in 1..c : f[i].event \in Events,
         \A i \in 1..c : Sealed(f, i)
  PROVE  \A n \in 1..c : f[n].hash = EventsUpTo(f, n)
  <1> DEFINE Wrong == {n \in 1..c : f[n].hash # EventsUpTo(f, n)}
  <1> SUFFICES ASSUME Wrong # {}
               PROVE  FALSE
    OBVIOUS
  <1>1. PICK n \in Wrong : \A m \in Wrong : n <= m
    <2>1. Wrong \subseteq Nat
      OBVIOUS
    <2> HIDE DEF Wrong
    <2> QED
      BY <2>1, LeastElement
  <1>2. n \in 1..c /\ n - 1 \in Nat /\ (n - 1) + 1 = n
    BY <1>1
  <1>3. f[n].prev = EventsUpTo(f, n - 1)
    <2>1. CASE n = 1
      BY <1>2, <2>1, EventsUpToZero DEF Sealed
    <2>2. CASE n # 1
      <3>1. n - 1 \in 1..c /\ n - 1 \notin Wrong
        BY <1>1, <1>2, <2>2
      <3>2. f[n].prev = f[n - 1].hash
        BY <1>2, <2>2 DEF Sealed
      <3> QED
        BY <3>1, <3>2
    <2> QED
      BY <2>1, <2>2
  <1>4. f[n].hash = Append(f[n].prev, f[n].event)
    BY <1>2 DEF Sealed, EventHash
  <1>5. \A i \in 1..((n - 1) + 1) : f[i].event \in Events
    BY <1>2
  <1>6. EventsUpTo(f, n) = Append(EventsUpTo(f, n - 1), f[n].event)
    BY <1>2, <1>5, EventsUpToNext
  <1> QED
    BY <1>1, <1>3, <1>4, <1>6

(* Hashes come from writers only, so what they stand for was written. *)
LEMMA ShapeVouches == ChainShape => VouchesForHistory
  <1> SUFFICES ASSUME ChainShape, NEW n \in 1..CheckedEvents(file)
               PROVE  EventsUpTo(file, n) \in attested
    BY DEF VouchesForHistory, EventsUpTo
  <1>1. file \in Seq(Lines) /\ Len(file) \in Nat /\ DOMAIN file = 1..Len(file)
    BY DEF ChainShape, ChainTypeOK
  <1>2. FileFormat(file) = "integrity"
    BY DEF CheckedEvents
  <1>3. /\ CheckedEvents(file) \in 0..Len(file)
        /\ \A i \in 1..CheckedEvents(file) : Sealed(file, i)
    BY <1>1, <1>2, CheckedEventsStops
  <1>4. \A i \in 1..Len(file) : file[i].event \in Events /\ file[i].hash \in attested
    BY <1>1, <1>2, IntegrityIsEnvelopes DEF ChainShape, HashedLines
  <1>5. CheckedEvents(file) \in Nat /\ n \in 1..Len(file)
    BY <1>1, <1>3
  <1>6. \A i \in 1..CheckedEvents(file) : file[i].event \in Events
    BY <1>1, <1>3, <1>4
  <1>7. file[n].hash = EventsUpTo(file, n)
    BY <1>3, <1>5, <1>6, SealedStandsForEvents
  <1> QED
    BY <1>4, <1>5, <1>7

(* Whatever is edited, dropped, moved or copied by hand, and however plain *)
(* lines and torn ones get between, the events that verification vouches   *)
(* for were hashed in that order by a writer (verification.py).            *)
THEOREM VerifiedWasWritten == ChainSpec => []VouchesForHistory
  BY ShapeVouches, ChainShapeInvariant, PTL

-----------------------------------------------------------------------------
(* The file as the log its writers rely on. *)

(* Without plain lines a file without damage is in the integrity format,   *)
(* and valid when every envelope is sealed; a damaged one is torn.         *)
LEMMA HealthIsSeals ==
  ASSUME NEW f \in Seq(Lines), NoPlain(f)
  PROVE  HealthOf(f) = IF BadLines(f) # {} THEN "torn"
                       ELSE IF \A i \in 1..Len(f) : Sealed(f, i) THEN "sound"
                       ELSE "forked"
  <1>1. \A i \in DOMAIN f : f[i].form \in {"envelope", "broken", "partial"}
    <2>1. \A i \in DOMAIN f : f[i] \in Lines
      OBVIOUS
    <2> QED
      BY <2>1 DEF Lines, NoPlain
  <1>2. Len(f) \in Nat /\ DOMAIN f = 1..Len(f)
    OBVIOUS
  <1>3. CASE BadLines(f) # {}
    <2>1. f # <<>>
      BY <1>3 DEF BadLines
    <2>2. 1 \in DOMAIN f
      BY <1>2, <2>1
    <2>3. BadLines(f) \subseteq Stops(f) /\ Stops(f) \subseteq Nat
      BY <1>2 DEF BadLines, Stops
    <2> DEFINE s == CHOOSE i \in Stops(f) : \A j \in Stops(f) : i <= j
    <2>4. s \in Stops(f) /\ \A j \in Stops(f) : s <= j
      BY <1>3, <2>3, FirstOf
    <2> HIDE DEF s
    <2>5. f[s].form \in {"broken", "partial"}
      <3>1. CASE f[1].form = "envelope"
        BY <1>1, <2>4, <3>1 DEF Stops
      <3>2. CASE f[1].form # "envelope"
        <4>1. 1 \in Stops(f)
          BY <1>1, <2>2, <3>2 DEF Stops
        <4>2. s = 1
          BY <1>2, <2>4, <4>1 DEF Stops
        <4> QED
          BY <1>1, <2>2, <3>2, <4>2
      <3> QED
        BY <3>1, <3>2
    <2>6. FileFormat(f) = "unreadable"
      BY <1>3, <2>1, <2>3, <2>5 DEF FileFormat, s
    <2> QED
      BY <1>3, <2>6 DEF HealthOf, Valid
  <1>4. CASE BadLines(f) = {} /\ f = <<>>
    <2>1. FileFormat(f) = "empty"
      BY <1>4 DEF FileFormat
    <2>2. \A i \in 1..Len(f) : Sealed(f, i)
      BY <1>4
    <2> QED
      BY <1>4, <2>1, <2>2 DEF HealthOf, Valid
  <1>5. CASE BadLines(f) = {} /\ f # <<>>
    <2>1. \A i \in DOMAIN f : f[i].form = "envelope"
      BY <1>1, <1>5 DEF BadLines
    <2>2. 1 \in DOMAIN f
      BY <1>2, <1>5
    <2>3. Stops(f) = {}
      BY <2>1, <2>2 DEF Stops
    <2>4. FileFormat(f) = "integrity"
      BY <1>5, <2>1, <2>2, <2>3 DEF FileFormat
    <2>5. /\ CheckedEvents(f) \in 0..Len(f)
          /\ \A i \in 1..CheckedEvents(f) : Sealed(f, i)
          /\ CheckedEvents(f) < Len(f) => ~Sealed(f, CheckedEvents(f) + 1)
      BY <1>2, <2>4, CheckedEventsStops
    <2>6. CheckedEvents(f) = Len(f) <=> \A i \in 1..Len(f) : Sealed(f, i)
      BY <1>2, <2>5
    <2> QED
      BY <1>5, <2>4, <2>6 DEF HealthOf, Valid
  <1> QED
    BY <1>3, <1>4, <1>5

(* A line that does not parse ends what the file records, and hides every  *)
(* line that is written after it.                                          *)
LEMMA TornKeepsEvents ==
  ASSUME NEW f \in Seq(Lines), NEW line \in Lines, BadLines(f) # {}
  PROVE  LET g == Written(f, line)
         IN  /\ BadLines(g) # {}
             /\ EventsUpTo(g, WholeUpTo(g)) = EventsUpTo(f, WholeUpTo(f))
  <1> DEFINE g == Written(f, line)
             b == CHOOSE i \in BadLines(f) : \A j \in BadLines(f) : i <= j
             c == CHOOSE i \in BadLines(g) : \A j \in BadLines(g) : i <= j
  <1>1. Len(f) \in Nat /\ DOMAIN f = 1..Len(f)
    OBVIOUS
  <1>2. b \in BadLines(f) /\ \A j \in BadLines(f) : b <= j
    <2>1. BadLines(f) \subseteq Nat
      BY <1>1 DEF BadLines
    <2> QED
      BY <2>1, FirstOf
  <1>3. b \in 1..Len(f) /\ f[b].form \in {"broken", "partial"}
    BY <1>1, <1>2 DEF BadLines
  <1> HIDE DEF b
  <1>4. /\ DOMAIN f \subseteq DOMAIN g /\ DOMAIN g \subseteq Nat
        /\ \A i \in 1..(b - 1) : g[i] = f[i]
        /\ g[b].form \in {"broken", "partial"}
    <2>1. CASE f # <<>> /\ f[Len(f)].form = "partial"
      <3> DEFINE l == IF line.form = "partial" THEN line ELSE Text("broken")
      <3>1. g = [f EXCEPT ![Len(f)] = l]
        BY <2>1 DEF Written
      <3>2. l.form \in {"broken", "partial"}
        BY DEF Text
      <3> HIDE DEF g, l
      <3>3. DOMAIN g = 1..Len(f) /\ \A i \in 1..Len(f) : g[i] = IF i = Len(f) THEN l ELSE f[i]
        BY <1>1, <3>1
      <3>4. g[b].form \in {"broken", "partial"}
        BY <1>3, <3>2, <3>3
      <3>5. ASSUME NEW i \in 1..(b - 1)
            PROVE  g[i] = f[i]
        <4>1. i \in 1..Len(f) /\ i # Len(f)
          BY <1>1, <1>3
        <4> QED
          BY <3>3, <4>1
      <3>6. DOMAIN g = DOMAIN f
        BY <1>1, <3>3, Zenon
      <3>7. DOMAIN f \subseteq Nat
        BY <1>1
      <3> QED
        BY <3>4, <3>5, <3>6, <3>7
    <2>2. CASE ~(f # <<>> /\ f[Len(f)].form = "partial")
      <3>1. g = Append(f, line)
        BY <2>2 DEF Written
      <3> HIDE DEF g
      <3>2. /\ DOMAIN g = 1..(Len(f) + 1)
            /\ \A i \in 1..Len(f) : g[i] = f[i]
        BY <1>1, <3>1
      <3> QED
        BY <1>1, <1>3, <3>2
    <2> QED
      BY <2>1, <2>2
  <1> HIDE DEF g
  <1>5. b \in BadLines(g) /\ BadLines(g) \subseteq Nat
    BY <1>1, <1>3, <1>4 DEF BadLines
  <1>6. \A j \in BadLines(g) : b <= j
    <2> SUFFICES ASSUME NEW j \in BadLines(g), j < b
                 PROVE  FALSE
      BY <1>3, <1>5
    <2>1. j \in 1..(b - 1) /\ j \in DOMAIN f
      <3>1. j \in DOMAIN g /\ j \in Nat
        BY <1>5 DEF BadLines
      <3>2. 1 <= j
        <4>1. DOMAIN g = 1..Len(f) \/ DOMAIN g = 1..(Len(f) + 1)
          BY <1>1 DEF g, Written
        <4> QED
          BY <1>1, <3>1, <4>1
      <3> QED
        BY <1>1, <1>3, <3>1, <3>2
    <2>2. j \in BadLines(f)
      BY <1>4, <2>1 DEF BadLines
    <2> QED
      BY <1>2, <1>3, <2>1, <2>2
  <1>7. c \in BadLines(g) /\ \A j \in BadLines(g) : c <= j
    BY <1>5, FirstOf
  <1>8. c = b
    BY <1>5, <1>6, <1>7
  <1>9. WholeUpTo(f) = b - 1 /\ WholeUpTo(g) = c - 1
    BY <1>5 DEF WholeUpTo, b
  <1> HIDE DEF c
  <1>10. EventsUpTo(g, b - 1) = EventsUpTo(f, b - 1)
    BY <1>4 DEF EventsUpTo
  <1> QED
    BY <1>5, <1>8, <1>9, <1>10 DEF g

(* A file without damage takes a whole line after its last one. *)
LEMMA WrittenToReadable ==
  ASSUME NEW f \in Seq(Lines), NEW line, BadLines(f) = {}
  PROVE  Written(f, line) = Append(f, line)
  <1>1. f # <<>> => Len(f) \in DOMAIN f
    OBVIOUS
  <1> QED
    BY <1>1 DEF Written, BadLines

(* An envelope written to a file without damage is one more event that can *)
(* be read back, and a fork before it stays.                               *)
LEMMA EnvelopeExtends ==
  ASSUME NEW f \in Seq(Lines), NEW line \in Lines, NoPlain(f), BadLines(f) = {},
         \A i \in DOMAIN f : f[i].event \in Events,
         line.form = "envelope", line.event \in Events
  PROVE  LET g == Written(f, line)
         IN  /\ EventsUpTo(g, WholeUpTo(g)) =
                  Append(EventsUpTo(f, WholeUpTo(f)), line.event)
             /\ HealthOf(g) \in {"forked"} \cup {HealthOf(f)}
  <1> DEFINE g == Append(f, line)
  <1>1. Written(f, line) = g
    BY WrittenToReadable
  <1>2. /\ Len(f) \in Nat /\ DOMAIN f = 1..Len(f)
        /\ g \in Seq(Lines) /\ Len(g) = Len(f) + 1 /\ DOMAIN g = 1..(Len(f) + 1)
        /\ \A i \in 1..Len(f) : g[i] = f[i]
        /\ g[Len(f) + 1] = line
    OBVIOUS
  <1> HIDE DEF g
  <1>3. BadLines(g) = {} /\ NoPlain(g)
    BY <1>2 DEF BadLines, NoPlain
  <1>4. WholeUpTo(f) = Len(f) /\ WholeUpTo(g) = Len(f) + 1
    BY <1>2, <1>3 DEF WholeUpTo
  <1>5. EventsUpTo(g, Len(f) + 1) = Append(EventsUpTo(g, Len(f)), line.event)
    <2>1. \A i \in 1..(Len(f) + 1) : g[i].event \in Events
      BY <1>2
    <2> QED
      BY <1>2, <2>1, EventsUpToNext
  <1>6. EventsUpTo(g, Len(f)) = EventsUpTo(f, Len(f))
    BY <1>2 DEF EventsUpTo
  <1>7. (\A i \in 1..Len(g) : Sealed(g, i)) => \A i \in 1..Len(f) : Sealed(f, i)
    <2> SUFFICES ASSUME NEW i \in 1..Len(f), Sealed(g, i)
                 PROVE  Sealed(f, i)
      BY <1>2
    <2>1. g[i] = f[i] /\ (i # 1 => g[i - 1] = f[i - 1])
      BY <1>2
    <2> QED
      BY <2>1 DEF Sealed
  <1>8. HealthOf(g) \in {"forked"} \cup {HealthOf(f)}
    BY <1>2, <1>3, <1>7, HealthIsSeals
  <1> QED
    BY <1>1, <1>4, <1>5, <1>6, <1>8

(* A torn line written to a file without damage changes nothing that can   *)
(* be read back.                                                           *)
LEMMA PartialTears ==
  ASSUME NEW f \in Seq(Lines), BadLines(f) = {}
  PROVE  LET g == Written(f, Text("partial"))
         IN  /\ BadLines(g) # {}
             /\ EventsUpTo(g, WholeUpTo(g)) = EventsUpTo(f, WholeUpTo(f))
  <1> DEFINE line == Text("partial")
             g == Append(f, line)
             c == CHOOSE i \in BadLines(g) : \A j \in BadLines(g) : i <= j
  <1>1. Written(f, line) = g
    BY WrittenToReadable
  <1>2. line.form = "partial" /\ line \in Lines
    BY DEF Text, Lines
  <1> HIDE DEF line
  <1>3. /\ Len(f) \in Nat /\ DOMAIN f = 1..Len(f)
        /\ DOMAIN g = 1..(Len(f) + 1)
        /\ \A i \in 1..Len(f) : g[i] = f[i]
        /\ g[Len(f) + 1] = line
    BY <1>2
  <1> HIDE DEF g
  <1>4. BadLines(g) = {Len(f) + 1}
    BY <1>2, <1>3 DEF BadLines
  <1>5. c = Len(f) + 1
    <2>1. BadLines(g) \subseteq Nat /\ BadLines(g) # {}
      BY <1>3, <1>4
    <2>2. c \in BadLines(g)
      BY <2>1, FirstOf
    <2> QED
      BY <1>4, <2>2
  <1>6. WholeUpTo(f) = Len(f) /\ WholeUpTo(g) = c - 1
    BY <1>4 DEF WholeUpTo
  <1> HIDE DEF c
  <1>7. EventsUpTo(g, Len(f)) = EventsUpTo(f, Len(f))
    BY <1>3 DEF EventsUpTo
  <1> QED
    BY <1>1, <1>3, <1>4, <1>5, <1>6, <1>7 DEF line

(* What the log records of the file. *)
LEMMA RecordedArePrefix ==
  /\ EventsRecorded = EventsUpTo(file, WholeUpTo(file))
  /\ EventsRecorded' = EventsUpTo(file', WholeUpTo(file'))
  BY DEF EventsRecorded, EventsUpTo, WholeUpTo, BadLines

LEMMA HealthIsOfFile == Health = HealthOf(file) /\ Health' = HealthOf(file')
  BY DEF Health, HealthOf

(* What a promised log rests on, before and after a step. *)
LEMMA PromisedFile ==
  ASSUME ChainShape, ChainShape', Promised, cast' = cast
  PROVE  /\ file \in Seq(Lines) /\ NoPlain(file)
         /\ file' \in Seq(Lines) /\ NoPlain(file')
         /\ Promised'
  BY DEF ChainShape, ChainTypeOK, NoPlain, Promised

(* A file that is not torn gives every event recorded, a torn one none. *)
LEMMA ReadingOfFile ==
  ASSUME NEW f \in Seq(Lines), NoPlain(f)
  PROVE  ReadingOf(f) = Reading(HealthOf(f), EventsUpTo(f, WholeUpTo(f)))
  <1>1. FileFormat(f) \in {"empty", "integrity"} <=> HealthOf(f) # "torn"
    BY DEF HealthOf, Valid
  <1>2. CASE HealthOf(f) = "torn"
    BY <1>1, <1>2 DEF ReadingOf, Reading
  <1>3. CASE HealthOf(f) # "torn"
    <2>1. BadLines(f) = {}
      BY <1>3, HealthIsSeals
    <2>2. WholeUpTo(f) = Len(f) /\ DOMAIN f = 1..Len(f)
      BY <2>1 DEF WholeUpTo
    <2>3. EventsUpTo(f, WholeUpTo(f)) = [i \in DOMAIN f |-> f[i].event]
      BY <2>2 DEF EventsUpTo
    <2> QED
      BY <1>1, <1>3, <2>3 DEF ReadingOf, Reading
  <1> QED
    BY <1>2, <1>3

(* What read_all gives of a promised log, before and after a step. *)
LEMMA ReadAllIsReading ==
  ASSUME ChainShape, ChainShape', Promised, cast' = cast
  PROVE  /\ ReadAll = Reading(Health, EventsRecorded)
         /\ ReadAll' = Reading(Health', EventsRecorded')
  <1>1. /\ file \in Seq(Lines) /\ NoPlain(file)
        /\ file' \in Seq(Lines) /\ NoPlain(file')
    BY PromisedFile
  <1>2. /\ ReadingOf(file) = Reading(HealthOf(file), EventsUpTo(file, WholeUpTo(file)))
        /\ ReadingOf(file') = Reading(HealthOf(file'), EventsUpTo(file', WholeUpTo(file')))
    BY <1>1, ReadingOfFile
  <1>3. ReadAll = ReadingOf(file) /\ ReadAll' = ReadingOf(file')
    BY DEF ReadAll, ReadingOf
  <1> QED
    BY <1>2, <1>3, RecordedArePrefix, HealthIsOfFile

(* A line that meets a torn file changes nothing of the log. *)
LEMMA TornTakesNothing ==
  ASSUME ChainShape, ChainShape', Promised, cast' = cast,
         NEW line \in Lines, file' = Written(file, line),
         BadLines(file) # {}
  PROVE  UNCHANGED <<EventsRecorded, Health>> /\ Health = "torn"
  <1>1. /\ file \in Seq(Lines) /\ NoPlain(file)
        /\ file' \in Seq(Lines) /\ NoPlain(file')
    BY PromisedFile
  <1>2. /\ BadLines(file') # {}
        /\ EventsUpTo(file', WholeUpTo(file')) = EventsUpTo(file, WholeUpTo(file))
    BY <1>1, TornKeepsEvents
  <1>3. HealthOf(file) = "torn" /\ HealthOf(file') = "torn"
    BY <1>1, <1>2, HealthIsSeals
  <1> QED
    BY <1>2, <1>3, RecordedArePrefix, HealthIsOfFile

(* An envelope that reaches the file extends the log, unless the file is   *)
(* torn already.                                                           *)
LEMMA WriteExtendsLog ==
  ASSUME ChainShape, ChainShape', Promised, NEW w \in Writers, Write(w)
  PROVE  \/ UNCHANGED <<EventsRecorded, Health>>
         \/ \E e \in Events : /\ Health # "torn"
                              /\ EventsRecorded' = Append(EventsRecorded, e)
                              /\ Health' \in {"forked"} \cup {Health}
  <1> DEFINE line == Envelope(writer[w].event, writer[w].tail)
  <1>1. file' = Written(file, line) /\ cast' = cast
    BY DEF Write
  <1>2. writer[w].event \in Events /\ writer[w].tail \in Seq(Events)
    BY DEF Write, ChainShape, ChainTypeOK
  <1>3. line.form = "envelope" /\ line.event = writer[w].event
    BY DEF Envelope
  <1>4. line \in Lines
    BY <1>2, EnvelopeType DEF HashedLines
  <1>5. /\ file \in Seq(Lines) /\ NoPlain(file)
        /\ file' \in Seq(Lines) /\ NoPlain(file')
    BY <1>1, PromisedFile
  <1> HIDE DEF line
  <1>6. CASE BadLines(file) # {}
    BY <1>1, <1>4, <1>6, TornTakesNothing
  <1>7. CASE BadLines(file) = {}
    <2>1. \A i \in DOMAIN file : file[i].event \in Events
      <3>1. \A i \in DOMAIN file : file[i] \in HashedLines(attested)
        BY DEF ChainShape
      <3>2. \A i \in DOMAIN file : file[i].form = "envelope"
        BY <1>5, <1>7, <3>1 DEF HashedLines, Lines, NoPlain, BadLines
      <3> QED
        BY <3>1, <3>2 DEF HashedLines
    <2>2. /\ EventsUpTo(file', WholeUpTo(file')) =
               Append(EventsUpTo(file, WholeUpTo(file)), line.event)
          /\ HealthOf(file') \in {"forked"} \cup {HealthOf(file)}
      BY <1>1, <1>2, <1>3, <1>4, <1>5, <1>7, <2>1, EnvelopeExtends
    <2>3. HealthOf(file) # "torn"
      BY <1>5, <1>7, HealthIsSeals
    <2> QED
      BY <1>2, <1>3, <2>2, <2>3, RecordedArePrefix, HealthIsOfFile
  <1> QED
    BY <1>6, <1>7

(* A torn line tears the log. *)
LEMMA TearTearsLog ==
  ASSUME ChainShape, ChainShape', Promised, NEW w \in Writers, Tear(w)
  PROVE  EventsRecorded' = EventsRecorded /\ Health' = "torn"
  <1>1. file' = Written(file, Text("partial")) /\ cast' = cast
    BY DEF Tear
  <1>2. /\ file \in Seq(Lines) /\ NoPlain(file)
        /\ file' \in Seq(Lines) /\ NoPlain(file')
    BY <1>1, PromisedFile
  <1>3. Text("partial") \in Lines
    BY DEF Text, Lines
  <1>4. CASE BadLines(file) # {}
    BY <1>1, <1>3, <1>4, TornTakesNothing
  <1>5. CASE BadLines(file) = {}
    <2>1. /\ BadLines(file') # {}
          /\ EventsUpTo(file', WholeUpTo(file')) = EventsUpTo(file, WholeUpTo(file))
      BY <1>1, <1>2, <1>5, PartialTears
    <2>2. HealthOf(file') = "torn"
      BY <1>2, <2>1, HealthIsSeals
    <2> QED
      BY <2>1, <2>2, RecordedArePrefix, HealthIsOfFile
  <1> QED
    BY <1>4, <1>5

LEMMA SameFileSameLog ==
  ASSUME file' = file
  PROVE  UNCHANGED <<EventsRecorded, Health>>
  BY RecordedArePrefix, HealthIsOfFile

(* How a file may be used never changes. *)
LEMMA CastIsFixed == [ChainNext]_chainVars => cast' = cast
  <1>1. HandEdit => cast' = cast
    BY DEF HandEdit, ChangeEvent, ChangeHash, ChangeLink, DropLine, SwapLines,
           CopyLine, Edit
  <1>2. \A w \in cast.writers : WriterStep(w) => cast' = cast
    BY DEF WriterStep, Inspect, Write, Tear, WriteFails
  <1> QED
    BY <1>1, <1>2 DEF ChainNext, chainVars, PlainAppend, PlainTear

(* The step of a promised log that each step of the file is. *)
LEMMA PromisedStep ==
  ASSUME ChainShape, ChainShape', Promised, [ChainNext]_chainVars
  PROVE  \/ UNCHANGED <<EventsRecorded, Health>>
         \/ \E e \in Events : /\ Health # "torn"
                              /\ EventsRecorded' = Append(EventsRecorded, e)
                              /\ Health' \in {"forked"} \cup {Health}
         \/ EventsRecorded' = EventsRecorded /\ Health' = "torn"
  <1>1. ASSUME NEW w \in cast.writers, WriterStep(w)
        PROVE  \/ UNCHANGED <<EventsRecorded, Health>>
               \/ \E e \in Events : /\ Health # "torn"
                                    /\ EventsRecorded' = Append(EventsRecorded, e)
                                    /\ Health' \in {"forked"} \cup {Health}
               \/ EventsRecorded' = EventsRecorded /\ Health' = "torn"
    <2>1. w \in Writers
      BY ChainAssumption DEF ChainShape, ChainTypeOK
    <2>2. CASE WriteFails(w) \/ \E e \in Events : Inspect(w, e)
      BY <2>2, SameFileSameLog DEF WriteFails, Inspect
    <2>3. CASE Write(w)
      BY <2>1, <2>3, WriteExtendsLog
    <2>4. CASE Tear(w)
      BY <2>1, <2>4, TearTearsLog
    <2> QED
      BY <1>1, <2>2, <2>3, <2>4 DEF WriterStep
  <1>2. ~(PlainTear \/ \E e \in Events : PlainAppend(e))
    BY DEF Promised, PlainTear, PlainAppend
  <1>3. ~HandEdit
    <2>1. ~(edits < cast.edits)
      BY DEF Promised, ChainShape, ChainTypeOK
    <2> QED
      BY <2>1, HandEditIsHashed DEF Edit
  <1>4. CASE UNCHANGED chainVars
    BY <1>4, SameFileSameLog DEF chainVars
  <1> QED
    BY <1>1, <1>2, <1>3, <1>4 DEF ChainNext

(* Every step of the file is a step of the log, or none. *)
LEMMA ChainStepIsLogStep ==
  ASSUME ChainShape, ChainShape', [ChainNext]_chainVars
  PROVE  [ChainLog!Next]_<<IF Promised THEN EventsRecorded ELSE <<>>,
                           IF Promised THEN Health ELSE "sound",
                           IF Promised THEN ReadAll ELSE ReadNothing>>
  <1>1. Promised' <=> Promised
    BY CastIsFixed DEF Promised
  <1>2. CASE ~Promised
    BY <1>1, <1>2 DEF ReadNothing
  <1>3. CASE Promised
    <2>1. /\ ReadAll = Reading(Health, EventsRecorded)
          /\ ReadAll' = Reading(Health', EventsRecorded')
      BY <1>3, CastIsFixed, ReadAllIsReading
    <2>2. CASE UNCHANGED <<EventsRecorded, Health>>
      <3>1. ReadAll' = ReadAll
        BY <2>1, <2>2
      <3> QED
        BY <1>1, <1>3, <2>2, <3>1
    <2>3. ASSUME NEW e \in Events, Health # "torn",
                 EventsRecorded' = Append(EventsRecorded, e),
                 Health' \in {"forked"} \cup {Health}
          PROVE  ChainLog!Next
      <3>1. ReadAll' = [raised |-> FALSE, events |-> EventsRecorded']
        BY <2>1, <2>3 DEF Reading
      <3> QED
        BY <1>1, <1>3, <2>3, <3>1 DEF ChainLog!Next, ChainLog!Extend, ChainLog!Returns
    <2>4. CASE EventsRecorded' = EventsRecorded /\ Health' = "torn"
      <3>1. ReadAll' = [raised |-> TRUE, events |-> <<>>]
        BY <2>1, <2>4 DEF Reading
      <3> QED
        BY <1>1, <1>3, <2>4, <3>1 DEF ChainLog!Next, ChainLog!Tear, ChainLog!Raises
    <2> QED
      BY <1>3, <2>2, <2>3, <2>4, PromisedStep
  <1> QED
    BY <1>2, <1>3

LEMMA ChainStartsAsLog == ChainInit => ChainLog!Init
  <1> SUFFICES ASSUME ChainInit, Promised
               PROVE  EventsRecorded = <<>> /\ Health = "sound" /\ ReadAll = ReadNothing
    BY DEF ChainLog!Init, ChainLog!Returns, ReadNothing
  <1>1. file = <<>>
    BY DEF ChainInit, Promised
  <1>2. EventsRecorded = <<>>
    <2>1. BadLines(file) = {} /\ Len(file) = 0
      BY <1>1 DEF BadLines
    <2> QED
      BY <2>1, RecordedArePrefix, EventsUpToZero DEF WholeUpTo
  <1>3. Health = "sound"
    BY <1>1 DEF Health, Valid, FileFormat
  <1>4. ReadAll = ReadNothing
    <2>1. FileFormat(file) = "empty"
      BY <1>1 DEF FileFormat
    <2>2. [i \in DOMAIN file |-> file[i].event] = EventsUpTo(file, 0)
      BY <1>1 DEF EventsUpTo
    <2> QED
      BY <2>1, <2>2, EventsUpToZero DEF ReadAll, ReadNothing
  <1> QED
    BY <1>2, <1>3, <1>4

(* Without hands and the plain store, and however its writers race, fail   *)
(* and stop inside a line, the audit file is the abstract log that the     *)
(* workflow relies on.                                                     *)
THEOREM AuditChainImplementsLog == ChainSpec => ChainImplementsLog
  <1>1. ChainShape /\ ChainShape' /\ [ChainNext]_chainVars =>
          [ChainLog!Next]_<<IF Promised THEN EventsRecorded ELSE <<>>,
                            IF Promised THEN Health ELSE "sound",
                            IF Promised THEN ReadAll ELSE ReadNothing>>
    BY ChainStepIsLogStep
  <1> QED
    BY <1>1, ChainStartsAsLog, ChainShapeInvariant, PTL
    DEF ChainSpec, ChainImplementsLog, ChainLog!Spec

(* Without hands and the plain store, no step takes back or reorders an    *)
(* event recorded, heals a damaged chain, or adds an event to a torn file; *)
(* and what read_all returns only grows, until the step that tears the     *)
(* file takes all of it from every later reader.                           *)
HistoryStays ==
  [][Promised =>
       /\ SubSeq(EventsRecorded', 1, Len(EventsRecorded)) = EventsRecorded
       /\ Health # "sound" => Health' # "sound"
       /\ Health = "torn" => EventsRecorded' = EventsRecorded
       /\ ReadAll.raised => ReadAll'.raised
       /\ ~ReadAll'.raised =>
            SubSeq(ReadAll'.events, 1, Len(ReadAll.events)) = ReadAll.events]_chainVars

LEMMA RecordedType ==
  ASSUME ChainShape, Promised
  PROVE  EventsRecorded \in Seq(Events \cup {NoEvent})
  <1>1. file \in Seq(Lines) /\ WholeUpTo(file) \in Nat /\ WholeUpTo(file) <= Len(file)
    <2>1. file \in Seq(Lines) /\ Len(file) \in Nat /\ BadLines(file) \subseteq 1..Len(file)
      BY DEF ChainShape, ChainTypeOK, BadLines
    <2>2. CASE BadLines(file) = {}
      BY <2>1, <2>2 DEF WholeUpTo
    <2>3. CASE BadLines(file) # {}
      <3> DEFINE b == CHOOSE i \in BadLines(file) : \A j \in BadLines(file) : i <= j
      <3>1. BadLines(file) \subseteq Nat
        BY <2>1
      <3>2. b \in BadLines(file)
        BY <2>3, <3>1, FirstOf
      <3>3. WholeUpTo(file) = b - 1
        BY <2>3 DEF WholeUpTo
      <3> HIDE DEF b
      <3> QED
        BY <2>1, <3>2, <3>3
    <2> QED
      BY <2>1, <2>2, <2>3
  <1>2. \A i \in 1..WholeUpTo(file) : file[i].event \in Events \cup {NoEvent}
    <2>1. \A i \in 1..WholeUpTo(file) : file[i] \in Lines
      BY <1>1
    <2> QED
      BY <2>1 DEF Lines
  <1> QED
    BY <1>1, <1>2, RecordedArePrefix DEF EventsUpTo

(* Events recorded stay where they are and damage stays (integrity_store:  *)
(* append only, no repair); readers get all of them or, from the first     *)
(* torn line on, an error.                                                 *)
THEOREM RecordedHistoryStays == ChainSpec => HistoryStays
  <1>1. ASSUME ChainShape, ChainShape', [ChainNext]_chainVars, Promised
        PROVE  /\ SubSeq(EventsRecorded', 1, Len(EventsRecorded)) = EventsRecorded
               /\ Health # "sound" => Health' # "sound"
               /\ Health = "torn" => EventsRecorded' = EventsRecorded
    <2>1. EventsRecorded \in Seq(Events \cup {NoEvent})
      BY <1>1, RecordedType
    <2>2. \A s \in Seq(Events \cup {NoEvent}) : SubSeq(s, 1, Len(s)) = s
      OBVIOUS
    <2>3. \A s \in Seq(Events \cup {NoEvent}), e \in Events :
            SubSeq(Append(s, e), 1, Len(s)) = s
      OBVIOUS
    <2>4. Health \in {"sound", "forked", "torn"}
      BY DEF Health
    <2>5. CASE UNCHANGED <<EventsRecorded, Health>>
      BY <2>1, <2>2, <2>5
    <2>6. CASE \E e \in Events : /\ Health # "torn"
                                 /\ EventsRecorded' = Append(EventsRecorded, e)
                                 /\ Health' \in {"forked"} \cup {Health}
      BY <2>1, <2>3, <2>4, <2>6
    <2>7. CASE EventsRecorded' = EventsRecorded /\ Health' = "torn"
      BY <2>1, <2>2, <2>7
    <2> QED
      BY <1>1, <2>5, <2>6, <2>7, PromisedStep
  <1>2. ASSUME ChainShape, ChainShape', [ChainNext]_chainVars, Promised
        PROVE  /\ ReadAll.raised => ReadAll'.raised
               /\ ~ReadAll'.raised =>
                    SubSeq(ReadAll'.events, 1, Len(ReadAll.events)) = ReadAll.events
    <2>1. /\ ReadAll = Reading(Health, EventsRecorded)
          /\ ReadAll' = Reading(Health', EventsRecorded')
      BY <1>2, CastIsFixed, ReadAllIsReading
    <2>2. Health = "torn" => Health' = "torn"
      BY <1>2, PromisedStep
    <2>3. SubSeq(EventsRecorded', 1, Len(EventsRecorded)) = EventsRecorded
      BY <1>1, <1>2
    <2> QED
      BY <2>1, <2>2, <2>3 DEF Reading
  <1>3. ChainShape /\ ChainShape' /\ [ChainNext]_chainVars =>
          [Promised =>
             /\ SubSeq(EventsRecorded', 1, Len(EventsRecorded)) = EventsRecorded
             /\ Health # "sound" => Health' # "sound"
             /\ Health = "torn" => EventsRecorded' = EventsRecorded
             /\ ReadAll.raised => ReadAll'.raised
             /\ ~ReadAll'.raised =>
                  SubSeq(ReadAll'.events, 1, Len(ReadAll.events)) = ReadAll.events]_chainVars
    BY <1>1, <1>2
  <1> QED
    BY <1>3, ChainShapeInvariant, PTL DEF ChainSpec, HistoryStays

-----------------------------------------------------------------------------
(* Taking turns. *)

(* A new envelope that is linked to the last line of a valid file leaves a *)
(* valid file.                                                             *)
LEMMA LinkedEnvelopeIsSealed ==
  ASSUME NEW f \in Seq(Lines), NoPlain(f), HealthOf(f) = "sound",
         NEW e, NEW line \in Lines, line = Envelope(e, TailHash(f))
  PROVE  HealthOf(Written(f, line)) = "sound"
  <1> DEFINE g == Append(f, line)
  <1>1. BadLines(f) = {} /\ \A i \in 1..Len(f) : Sealed(f, i)
    BY HealthIsSeals
  <1>2. Written(f, line) = g
    BY <1>1, WrittenToReadable
  <1>3. /\ line.form = "envelope" /\ line.event = e
        /\ line.prev = TailHash(f) /\ line.hash = EventHash(e, TailHash(f))
    BY DEF Envelope
  <1>4. /\ Len(f) \in Nat /\ DOMAIN f = 1..Len(f)
        /\ g \in Seq(Lines) /\ Len(g) = Len(f) + 1 /\ DOMAIN g = 1..(Len(f) + 1)
        /\ \A i \in 1..Len(f) : g[i] = f[i]
        /\ g[Len(f) + 1] = line
    OBVIOUS
  <1> HIDE DEF g
  <1>5. BadLines(g) = {} /\ NoPlain(g)
    BY <1>1, <1>3, <1>4 DEF BadLines, NoPlain
  <1>6. ASSUME NEW i \in 1..Len(f)
        PROVE  Sealed(g, i)
    <2>1. g[i] = f[i] /\ (i # 1 => g[i - 1] = f[i - 1])
      BY <1>4
    <2>2. Sealed(f, i)
      BY <1>1
    <2> QED
      BY <2>1, <2>2 DEF Sealed
  <1>7. Sealed(g, Len(f) + 1)
    <2>1. CASE f = <<>>
      <3>1. Len(f) = 0
        BY <2>1
      <3> QED
        BY <1>3, <1>4, <2>1, <3>1 DEF Sealed, TailHash
    <2>2. CASE f # <<>>
      <3>1. Len(f) + 1 # 1 /\ g[(Len(f) + 1) - 1] = f[Len(f)]
        BY <1>4, <2>2
      <3> QED
        BY <1>3, <1>4, <2>2, <3>1 DEF Sealed, TailHash
    <2> QED
      BY <2>1, <2>2
  <1>8. \A i \in 1..Len(g) : Sealed(g, i)
    BY <1>4, <1>6, <1>7
  <1> QED
    BY <1>2, <1>4, <1>5, <1>8, HealthIsSeals

LEMMA ChainTurnsInit == ChainInit => ChainTurns
  <1> SUFFICES ASSUME ChainInit, Promised
               PROVE  ChainTurns
    BY DEF ChainTurns
  <1>1. file = <<>> /\ writer = [w \in Writers |-> IdleWriter]
    BY DEF ChainInit, Promised
  <1>2. Health = "sound"
    BY <1>1 DEF Health, Valid, FileFormat
  <1> QED
    BY <1>1, <1>2 DEF ChainTurns, IdleWriter

LEMMA ChainTurnsStep ==
  ASSUME ChainShape, ChainShape', ChainTurns, [ChainNext]_chainVars
  PROVE  ChainTurns'
  <1>1. cast' = cast
    BY CastIsFixed
  <1> SUFFICES ASSUME cast.exclusive, Promised
               PROVE  ChainTurns'
    BY <1>1 DEF ChainTurns, Promised
  <1>2. /\ \A v, w \in Writers :
             writer[v].pc = "write" /\ writer[w].pc = "write" => v = w
        /\ \A w \in Writers : writer[w].pc = "write" =>
             Health = "sound" /\ writer[w].tail = TailHash(file)
        /\ Health # "forked"
    BY DEF ChainTurns
  <1>3. ASSUME NEW w \in Writers, writer' = [writer EXCEPT ![w] = IdleWriter],
               writer[w].pc = "write"
        PROVE  \A v \in Writers : writer'[v].pc # "write"
    <2>1. \A v \in Writers : writer'[v] = IF v = w THEN IdleWriter ELSE writer[v]
      BY <1>3 DEF ChainShape, ChainTypeOK
    <2> QED
      BY <1>2, <1>3, <2>1 DEF IdleWriter
  <1>4. ASSUME NEW w \in cast.writers, WriterStep(w)
        PROVE  ChainTurns'
    <2>1. w \in Writers
      BY ChainAssumption DEF ChainShape, ChainTypeOK
    <2>2. ASSUME NEW e \in Events, Inspect(w, e)
          PROVE  ChainTurns'
      <3>1. /\ Quiet /\ Valid(file) /\ file' = file
            /\ writer' = [writer EXCEPT
                 ![w] = [pc |-> "write", event |-> e, tail |-> TailHash(file)]]
        BY <2>2 DEF Inspect
      <3>2. Health = "sound" /\ Health' = "sound"
        BY <3>1, SameFileSameLog DEF Health
      <3>3. \A v \in Writers :
              writer'[v] = IF v = w THEN [pc |-> "write", event |-> e,
                                          tail |-> TailHash(file)]
                                    ELSE writer[v]
        BY <3>1 DEF ChainShape, ChainTypeOK
      <3>4. \A v \in Writers : writer[v].pc # "write"
        BY <3>1 DEF Quiet, IdleWriter
      <3> QED
        BY <3>1, <3>2, <3>3, <3>4 DEF ChainTurns
    <2>3. CASE Write(w)
      <3> DEFINE line == Envelope(writer[w].event, writer[w].tail)
      <3>1. /\ file' = Written(file, line) /\ writer[w].pc = "write"
            /\ writer' = [writer EXCEPT ![w] = IdleWriter]
        BY <2>3 DEF Write
      <3>2. writer[w].event \in Events /\ writer[w].tail \in Seq(Events)
        BY <2>1, <3>1 DEF ChainShape, ChainTypeOK
      <3>3. line \in Lines
        BY <3>2, EnvelopeType DEF HashedLines
      <3>4. HealthOf(file) = "sound" /\ writer[w].tail = TailHash(file)
        BY <1>2, <2>1, <3>1, HealthIsOfFile
      <3>5. file \in Seq(Lines) /\ NoPlain(file)
        BY <1>1, PromisedFile
      <3>6. HealthOf(file') = "sound"
        BY <3>1, <3>3, <3>4, <3>5, LinkedEnvelopeIsSealed
      <3> QED
        BY <1>3, <2>1, <3>1, <3>6, HealthIsOfFile DEF ChainTurns
    <2>4. CASE Tear(w)
      <3>1. Health' = "torn"
        BY <2>1, <2>4, TearTearsLog
      <3> QED
        BY <1>3, <2>1, <2>4, <3>1 DEF ChainTurns, Tear
    <2>5. CASE WriteFails(w)
      <3>1. Health' = Health
        BY <2>5, SameFileSameLog DEF WriteFails
      <3> QED
        BY <1>2, <1>3, <2>1, <2>5, <3>1 DEF ChainTurns, WriteFails
    <2> QED
      BY <1>4, <2>2, <2>3, <2>4, <2>5 DEF WriterStep
  <1>5. ~(PlainTear \/ \E e \in Events : PlainAppend(e))
    BY DEF Promised, PlainTear, PlainAppend
  <1>6. ~HandEdit
    <2>1. ~(edits < cast.edits)
      BY DEF Promised, ChainShape, ChainTypeOK
    <2> QED
      BY <2>1, HandEditIsHashed DEF Edit
  <1>7. CASE UNCHANGED chainVars
    <2>1. Health' = Health /\ file' = file /\ writer' = writer
      BY <1>7, SameFileSameLog DEF chainVars
    <2> QED
      BY <1>2, <2>1 DEF ChainTurns
  <1> QED
    BY <1>4, <1>5, <1>6, <1>7 DEF ChainNext

(* Writers that take turns on a file of their own never fork its chain:    *)
(* only a line torn by a crash or a failed write makes it refuse appends.  *)
THEOREM TurnsNeverFork ==
  ChainSpec => [](cast.exclusive /\ Promised => Health # "forked")
  <1>1. ChainTurns => (cast.exclusive /\ Promised => Health # "forked")
    BY DEF ChainTurns
  <1>2. ChainShape /\ ChainTurns /\ [ChainNext]_chainVars => ChainShape' /\ ChainTurns'
    BY ChainShapeStep, ChainTurnsStep
  <1> QED
    BY <1>1, <1>2, ChainShapeInit, ChainTurnsInit, PTL DEF ChainSpec
=============================================================================
