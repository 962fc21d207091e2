---------------------- MODULE ChannelApplicationProofs ----------------------
(***************************************************************************)
(* What a channel may cause and may be told, for any users, user files,    *)
(* tasks, calendars, proposals and number of faults.  The argument: every  *)
(* grant is written into the document by the handler that checked it, and  *)
(* only that handler writes it; an action takes effect only in a job, which*)
(* holds an approved document; and every way a job ends either records its *)
(* execution in the document or counts it as lost.                         *)
(***************************************************************************)
EXTENDS ChannelApplication, TLAPS

(* What the documents say of those who decided. *)
Granted(d) ==
  /\ CommandRoutes[d.kind].needs \in CapabilitiesOf(d.by)
  /\ d.target \in Calendars => Permits(d.by, {d.target})
  /\ d.approver # Nobody => "Proposals.Confirm" \in CapabilitiesOf(d.approver)
  /\ d.executor # Nobody =>
       ExecutionCapability(Risk(d.kind)) \cap CapabilitiesOf(d.executor) # {}
  /\ d.status \in {"approved", "succeeded", "failed"} => d.approver # Nobody
  /\ d.code # "none" <=> d.status \in {"succeeded", "failed"}

StoreTypes ==
  /\ cast \in Casts
  /\ file \in Files
  /\ worker \in [up : BOOLEAN, users : {{}} \cup {LoadUsers(f) : f \in Files},
                 calendar : BOOLEAN]
  /\ proposals \in [Proposals -> Doc \cup {NoDoc}]
  /\ tasks \in [Tasks -> StoreStatuses \cup {"none"}]
  /\ jobs \in [Actors -> Job]
  /\ seen \in [Actors -> SUBSET (StoreStatuses \cup {"none"})]
  /\ effects \in [Proposals -> Nat]
  /\ lost \in [Proposals -> Nat]
  /\ faults \in 0..MaxFaults

Documents == \A p \in Proposals : proposals[p] # NoDoc => Granted(proposals[p])

(* A job that is not idle does one thing; the worker's is for an approved  *)
(* document that somebody may execute.                                     *)
JobIsProper(a) ==
  LET job == jobs[a] IN
  /\ job.pc = "idle" => job = Idle
  /\ job.outcome # "none" <=> job.pc = "record"
  /\ job.pc # "idle" => job.kind \in Kinds
  /\ job.pc = "read" => job.kind \in TaskKinds /\ StatusOf(job.target) \in seen[a]
  /\ job.outcome = "succeeded" /\ job.kind \in TaskKinds
       => seen[a] \cap Promised(job.kind) # {}
  /\ a = "cli" => job.prop = NoDoc /\ (job.pc # "idle" => job.kind \in TaskKinds)
  /\ a = "telegram" /\ job.pc # "idle" =>
       /\ worker.up /\ job.prop \in Proposals /\ proposals[job.prop] # NoDoc
       /\ proposals[job.prop].status = "approved"
       /\ proposals[job.prop].kind = job.kind
       /\ proposals[job.prop].executor # Nobody

Jobs == \A a \in Actors : JobIsProper(a)

(* How often an action may have taken effect, by what is known of it. *)
Accounted(p) ==
  LET job == jobs["telegram"] IN
  /\ effects[p] > 0 => /\ proposals[p] # NoDoc
                       /\ proposals[p].approver # Nobody
                       /\ proposals[p].executor # Nobody
  /\ lost[p] <= faults
  /\ effects[p] <= lost[p] + 1
  /\ \/ proposals[p] # NoDoc /\ proposals[p].code # "none"
     \/ job.prop = p /\ job.pc \in {"read", "record"} /\ ~NeverStarted(job)
     \/ effects[p] <= lost[p]

Effects == \A p \in Proposals : Accounted(p)

ReplyIsProper ==
  /\ reply \in [to : Users \cup {Nobody}, outcome : Outcomes \cup {"none"},
                calendars : SUBSET Calendars, controls : SUBSET Buttons]
  /\ ReadsStayWithinPolicy

StoreInv == StoreTypes /\ Documents /\ Jobs /\ Effects
IInv == StoreInv /\ ReplyIsProper

-----------------------------------------------------------------------------
(* Policy, routes and requests.                                            *)

LEMMA RoutesAreKnown ==
  /\ DOMAIN CommandRoutes = Commands
  /\ \A c \in Commands : CommandRoutes[c].most \in Nat
  /\ CommandRoutes["proposals.approve"].needs = "Proposals.Confirm"
  /\ DOMAIN CallbackRoutes \subseteq Buttons
  /\ CallbackRoutes["proposals.approve"].needs = "Proposals.Confirm"
  <1>1. \A n, least, most : CommandRoute(n, least, most).most = most
    BY DEF CommandRoute
  <1>2. Unlimited \in Nat /\ StartRoute.most \in Nat
    BY DEF Unlimited, StartRoute, CommandRoute
  <1>3. \A c \in Commands : CommandRoutes[c].most \in Nat
    BY <1>1, <1>2 DEF CommandRoutes, Commands
  <1>4. CommandRoutes["proposals.approve"].needs = "Proposals.Confirm"
    BY DEF CommandRoutes, Commands, CommandRoute
  <1> QED
    BY <1>3, <1>4 DEF CommandRoutes, CallbackRoutes, Buttons

LEMMA UsersAreLoaded ==
  ASSUME NEW f \in Files
  PROVE  LoadUsers(f) \subseteq Users
  <1>1. LoadUsers(f) \subseteq {f.users[i] : i \in DOMAIN f.users}
    BY DEF LoadUsers
  <1> QED
    BY <1>1 DEF Users

(* Only a loaded user has capabilities. *)
LEMMA CapableUser ==
  ASSUME NEW id, NEW users, NEW c \in CapabilitiesOf(Authorise(id, users))
  PROVE  Authorise(id, users) \in users /\ Authorise(id, users) # Nobody
  BY DEF Authorise, CapabilitiesOf

LEMMA ProperForm ==
  ASSUME NEW r \in ProperRequests
  PROVE  /\ r.via \in {"message", "callback"} /\ r.calendars \in SUBSET Calendars
         /\ r.via = "callback" => r.command \in ByProposal
         /\ r.command \in ByProposal => r.proposal \in Proposals
  <1>1. CASE \E c \in cast.commands \ ByProposal, t \in Targets :
               r = Request("message", c, t, {}, NoDoc)
    BY <1>1 DEF Request
  <1>2. CASE \E c \in {"calendar.list_events"}, s \in SUBSET Calendars :
               r = Request("message", c, NoTarget, s, NoDoc)
    BY <1>2 DEF Request, ByProposal, Buttons
  <1>3. CASE \E via \in {"message", "callback"}, c \in ByProposal, p \in Proposals :
               r = Request(via, c, NoTarget, {}, p)
    BY <1>3 DEF Request
  <1> QED
    BY <1>1, <1>2, <1>3 DEF ProperRequests

LEMMA OddForm ==
  ASSUME NEW r \in OddRequests
  PROVE  /\ r.via = "message"
         /\ ~r.text \/ ~r.valid \/ r.command = "none"
              \/ r.count = CommandRoutes[r.command].most + 1
  <1> DEFINE odd == {Request("message", c, NoTarget, {}, CHOOSE p \in Proposals : TRUE) :
                       c \in cast.commands}
  <1>1. PICK q \in odd : r \in {[q EXCEPT !.text = FALSE], [q EXCEPT !.valid = FALSE],
          [q EXCEPT !.command = "none"],
          [q EXCEPT !.count = CommandRoutes[q.command].most + 1]}
    BY DEF OddRequests
  <1>2. PICK c : q = Request("message", c, NoTarget, {}, CHOOSE p \in Proposals : TRUE)
    BY <1>1
  <1> QED
    BY <1>1, <1>2 DEF Request

(* A request that reaches a handler and is well-formed was sent as such. *)
LEMMA Arrives ==
  ASSUME NEW r \in Requests, NEW id, NEW users, Routed(id, r, users)
  PROVE  /\ r.command \in Commands
         /\ r.via = "callback" => r.command \in Buttons
         /\ r.command \notin Buttons =>
              CommandRoutes[r.command].needs \in CapabilitiesOf(Authorise(id, users))
         /\ r.command = "proposals.approve" =>
              "Proposals.Confirm" \in CapabilitiesOf(Authorise(id, users))
         /\ Authorise(id, users) \in users /\ Authorise(id, users) # Nobody
         /\ r.valid =>
              /\ r.calendars \in SUBSET Calendars
              /\ r.target \in TargetsOf(r.command)
              /\ r.command \in ByProposal => r.proposal \in Proposals
  <1>1. r \in ProperRequests \/ r \in OddRequests
    BY DEF Requests
  <1>2. /\ r.command \in Commands
        /\ r.via = "callback" => r.command \in Buttons
    BY RoutesAreKnown DEF Routed, RouteMessage, RouteCallback, Commands, Buttons
  <1>3. Needs(r) \in CapabilitiesOf(Authorise(id, users))
    BY DEF Routed
  <1>4. ASSUME r \in OddRequests PROVE ~r.valid
    <2>1. r.text /\ r.count \in CommandRoutes[r.command].least..CommandRoutes[r.command].most
      BY <1>4, OddForm DEF Routed, RouteMessage
    <2>2. r.command # "none" /\ r.count # CommandRoutes[r.command].most + 1
      BY <1>2, <2>1, RoutesAreKnown DEF Commands
    <2> QED
      BY <1>4, <2>1, <2>2, OddForm
  <1>5. ASSUME r \in ProperRequests, r \notin OddRequests
        PROVE  /\ r.calendars \in SUBSET Calendars
               /\ r.target \in TargetsOf(r.command)
               /\ r.command \in ByProposal => r.proposal \in Proposals
    BY <1>5, ProperForm DEF Requests
  <1> QED
    BY <1>1, <1>2, <1>3, <1>4, <1>5, RoutesAreKnown, CapableUser DEF Needs

-----------------------------------------------------------------------------
(* Answers.                                                                *)

LEMMA StoresKept ==
  ASSUME StoreInv, UNCHANGED stores
  PROVE  StoreInv'
  BY DEF stores, StoreInv, StoreTypes, Documents, Jobs, JobIsProper, Effects,
     Accounted, NeverStarted, StatusOf

LEMMA FaultsCounted ==
  ASSUME faults \in 0..MaxFaults, NEW ok, FaultUnless(ok)
  PROVE  /\ faults' \in 0..MaxFaults /\ faults' \in Nat
         /\ faults <= faults' /\ (~ok => faults' = faults + 1)
  BY ApplicationConstantsAssumption DEF FaultUnless

LEMMA Silent ==
  ASSUME reply' = NoReply
  PROVE  ReplyIsProper'
  BY DEF NoReply, ReplyIsProper, ReadsStayWithinPolicy

LEMMA Responding ==
  ASSUME NEW u \in Users \cup {Nobody}, NEW outcome \in Outcomes,
         NEW calendars \in SUBSET Calendars, NEW controls \in SUBSET Buttons,
         Respond(u, outcome, calendars, controls),
         calendars # {} =>
           "Calendar.Read" \in CapabilitiesOf(u) /\ Permits(u, calendars)
  PROVE  ReplyIsProper'
  BY DEF Respond, ReplyIsProper, ReadsStayWithinPolicy

LEMMA Saying ==
  ASSUME IInv, NEW u \in Users \cup {Nobody}, NEW outcome \in Outcomes,
         Say(u, outcome)
  PROVE  IInv'
  <1>1. Respond(u, outcome, {}, {}) /\ UNCHANGED stores
    BY DEF Say
  <1>2. ReplyIsProper'
    <2>1. {} \in SUBSET Calendars /\ {} \in SUBSET Buttons
      OBVIOUS
    <2> QED
      BY <1>1, <2>1, Responding, Zenon
  <1> QED
    BY <1>1, <1>2, StoresKept DEF IInv

LEMMA SayingOne ==
  ASSUME IInv, NEW u \in Users \cup {Nobody}, NEW outcomes \in SUBSET Outcomes,
         SayOneOf(u, outcomes)
  PROVE  IInv'
  <1>1. PICK outcome \in outcomes : Say(u, outcome)
    BY DEF SayOneOf
  <1>2. outcome \in Outcomes
    OBVIOUS
  <1> QED
    BY <1>1, <1>2, Saying

(* The handlers that read and name no calendar. *)
LEMMA PlainAnswers ==
  ASSUME IInv, NEW u \in Users, NEW r,
         \/ SystemCommands(u, r) \/ Status(u, r) \/ TasksList(u, r)
         \/ TasksShow(u, r) \/ ProposalsList(u, r) \/ ProposalsShow(u, r)
  PROVE  IInv'
  <1>1. /\ \A outcome \in Outcomes : Say(u, outcome) => IInv'
        /\ \A outcomes \in SUBSET Outcomes : SayOneOf(u, outcomes) => IInv'
    BY Saying, SayingOne
  <1>2. CASE SystemCommands(u, r) \/ Status(u, r)
    BY <1>1, <1>2 DEF SystemCommands, Status, Outcomes
  <1>3. CASE TasksList(u, r) \/ TasksShow(u, r)
    BY <1>1, <1>3 DEF TasksList, TasksShow, Outcomes
  <1>4. CASE ProposalsList(u, r) \/ ProposalsShow(u, r)
    BY <1>1, <1>4 DEF ProposalsList, ProposalsShow, Outcomes
  <1> QED
    BY <1>2, <1>3, <1>4

LEMMA RefusalIsKnown ==
  ASSUME NEW u, NEW r, NEW capability, NEW calendars
  PROVE  /\ CalendarRefusal(u, r, capability, calendars) \in Outcomes \cup {"none"}
         /\ CalendarRefusal(u, r, capability, calendars) = "none" =>
              /\ capability \in CapabilitiesOf(u) /\ r.valid
              /\ Permits(u, calendars)
         /\ "none" \notin Outcomes
  BY DEF CalendarRefusal, Outcomes

LEMMA CalendarAnswers ==
  ASSUME IInv, NEW u \in Users, NEW refusal \in Outcomes \cup {"none"},
         NEW failures \in SUBSET Outcomes, NEW calendars,
         CalendarAnswer(u, refusal, failures, calendars),
         refusal = "none" =>
           /\ calendars \in SUBSET Calendars
           /\ "Calendar.Read" \in CapabilitiesOf(u) /\ Permits(u, calendars)
  PROVE  IInv'
  <1>1. CASE refusal # "none" /\ Say(u, refusal)
    BY <1>1, Saying
  <1>2. CASE Say(u, "temporarily_unavailable")
    BY <1>2, Saying DEF Outcomes
  <1>3. CASE SayOneOf(u, failures)
    BY <1>3, SayingOne
  <1>4. CASE /\ refusal = "none" /\ Respond(u, "succeeded", calendars, {})
             /\ UNCHANGED stores
    BY <1>4, Responding, StoresKept DEF IInv, Outcomes
  <1> QED
    BY <1>1, <1>2, <1>3, <1>4 DEF CalendarAnswer

(* The calendars a listing tells of are permitted, however they were       *)
(* selected.                                                               *)
LEMMA SelectionIsPermitted ==
  ASSUME NEW u, NEW r, r.calendars \in SUBSET Calendars, Permits(u, r.calendars)
  PROVE  EventCalendars(u, r) \in SUBSET Calendars /\ Permits(u, EventCalendars(u, r))
  BY DEF EventCalendars, Permits

LEMMA CalendarReads ==
  ASSUME IInv, NEW u \in Users, NEW r,
         r.valid => r.calendars \in SUBSET Calendars,
         r.valid /\ r.command = "calendar.show_event" => r.target \in Calendars,
         \/ CalendarListCalendars(u, r) \/ CalendarListEvents(u, r)
         \/ r.command = "calendar.show_event" /\ CalendarShowEvent(u, r)
  PROVE  IInv'
  <1>1. {"application_failed"} \in SUBSET Outcomes
        /\ {"application_failed", "not_found"} \in SUBSET Outcomes
    BY DEF Outcomes
  <1>2. CASE CalendarListCalendars(u, r)
    <2>1. Permits(u, {c \in Calendars : Permits(u, {c})})
      BY DEF Permits
    <2> QED
      BY <1>1, <1>2, <2>1, RefusalIsKnown, CalendarAnswers DEF CalendarListCalendars
  <1>3. CASE CalendarListEvents(u, r)
    BY <1>1, <1>3, RefusalIsKnown, CalendarAnswers, SelectionIsPermitted
       DEF CalendarListEvents
  <1>4. CASE r.command = "calendar.show_event" /\ CalendarShowEvent(u, r)
    <2> DEFINE refusal == CalendarRefusal(u, r, "Calendar.Read", {r.target})
    <2>1. refusal \in Outcomes \cup {"none"}
      BY RefusalIsKnown
    <2>2. refusal = "none" => /\ {r.target} \in SUBSET Calendars
                              /\ "Calendar.Read" \in CapabilitiesOf(u)
                              /\ Permits(u, {r.target})
      BY <1>4, RefusalIsKnown
    <2>3. CalendarAnswer(u, refusal, {"application_failed", "not_found"}, {r.target})
      BY <1>4 DEF CalendarShowEvent
    <2> HIDE DEF refusal
    <2> QED
      BY <1>1, <2>1, <2>2, <2>3, CalendarAnswers
  <1> QED
    BY <1>2, <1>3, <1>4

-----------------------------------------------------------------------------
(* Documents change while the worker executes nothing.                     *)

LEMMA DocumentChanges ==
  ASSUME StoreInv, jobs["telegram"].pc = "idle",
         NEW p \in Proposals, NEW d \in Doc, Granted(d), d.code = "none",
         proposals[p] # NoDoc =>
           /\ proposals[p].code = "none" /\ d.executor = proposals[p].executor
           /\ proposals[p].approver # Nobody => d.approver # Nobody,
         proposals' = [proposals EXCEPT ![p] = d],
         NEW ok, FaultUnless(ok),
         UNCHANGED <<cast, file, worker, tasks, jobs, seen, effects, lost>>
  PROVE  StoreInv'
  <1>1. /\ faults' \in 0..MaxFaults /\ faults' \in Nat /\ faults <= faults'
        /\ faults \in Nat
    BY FaultsCounted, ApplicationConstantsAssumption DEF StoreInv, StoreTypes
  <1>2. /\ proposals' \in [Proposals -> Doc \cup {NoDoc}]
        /\ proposals'[p] = d /\ d # NoDoc
        /\ \A q \in Proposals \ {p} : proposals'[q] = proposals[q]
    BY NoDocAssumption DEF StoreInv, StoreTypes
  <1>3. StoreTypes' /\ Documents'
    BY <1>1, <1>2 DEF StoreInv, StoreTypes, Documents
  <1>4. Jobs'
    BY DEF StoreInv, Jobs, JobIsProper, StatusOf
  <1>5. ASSUME NEW q \in Proposals PROVE Accounted(q)'
    <2>1. Accounted(q) /\ lost[q] \in Nat /\ effects[q] \in Nat
      BY DEF StoreInv, Effects, StoreTypes
    <2>2. CASE q = p
      BY <1>1, <1>2, <2>1, <2>2 DEF Accounted
    <2>3. CASE q # p
      BY <1>1, <1>2, <2>1, <2>3 DEF Accounted, NeverStarted
    <2> QED
      BY <2>2, <2>3
  <1> QED
    BY <1>3, <1>4, <1>5 DEF StoreInv, Effects

LEMMA Unanswered ==
  ASSUME NEW u \in Users, NEW outcome \in Outcomes,
         NEW controls \in SUBSET Buttons, Respond(u, outcome, {}, controls)
  PROVE  ReplyIsProper'
  <1>1. {} \in SUBSET Calendars
    OBVIOUS
  <1> QED
    BY <1>1, Responding, Zenon

LEMMA ControlsAreButtons ==
  /\ ConfirmationControls \in SUBSET Buttons /\ {} \in SUBSET Buttons
  /\ \A risk : ApprovedControls(risk) \in SUBSET Buttons
  BY DEF ConfirmationControls, ApprovedControls, Buttons

LEMMA Submitting ==
  ASSUME IInv, jobs["telegram"].pc = "idle", NEW u \in Users,
         NEW kind \in Kinds, NEW target \in Targets,
         CommandRoutes[kind].needs \in CapabilitiesOf(u),
         target \in Calendars => Permits(u, {target}),
         SubmitInteractiveProposal(u, kind, target)
  PROVE  IInv'
  <1>1. CASE Say(u, "application_failed")
    BY <1>1, Saying DEF Outcomes
  <1>2. ASSUME NEW p \in Proposals, NEW reported \in BOOLEAN,
               proposals[p] = NoDoc, FaultUnless(reported),
               proposals' = [proposals EXCEPT ![p] =
                 [kind |-> kind, target |-> target,
                  status |-> InteractiveProposal(kind), code |-> "none",
                  by |-> u, approver |-> Nobody, executor |-> Nobody]],
               IF reported
                 THEN Respond(u, "succeeded", {},
                        IF InteractiveProposal(kind) = "awaiting_confirmation"
                          THEN ConfirmationControls ELSE {})
                 ELSE Respond(u, "application_failed", {}, {}),
               UNCHANGED <<cast, file, worker, tasks, jobs, seen, effects, lost>>
        PROVE  IInv'
    <2> DEFINE d == [kind |-> kind, target |-> target,
                     status |-> "awaiting_confirmation", code |-> "none",
                     by |-> u, approver |-> Nobody, executor |-> Nobody]
    <2>1. InteractiveProposal(kind) = "awaiting_confirmation"
      BY DEF InteractiveProposal, PolicyTarget, Required
    <2>2. d \in Doc /\ Granted(d) /\ d.code = "none"
      BY DEF Doc, Statuses, Granted
    <2>3. proposals' = [proposals EXCEPT ![p] = d]
      BY <1>2, <2>1
    <2> HIDE DEF d
    <2>4. StoreInv'
      BY <1>2, <2>2, <2>3, DocumentChanges DEF IInv
    <2>5. ReplyIsProper'
      BY <1>2, <2>1, Unanswered, ControlsAreButtons DEF Outcomes
    <2> QED
      BY <2>4, <2>5 DEF IInv
  <1> QED
    BY <1>1, <1>2 DEF SubmitInteractiveProposal

LEMMA RequestedTargets ==
  ASSUME NEW r, r.target \in TargetsOf(r.command)
  PROVE  /\ r.target \in Targets /\ NoTarget \in Targets
         /\ r.command \in {"tasks.modify", "tasks.complete", "tasks.delete"}
              => r.target \notin Calendars
         /\ r.command \in {"calendar.create", "calendar.modify", "calendar.cancel",
                           "calendar.show_event"} => r.target \in Calendars
         /\ NoTarget \notin Calendars
  BY ApplicationConstantsAssumption DEF TargetsOf, Targets

LEMMA TaskProposals ==
  ASSUME IInv, jobs["telegram"].pc = "idle", NEW u \in Users, NEW r,
         r.valid => r.target \in TargetsOf(r.command),
         CommandRoutes[r.command].needs \in CapabilitiesOf(u),
         \/ r.command = "tasks.create" /\ TasksCreate(u, r)
         \/ r.command = "tasks.modify" /\ TasksModify(u, r)
         \/ r.command = "tasks.complete" /\ TasksComplete(u, r)
         \/ r.command = "tasks.delete" /\ TasksDelete(u, r)
  PROVE  IInv'
  <1>1. r.command \in Kinds
    BY DEF Kinds, TaskKinds
  <1>2. CASE ~r.valid
    BY <1>2, Saying DEF TasksCreate, TasksModify, TasksComplete, TasksDelete,
       TaskProposal, Outcomes
  <1>3. CASE r.valid
    <2>1. PICK target \in {NoTarget, r.target} :
             /\ SubmitInteractiveProposal(u, r.command, target)
             /\ target = NoTarget \/ r.command # "tasks.create"
      BY <1>3 DEF TasksCreate, TasksModify, TasksComplete, TasksDelete, TaskProposal
    <2>2. target \in Targets /\ target \notin Calendars
      BY <1>3, <2>1, RequestedTargets
    <2> QED
      BY <1>1, <2>1, <2>2, Submitting
  <1> QED
    BY <1>2, <1>3

LEMMA CalendarProposals ==
  ASSUME IInv, jobs["telegram"].pc = "idle", NEW u \in Users, NEW r,
         r.valid => r.target \in TargetsOf(r.command),
         CommandRoutes[r.command].needs \in CapabilitiesOf(u),
         \/ r.command = "calendar.sync" /\ CalendarSync(u, r)
         \/ r.command = "calendar.discover" /\ CalendarDiscover(u, r)
         \/ r.command = "calendar.create" /\ CalendarCreate(u, r)
         \/ r.command = "calendar.modify" /\ CalendarModify(u, r)
         \/ r.command = "calendar.cancel" /\ CalendarCancel(u, r)
  PROVE  IInv'
  <1>1. r.command \in Kinds
    BY DEF Kinds, CalendarKinds
  <1>2. PICK capability, target, calendars :
          /\ CalendarProposal(u, r, CalendarRefusal(u, r, capability, calendars), target)
          /\ \/ target = NoTarget
             \/ /\ target = r.target /\ calendars = {r.target}
                /\ r.command \in {"calendar.create", "calendar.modify", "calendar.cancel"}
    BY DEF CalendarSync, CalendarDiscover, CalendarCreate, CalendarModify, CalendarCancel
  <1> DEFINE refusal == CalendarRefusal(u, r, capability, calendars)
  <1>3. /\ refusal \in Outcomes \cup {"none"}
        /\ refusal = "none" => r.valid /\ Permits(u, calendars)
    BY RefusalIsKnown
  <1>4. \/ refusal # "none" /\ Say(u, refusal)
        \/ refusal = "none" /\ SubmitInteractiveProposal(u, r.command, target)
    BY <1>2 DEF CalendarProposal
  <1> HIDE DEF refusal
  <1>5. CASE refusal # "none"
    BY <1>3, <1>4, <1>5, Saying
  <1>6. CASE refusal = "none"
    <2>1. /\ target \in Targets
          /\ target \in Calendars => Permits(u, {target})
      BY <1>2, <1>3, <1>6, RequestedTargets
    <2> QED
      BY <1>1, <1>4, <1>6, <2>1, Submitting
  <1> QED
    BY <1>5, <1>6

-----------------------------------------------------------------------------
(* Decisions and the start of an execution.                                *)

LEMMA Deciding ==
  ASSUME IInv, jobs["telegram"].pc = "idle", NEW u \in Users, u # Nobody, NEW r,
         r.valid => r.proposal \in Proposals,
         NEW decision \in Decisions, NEW decided, NEW controls \in SUBSET Buttons,
         \/ decided = [proposals[r.proposal] EXCEPT !.status = DecisionTarget(decision)]
              /\ decision # "approved"
         \/ decided = [proposals[r.proposal] EXCEPT
                         !.status = DecisionTarget(decision), !.approver = u]
              /\ "Proposals.Confirm" \in CapabilitiesOf(u),
         ProposalDecision(u, r, decision, decided, controls)
  PROVE  IInv'
  <1> DEFINE d == proposals[r.proposal]
  <1>1. CASE ~r.valid /\ Say(u, "validation_failed")
    BY <1>1, Saying DEF Outcomes
  <1>2. CASE Say(u, "application_failed")
    BY <1>2, Saying DEF Outcomes
  <1>3. ASSUME NEW reported \in BOOLEAN, r.valid, d # NoDoc,
               DecisionPermitted(d.status, decision), FaultUnless(reported),
               proposals' = [proposals EXCEPT ![r.proposal] = decided],
               IF reported THEN Respond(u, "succeeded", {}, controls)
                           ELSE Respond(u, "application_failed", {}, {}),
               UNCHANGED <<cast, file, worker, tasks, jobs, seen, effects, lost>>
        PROVE  IInv'
    <2>1. r.proposal \in Proposals /\ d \in Doc /\ Granted(d)
      BY <1>3 DEF IInv, StoreInv, StoreTypes, Documents
    <2>2. /\ d.status \in {"awaiting_confirmation", "approved"}
          /\ d.status \notin {"succeeded", "failed"} /\ d.code = "none"
      BY <1>3, <2>1 DEF DecisionPermitted, Granted
    <2>3. /\ DecisionTarget(decision) \in Statuses
          /\ DecisionTarget(decision) \notin {"succeeded", "failed"}
          /\ decision # "approved" => DecisionTarget(decision) # "approved"
      BY DEF DecisionTarget, Decisions, Statuses
    <2>4. decided \in Doc
      BY <2>1, <2>3 DEF Doc
    <2>5. /\ decided.kind = d.kind /\ decided.target = d.target /\ decided.by = d.by
          /\ decided.code = "none" /\ decided.executor = d.executor
          /\ decided.status = DecisionTarget(decision)
          /\ \/ decided.approver = d.approver /\ decision # "approved"
             \/ decided.approver = u /\ "Proposals.Confirm" \in CapabilitiesOf(u)
      BY <2>1, <2>2 DEF Doc
    <2>6. Granted(decided)
      BY <2>1, <2>3, <2>5 DEF Granted
    <2>7. StoreInv'
      <3>1. /\ d.code = "none" /\ decided.executor = d.executor
            /\ d.approver # Nobody => decided.approver # Nobody
        BY <2>2, <2>5
      <3> QED
        BY <1>3, <2>1, <2>4, <2>5, <2>6, <3>1, DocumentChanges DEF IInv
    <2>8. ReplyIsProper'
      BY <1>3, Unanswered, ControlsAreButtons DEF Outcomes
    <2> QED
      BY <2>7, <2>8 DEF IInv
  <1> QED
    BY <1>1, <1>2, <1>3 DEF ProposalDecision

LEMMA Decides ==
  ASSUME IInv, jobs["telegram"].pc = "idle", NEW u \in Users, u # Nobody, NEW r,
         r.valid => r.proposal \in Proposals,
         \/ /\ r.command = "proposals.approve" /\ ProposalApprove(u, r)
            /\ "Proposals.Confirm" \in CapabilitiesOf(u)
         \/ ProposalReject(u, r) \/ ProposalCancel(u, r)
  PROVE  IInv'
  <1>1. {"approved", "rejected", "cancelled"} = Decisions
    BY DEF Decisions
  <1>2. CASE "Proposals.Confirm" \in CapabilitiesOf(u) /\ ProposalApprove(u, r)
    BY <1>1, <1>2, Deciding, ControlsAreButtons DEF ProposalApprove
  <1>3. CASE ProposalReject(u, r)
    BY <1>1, <1>3, Deciding, ControlsAreButtons DEF ProposalReject
  <1>4. CASE ProposalCancel(u, r)
    BY <1>1, <1>4, Deciding, ControlsAreButtons DEF ProposalCancel
  <1> QED
    BY <1>2, <1>3, <1>4

LEMMA ProvidersAreKnown == \A kind : Providers(kind) \ {"loaded"} \in SUBSET Outcomes
  BY DEF Providers, LoadProvider, Outcomes

LEMMA Executing ==
  ASSUME IInv, jobs["telegram"].pc = "idle", worker.up, NEW u \in Users,
         u # Nobody, NEW r, r.valid => r.proposal \in Proposals,
         ProposalExecute(u, r)
  PROVE  IInv'
  <1> DEFINE p == r.proposal
             d == proposals[p]
  <1>1. CASE \E outcome \in {"validation_failed", "application_failed",
                             "not_authorised"} : Say(u, outcome)
    BY <1>1, Saying DEF Outcomes
  <1>2. CASE SayOneOf(u, Providers(d.kind) \ {"loaded"})
    BY <1>2, SayingOne, ProvidersAreKnown
  <1>3. ASSUME r.valid, d # NoDoc, MayExecute(u, d), d.status = "approved",
               StartJob("telegram", d.kind, d.target, p),
               proposals' = [proposals EXCEPT ![p].executor = u],
               reply' = NoReply,
               UNCHANGED <<cast, file, worker, tasks, seen, effects, lost, faults>>
        PROVE  IInv'
    <2> DEFINE e == [d EXCEPT !.executor = u]
               job == [pc |-> "run", kind |-> d.kind, target |-> d.target,
                       prop |-> p, outcome |-> "none"]
    <2>1. p \in Proposals /\ d \in Doc /\ Granted(d)
      BY <1>3 DEF IInv, StoreInv, StoreTypes, Documents
    <2>2. e \in Doc /\ Granted(e) /\ e # NoDoc /\ e.status = "approved"
          /\ e.kind = d.kind /\ e.executor # Nobody /\ e.code = d.code
          /\ e.approver = d.approver
      BY <1>3, <2>1, NoDocAssumption DEF Doc, Granted, MayExecute
    <2>3. proposals' = [proposals EXCEPT ![p] = e]
      BY <1>3, <2>1 DEF IInv, StoreInv, StoreTypes, Doc
    <2>4. job \in Job
      BY <2>1 DEF Job, Doc
    <2>5. jobs' = [jobs EXCEPT !["telegram"] = job]
      BY <1>3 DEF StartJob
    <2>6. /\ jobs' \in [Actors -> Job] /\ jobs'["telegram"] = job
          /\ jobs'["cli"] = jobs["cli"]
      BY <2>4, <2>5 DEF IInv, StoreInv, StoreTypes, Actors
    <2>7. /\ proposals' \in [Proposals -> Doc \cup {NoDoc}]
          /\ proposals'[p] = e
          /\ \A q \in Proposals \ {p} : proposals'[q] = proposals[q]
      BY <2>1, <2>2, <2>3 DEF IInv, StoreInv, StoreTypes
    <2>8. /\ job.pc = "run" /\ job.kind = d.kind /\ job.prop = p
          /\ job.outcome = "none" /\ d.kind \in Kinds
      BY <2>1 DEF Doc
    <2> HIDE DEF e, job
    <2>9. StoreTypes' /\ Documents'
      BY <1>3, <2>2, <2>6, <2>7 DEF IInv, StoreInv, StoreTypes, Documents
    <2>10. JobIsProper("telegram")'
      BY <1>3, <2>1, <2>2, <2>6, <2>7, <2>8 DEF JobIsProper
    <2>11. JobIsProper("cli")'
      BY <1>3, <2>6 DEF IInv, StoreInv, Jobs, Actors, JobIsProper, StatusOf
    <2>12. ASSUME NEW q \in Proposals PROVE Accounted(q)'
      <3>1. Accounted(q)
        BY DEF IInv, StoreInv, Effects
      <3>2. CASE q = p
        BY <1>3, <2>1, <2>2, <2>6, <2>7, <2>8, <3>1, <3>2 DEF Accounted, Granted
      <3>3. CASE q # p
        BY <1>3, <2>6, <2>7, <2>8, <3>1, <3>3 DEF Accounted
      <3> QED
        BY <3>2, <3>3
    <2> QED
      BY <1>3, <2>9, <2>10, <2>11, <2>12, Silent DEF IInv, StoreInv, Jobs, Actors, Effects
  <1> QED
    BY <1>1, <1>2, <1>3 DEF ProposalExecute

(* One update, from whoever it comes. *)
LEMMA ReceiveStep ==
  ASSUME IInv, NEW id \in Identities, NEW r \in Requests, Receive(id, r)
  PROVE  IInv'
  <1> DEFINE u == Authorise(id, worker.users)
  <1>1. jobs["telegram"].pc = "idle" /\ worker.up
    BY DEF Receive
  <1>2. CASE ~Routed(id, r, worker.users)
    BY <1>2, Saying DEF Receive, Outcomes
  <1>3. CASE Routed(id, r, worker.users)
    <2>1. /\ r.command \in Commands
          /\ r.command \notin Buttons =>
               CommandRoutes[r.command].needs \in CapabilitiesOf(u)
          /\ r.command = "proposals.approve" =>
               "Proposals.Confirm" \in CapabilitiesOf(u)
          /\ u \in worker.users /\ u # Nobody
          /\ r.valid =>
               /\ r.calendars \in SUBSET Calendars
               /\ r.target \in TargetsOf(r.command)
               /\ r.command \in ByProposal => r.proposal \in Proposals
      BY <1>3, Arrives
    <2>2. u \in Users
      <3>1. worker.users = {} \/ \E f \in Files : worker.users = LoadUsers(f)
        BY DEF IInv, StoreInv, StoreTypes
      <3> QED
        BY <2>1, <3>1, UsersAreLoaded
    <2>3. Dispatch(u, r)
      BY <1>3 DEF Receive
    <2>4. r.valid /\ r.command = "calendar.show_event" => r.target \in Calendars
      BY <2>1, RequestedTargets
    <2> HIDE DEF u
    <2>5. CASE Say(u, "application_failed")
      BY <2>2, <2>5, Saying DEF Outcomes
    <2>6. CASE \/ SystemCommands(u, r) \/ Status(u, r) \/ TasksList(u, r)
               \/ TasksShow(u, r) \/ ProposalsList(u, r) \/ ProposalsShow(u, r)
      BY <2>2, <2>6, PlainAnswers
    <2>7. CASE \/ CalendarListCalendars(u, r) \/ CalendarListEvents(u, r)
               \/ r.command = "calendar.show_event" /\ CalendarShowEvent(u, r)
      BY <2>1, <2>2, <2>4, <2>7, CalendarReads
    <2>8. CASE \/ r.command = "tasks.create" /\ TasksCreate(u, r)
               \/ r.command = "tasks.modify" /\ TasksModify(u, r)
               \/ r.command = "tasks.complete" /\ TasksComplete(u, r)
               \/ r.command = "tasks.delete" /\ TasksDelete(u, r)
      BY <1>1, <2>1, <2>2, <2>8, TaskProposals DEF Buttons
    <2>9. CASE \/ r.command = "calendar.sync" /\ CalendarSync(u, r)
               \/ r.command = "calendar.discover" /\ CalendarDiscover(u, r)
               \/ r.command = "calendar.create" /\ CalendarCreate(u, r)
               \/ r.command = "calendar.modify" /\ CalendarModify(u, r)
               \/ r.command = "calendar.cancel" /\ CalendarCancel(u, r)
      BY <1>1, <2>1, <2>2, <2>9, CalendarProposals DEF Buttons
    <2>10. CASE \/ r.command = "proposals.approve" /\ ProposalApprove(u, r)
                \/ r.command = "proposals.reject" /\ ProposalReject(u, r)
                \/ r.command = "proposals.cancel" /\ ProposalCancel(u, r)
      BY <1>1, <2>1, <2>2, <2>10, Decides DEF ByProposal, Buttons
    <2>11. CASE r.command = "proposals.execute" /\ ProposalExecute(u, r)
      BY <1>1, <2>1, <2>2, <2>11, Executing DEF ByProposal, Buttons
    <2> QED
      BY <2>3, <2>5, <2>6, <2>7, <2>8, <2>9, <2>10, <2>11 DEF Dispatch
  <1> QED
    BY <1>2, <1>3

-----------------------------------------------------------------------------
(* Executions.                                                             *)

(* What an applicable command leaves, and what a read-back may conclude. *)
LEMMA CommandsLeave ==
  ASSUME NEW kind \in TaskKinds, NEW status, Applicable(kind, status),
         status \in StoreStatuses \cup {"none"}
  PROVE  /\ After(kind, status) \in StoreStatuses
         /\ status = "none" => kind = "tasks.create"
  BY DEF TaskKinds, Applicable, After, StoreStatuses, TaskStatuses

LEMMA ReadBackTells ==
  ASSUME NEW kind \in TaskKinds, NEW report, NEW uuid, NEW export, NEW status,
         status = "none" => export.tasks = <<>>,
         status # "none" =>
           export.tasks = <<[uuid |-> uuid, status |-> status, complete |-> TRUE]>>,
         Accepted(kind, report, export, uuid)
  PROVE  status \in Promised(kind)
  <1> DEFINE told == [uuid |-> uuid, status |-> status, complete |-> TRUE]
  <1>1. /\ ReadMutated(report, export, uuid)
        /\ kind = "tasks.complete" => export.tasks[1].status = "completed"
        /\ kind = "tasks.delete" => export.tasks[1].status = "deleted"
    BY DEF Accepted, ReadCreated, ReadMutated, ModifyAccepted, CompleteAccepted,
       DeleteAccepted
  <1>2. ParseExport(export).success /\ Len(ParseExport(export).tasks) = 1
    BY <1>1 DEF ReadMutated, IsExactly
  <1>3. /\ \A i \in DOMAIN export.tasks : ParseTask(export.tasks[i])
        /\ Len(export.tasks) = 1
    BY <1>2 DEF ParseExport
  <1>4. status # "none"
    <2>1. Len(<<>>) = 0
      OBVIOUS
    <2> QED
      BY <1>3, <2>1
  <1>5. export.tasks = <<told>>
    BY <1>4
  <1> HIDE DEF told
  <1>6. export.tasks[1] = told /\ 1 \in DOMAIN export.tasks
    BY <1>5
  <1>7. ParseTask(told) /\ told.status = status
    BY <1>3, <1>6 DEF told
  <1> QED
    BY <1>1, <1>6, <1>7 DEF Promised, ParseTask, TaskStatuses

LEMMA Witnesses ==
  ASSUME seen \in [Actors -> SUBSET (StoreStatuses \cup {"none"})],
         NEW a \in Actors, NEW t, NEW s \in StoreStatuses \cup {"none"},
         NEW start \in BOOLEAN, seen' = Witnessed(a, t, s, start)
  PROVE  /\ seen' \in [Actors -> SUBSET (StoreStatuses \cup {"none"})]
         /\ start => seen'[a] = {s}
         /\ \A b \in Actors : ~(b = a /\ start) =>
              /\ seen[b] \subseteq seen'[b]
              /\ jobs[b].pc = "read" /\ jobs[b].target = t => s \in seen'[b]
  <1>1. ASSUME NEW b \in Actors
        PROVE  /\ b = a /\ start => seen'[b] = {s}
               /\ ~(b = a /\ start) /\ jobs[b].pc = "read" /\ jobs[b].target = t
                    => seen'[b] = seen[b] \cup {s}
               /\ ~(b = a /\ start) /\ ~(jobs[b].pc = "read" /\ jobs[b].target = t)
                    => seen'[b] = seen[b]
    BY DEF Witnessed
  <1>2. ASSUME NEW b \in Actors
        PROVE  seen'[b] \in SUBSET (StoreStatuses \cup {"none"})
    BY <1>1
  <1>3. seen' = [b \in Actors |-> seen'[b]]
    BY DEF Witnessed
  <1> QED
    BY <1>1, <1>2, <1>3

(* The other actor's job, when one changes the tasks. *)
LEMMA OthersWitness ==
  ASSUME NEW b \in Actors, JobIsProper(b), jobs'[b] = jobs[b],
         seen[b] \subseteq seen'[b],
         NEW t, NEW s, StatusOf(t)' = s,
         jobs[b].pc = "read" /\ jobs[b].target = t => s \in seen'[b],
         \A x : x # t => StatusOf(x)' = StatusOf(x),
         UNCHANGED <<worker, proposals>>
  PROVE  JobIsProper(b)'
  BY DEF JobIsProper

LEMMA TaskRunStep ==
  ASSUME IInv, NEW a \in Actors, TaskRun(a)
  PROVE  IInv'
  <1> DEFINE job == jobs[a]
  <1>1. /\ job \in Job /\ JobIsProper(a)
        /\ a \in {"telegram", "cli"}
    BY DEF IInv, StoreInv, StoreTypes, Jobs, Actors
  <1>2. PICK t \in IF job.kind = "tasks.create" THEN Tasks ELSE {job.target},
             run \in PassOrFailOne(RunChecks), ran \in BOOLEAN,
             output \in {"canonical", "other"} :
        LET report  == RunReport(run)
            able    == Applicable(job.kind, StatusOf(t))
            printed == job.kind # "tasks.create" \/ CreatedUuid(output)
            goesOn  == report = "ok" /\ printed
            status  == IF ran THEN After(job.kind, StatusOf(t)) ELSE StatusOf(t) IN
        /\ job.pc = "run" /\ job.kind \in TaskKinds
        /\ ran => able /\ run.started
        /\ job.kind = "tasks.create" => able
        /\ FaultUnless(IF able THEN ran /\ goesOn ELSE run.started /\ run.timely)
        /\ tasks' = IF ran THEN [tasks EXCEPT ![t] = status] ELSE tasks
        /\ effects' = IF ran /\ job.prop # NoDoc
                        THEN [effects EXCEPT ![job.prop] = @ + 1] ELSE effects
        /\ seen' = Witnessed(a, t, status, goesOn)
        /\ jobs' = [jobs EXCEPT ![a] =
             IF goesOn THEN [job EXCEPT !.pc = "read", !.target = t]
             ELSE [job EXCEPT !.pc = "record",
                     !.outcome = IF report = "not_started" THEN "not_started" ELSE "failed"]]
        /\ reply' = NoReply
        /\ UNCHANGED <<cast, file, worker, proposals, lost>>
    BY DEF TaskRun
  <1> DEFINE report == RunReport(run)
             able   == Applicable(job.kind, StatusOf(t))
             goesOn == report = "ok"
                         /\ (job.kind # "tasks.create" \/ CreatedUuid(output))
             status == IF ran THEN After(job.kind, StatusOf(t)) ELSE StatusOf(t)
             next == IF goesOn THEN [job EXCEPT !.pc = "read", !.target = t]
                     ELSE [job EXCEPT !.pc = "record",
                             !.outcome = IF report = "not_started" THEN "not_started" ELSE "failed"]
  <1>3. /\ job.pc = "run" /\ job.kind \in TaskKinds /\ job.outcome = "none"
        /\ ran => able /\ run.started
        /\ tasks' = IF ran THEN [tasks EXCEPT ![t] = status] ELSE tasks
        /\ seen' = Witnessed(a, t, status, goesOn)
        /\ jobs' = [jobs EXCEPT ![a] = next]
        /\ UNCHANGED <<cast, file, worker, proposals, lost>>
        /\ faults' \in 0..MaxFaults /\ faults <= faults'
        /\ reply' = NoReply
    BY <1>1, <1>2, FaultsCounted DEF IInv, StoreInv, StoreTypes, JobIsProper
  <1>4. StatusOf(t) \in StoreStatuses \cup {"none"} /\ t \in Targets
    BY <1>1, <1>2 DEF IInv, StoreInv, StoreTypes, StatusOf, Job, Targets
  <1>5. ran => t \in Tasks /\ status \in StoreStatuses
    BY <1>2, <1>3, <1>4, CommandsLeave DEF StatusOf
  <1>6. /\ tasks' \in [Tasks -> StoreStatuses \cup {"none"}]
        /\ StatusOf(t)' = status /\ status \in StoreStatuses \cup {"none"}
        /\ \A x : x # t => StatusOf(x)' = StatusOf(x)
    BY <1>3, <1>4, <1>5 DEF IInv, StoreInv, StoreTypes, StatusOf
  <1>7. /\ next \in Job /\ next.kind = job.kind /\ next.prop = job.prop
        /\ goesOn => next.pc = "read" /\ next.target = t /\ next.outcome = "none"
        /\ ~goesOn => /\ next.pc = "record" /\ next.outcome \in {"not_started", "failed"}
                      /\ next.outcome = "not_started" <=> report = "not_started"
    BY <1>1, <1>3, <1>4 DEF Job
  <1>8. (ran => report # "not_started") /\ goesOn \in BOOLEAN
    BY <1>3 DEF RunReport
  <1>9. effects' = IF ran /\ job.prop # NoDoc
                     THEN [effects EXCEPT ![job.prop] = @ + 1] ELSE effects
    BY <1>2
  <1> HIDE DEF next, status, goesOn, able, report
  <1>10. /\ seen' \in [Actors -> SUBSET (StoreStatuses \cup {"none"})]
         /\ goesOn => seen'[a] = {status}
         /\ \A b \in Actors : ~(b = a /\ goesOn) =>
              /\ seen[b] \subseteq seen'[b]
              /\ jobs[b].pc = "read" /\ jobs[b].target = t => status \in seen'[b]
    <2>1. seen \in [Actors -> SUBSET (StoreStatuses \cup {"none"})]
      BY DEF IInv, StoreInv, StoreTypes
    <2>2. seen' = Witnessed(a, t, status, goesOn)
      BY <1>3
    <2> QED
      BY <1>6, <1>8, <2>1, <2>2, Witnesses
  <1>11. /\ jobs' \in [Actors -> Job] /\ jobs'[a] = next
         /\ \A b \in Actors \ {a} : jobs'[b] = jobs[b]
    BY <1>3, <1>7 DEF IInv, StoreInv, StoreTypes
  <1>12. JobIsProper(a)'
    BY <1>1, <1>3, <1>6, <1>7, <1>10, <1>11 DEF JobIsProper, Kinds
  <1>13. ASSUME NEW b \in Actors \ {a} PROVE JobIsProper(b)'
    BY <1>3, <1>6, <1>10, <1>11, OthersWitness DEF IInv, StoreInv, Jobs
  <1>14. /\ a = "telegram" => job.prop \in Proposals /\ job.prop # NoDoc
         /\ a = "cli" => job.prop = NoDoc
    BY <1>1, <1>3, ApplicationConstantsAssumption DEF JobIsProper
  <1>15. /\ effects' \in [Proposals -> Nat]
         /\ \A q \in Proposals : effects'[q] =
              IF ran /\ a = "telegram" /\ q = job.prop THEN effects[q] + 1 ELSE effects[q]
    BY <1>1, <1>9, <1>14 DEF IInv, StoreInv, StoreTypes
  <1>16. ASSUME NEW q \in Proposals PROVE Accounted(q)'
    <2>1. Accounted(q) /\ effects[q] \in Nat /\ lost[q] \in Nat
          /\ faults \in Nat /\ faults' \in Nat
      BY <1>3, ApplicationConstantsAssumption DEF IInv, StoreInv, Effects, StoreTypes
    <2>2. CASE a = "telegram" /\ q = job.prop
      <3>1. /\ proposals[q].status = "approved" /\ proposals[q] # NoDoc
            /\ proposals[q].code = "none"
            /\ proposals[q].approver # Nobody /\ proposals[q].executor # Nobody
        BY <1>1, <1>3, <2>2
           DEF JobIsProper, IInv, StoreInv, Documents, Granted
      <3>2. effects[q] <= lost[q]
        BY <1>3, <2>1, <2>2, <3>1 DEF Accounted
      <3>3. \/ next.pc \in {"read", "record"} /\ next.outcome # "not_started"
            \/ effects'[q] = effects[q]
        BY <1>7, <1>8, <1>15, <2>1
      <3> QED
        BY <1>3, <1>7, <1>11, <1>15, <2>1, <2>2, <3>1, <3>2, <3>3
           DEF Accounted, NeverStarted
    <2>3. CASE a = "telegram" /\ q # job.prop
      BY <1>3, <1>7, <1>11, <1>15, <2>1, <2>3 DEF Accounted
    <2>4. CASE a # "telegram"
      <3>1. "telegram" \in Actors /\ jobs'["telegram"] = jobs["telegram"]
            /\ seen["telegram"] \subseteq seen'["telegram"]
        BY <1>10, <1>11, <2>4 DEF Actors
      <3>2. NeverStarted(jobs["telegram"])' => NeverStarted(jobs["telegram"])
        BY <3>1 DEF NeverStarted
      <3> QED
        BY <1>3, <1>15, <2>1, <2>4, <3>1, <3>2 DEF Accounted
    <2> QED
      BY <2>2, <2>3, <2>4
  <1>17. StoreTypes' /\ Documents'
    BY <1>3, <1>6, <1>10, <1>11, <1>15 DEF IInv, StoreInv, StoreTypes, Documents
  <1> QED
    BY <1>3, <1>12, <1>13, <1>16, <1>17, Silent DEF IInv, StoreInv, Jobs, Effects

LEMMA ReadBackStep ==
  ASSUME IInv, NEW a \in Actors, ReadBack(a)
  PROVE  IInv'
  <1> DEFINE job == jobs[a]
             status == StatusOf(job.target)
             rightly == [json |-> TRUE, tasks |->
                          IF status = "none" THEN <<>>
                          ELSE <<[uuid |-> job.target, status |-> status,
                                  complete |-> TRUE]>>]
  <1>1. /\ job \in Job /\ JobIsProper(a) /\ a \in {"telegram", "cli"}
    BY DEF IInv, StoreInv, StoreTypes, Jobs, Actors
  <1>2. PICK run \in PassOrFailOne(RunChecks), readable \in BOOLEAN :
          LET report == RunReport(run) IN
          /\ job.pc = "read"
          /\ FaultUnless(report = "ok" /\ readable)
          /\ jobs' = [jobs EXCEPT ![a].pc = "record", ![a].outcome =
               IF Accepted(job.kind, report, [rightly EXCEPT !.json = readable], job.target)
                 THEN "succeeded"
               ELSE IF report = "not_started" THEN "not_started" ELSE "failed"]
          /\ reply' = NoReply
          /\ UNCHANGED <<cast, file, worker, proposals, tasks, seen, effects, lost>>
    BY DEF ReadBack
  <1> DEFINE report == RunReport(run)
  <1> DEFINE accepted == Accepted(job.kind, report, [rightly EXCEPT !.json = readable], job.target)
             outcome == IF accepted THEN "succeeded"
                        ELSE IF report = "not_started" THEN "not_started" ELSE "failed"
             next == [job EXCEPT !.pc = "record", !.outcome = outcome]
  <1>3. job.kind \in TaskKinds /\ status \in seen[a]
    BY <1>1, <1>2 DEF JobIsProper
  <1>4. accepted => status \in Promised(job.kind)
    <2> DEFINE export == [rightly EXCEPT !.json = readable]
    <2>1. /\ status = "none" => export.tasks = <<>>
          /\ status # "none" =>
               export.tasks = <<[uuid |-> job.target, status |-> status, complete |-> TRUE]>>
      <3> DEFINE list == rightly.tasks
      <3>1. /\ status = "none" => list = <<>>
            /\ status # "none" =>
                 list = <<[uuid |-> job.target, status |-> status, complete |-> TRUE]>>
        OBVIOUS
      <3>2. export.tasks = list
        <4> DEFINE tt == IF status = "none" THEN <<>>
                          ELSE <<[uuid |-> job.target, status |-> status,
                                  complete |-> TRUE]>>
        <4> HIDE DEF tt
        <4>1. [[json |-> TRUE, tasks |-> tt] EXCEPT !.json = readable].tasks
                = [json |-> TRUE, tasks |-> tt].tasks
          OBVIOUS
        <4> QED
          BY <4>1 DEF tt
      <3> QED
        BY <3>1, <3>2
    <2>2. accepted => Accepted(job.kind, report, export, job.target)
      OBVIOUS
    <2> HIDE DEF export, accepted, status, job, report
    <2> QED
      BY <1>3, <2>1, <2>2, ReadBackTells
  <1> HIDE DEF accepted, status, report
  <1>5. /\ next \in Job /\ next.kind = job.kind /\ next.prop = job.prop
        /\ next.pc = "record" /\ next.outcome = outcome
    BY <1>1 DEF Job
  <1>6. jobs' = [jobs EXCEPT ![a] = next]
    BY <1>1, <1>2 DEF accepted, report, IInv, StoreInv, StoreTypes, Job
  <1> HIDE DEF next
  <1>7. /\ jobs' \in [Actors -> Job] /\ jobs'[a] = next
        /\ \A b \in Actors \ {a} : jobs'[b] = jobs[b]
    BY <1>5, <1>6 DEF IInv, StoreInv, StoreTypes
  <1>8. /\ UNCHANGED <<cast, file, worker, proposals, tasks, seen, effects, lost>>
        /\ faults' \in 0..MaxFaults /\ faults <= faults' /\ reply' = NoReply
    BY <1>2, FaultsCounted DEF IInv, StoreInv, StoreTypes
  <1>9. JobIsProper(a)'
    <2>1. outcome = "succeeded" => seen[a] \cap Promised(job.kind) # {}
      BY <1>3, <1>4
    <2>2. outcome # "none"
      OBVIOUS
    <2> HIDE DEF outcome
    <2> QED
      BY <1>1, <1>2, <1>3, <1>5, <1>7, <1>8, <2>1, <2>2 DEF JobIsProper
  <1>10. ASSUME NEW b \in Actors \ {a} PROVE JobIsProper(b)'
    BY <1>7, <1>8 DEF IInv, StoreInv, Jobs, JobIsProper, StatusOf
  <1>11. ASSUME NEW q \in Proposals PROVE Accounted(q)'
    <2>1. Accounted(q) /\ effects[q] \in Nat /\ lost[q] \in Nat
          /\ faults \in Nat /\ faults' \in Nat
      BY <1>8, ApplicationConstantsAssumption DEF IInv, StoreInv, Effects, StoreTypes
    <2>2. CASE a = "telegram"
      <3>1. seen'["telegram"] # {}
        BY <1>3, <1>8, <2>2
      <3> QED
        BY <1>2, <1>5, <1>7, <1>8, <2>1, <2>2, <3>1 DEF Accounted, NeverStarted
    <2>3. CASE a # "telegram"
      BY <1>7, <1>8, <2>1, <2>3 DEF Accounted, NeverStarted, Actors
    <2> QED
      BY <2>2, <2>3
  <1>12. StoreTypes' /\ Documents'
    BY <1>7, <1>8 DEF IInv, StoreInv, StoreTypes, Documents
  <1> QED
    BY <1>8, <1>9, <1>10, <1>11, <1>12, Silent DEF IInv, StoreInv, Jobs, Effects

LEMMA CalendarRunStep ==
  ASSUME IInv, CalendarRun
  PROVE  IInv'
  <1> DEFINE job == jobs["telegram"]
             p == job.prop
  <1>1. job \in Job /\ JobIsProper("telegram") /\ "telegram" \in Actors
    BY DEF IInv, StoreInv, StoreTypes, Jobs, Actors
  <1>2. PICK ran \in BOOLEAN, success \in BOOLEAN :
          /\ job.pc = "run" /\ job.kind \in CalendarKinds
          /\ FaultUnless(ran => success)
          /\ effects' = IF ran THEN [effects EXCEPT ![p] = @ + 1] ELSE effects
          /\ jobs' = [jobs EXCEPT !["telegram"].pc = "record", !["telegram"].outcome =
                      IF success THEN "succeeded" ELSE "failed"]
          /\ reply' = NoReply
          /\ UNCHANGED <<cast, file, worker, proposals, tasks, seen, lost>>
    BY DEF CalendarRun
  <1> DEFINE next == [job EXCEPT !.pc = "record",
                        !.outcome = IF success THEN "succeeded" ELSE "failed"]
  <1>3. /\ next \in Job /\ next.kind = job.kind /\ next.prop = p
        /\ next.pc = "record" /\ next.outcome \in {"succeeded", "failed"}
    BY <1>1 DEF Job
  <1>4. jobs' = [jobs EXCEPT !["telegram"] = next]
    BY <1>1, <1>2 DEF IInv, StoreInv, StoreTypes, Job
  <1> HIDE DEF next
  <1>5. /\ jobs' \in [Actors -> Job] /\ jobs'["telegram"] = next
        /\ jobs'["cli"] = jobs["cli"]
    BY <1>3, <1>4 DEF IInv, StoreInv, StoreTypes, Actors
  <1>6. /\ faults' \in 0..MaxFaults /\ faults <= faults'
    BY <1>2, FaultsCounted DEF IInv, StoreInv, StoreTypes
  <1>7. p \in Proposals /\ proposals[p] # NoDoc /\ proposals[p].status = "approved"
    BY <1>1, <1>2 DEF JobIsProper
  <1>8. /\ effects' \in [Proposals -> Nat]
        /\ \A q \in Proposals : effects'[q] =
             IF ran /\ q = p THEN effects[q] + 1 ELSE effects[q]
    BY <1>2, <1>7 DEF IInv, StoreInv, StoreTypes
  <1>9. job.kind \notin TaskKinds
    BY <1>2 DEF CalendarKinds, TaskKinds
  <1>10. JobIsProper("telegram")'
    BY <1>1, <1>2, <1>3, <1>5, <1>9 DEF JobIsProper
  <1>11. JobIsProper("cli")'
    BY <1>2, <1>5 DEF IInv, StoreInv, Jobs, JobIsProper, StatusOf, Actors
  <1>12. ASSUME NEW q \in Proposals PROVE Accounted(q)'
    <2>1. Accounted(q) /\ effects[q] \in Nat /\ lost[q] \in Nat
          /\ faults \in Nat /\ faults' \in Nat
      BY <1>6, ApplicationConstantsAssumption DEF IInv, StoreInv, Effects, StoreTypes
    <2>2. CASE q = p
      <3>1. /\ proposals[q].code = "none"
            /\ proposals[q].approver # Nobody /\ proposals[q].executor # Nobody
        BY <1>1, <1>2, <1>7, <2>2 DEF JobIsProper, IInv, StoreInv, Documents, Granted
      <3> QED
        BY <1>2, <1>3, <1>5, <1>6, <1>7, <1>8, <2>1, <2>2, <3>1
           DEF Accounted, NeverStarted
    <2>3. CASE q # p
      BY <1>2, <1>3, <1>5, <1>6, <1>8, <2>1, <2>3 DEF Accounted
    <2> QED
      BY <2>2, <2>3
  <1>13. StoreTypes' /\ Documents'
    BY <1>2, <1>5, <1>6, <1>8 DEF IInv, StoreInv, StoreTypes, Documents
  <1> QED
    BY <1>2, <1>10, <1>11, <1>12, <1>13, Silent
       DEF IInv, StoreInv, Jobs, Effects, Actors

(* The worker's job ends, and its end is recorded or counted as lost. *)
LEMMA IdleIsProper ==
  ASSUME NEW a \in Actors, jobs'[a] = Idle
  PROVE  JobIsProper(a)'
  BY DEF JobIsProper, Idle

LEMMA IdleIsTyped == Idle \in Job /\ Idle.prop = NoDoc /\ Idle.pc = "idle"
  BY DEF Idle, Job, Targets

LEMMA RecordStep ==
  ASSUME IInv, Record
  PROVE  IInv'
  <1> DEFINE job == jobs["telegram"]
             p == job.prop
             d == proposals[p]
  <1>1. /\ job \in Job /\ JobIsProper("telegram")
        /\ "telegram" \in Actors /\ "cli" \in Actors
    BY DEF IInv, StoreInv, StoreTypes, Jobs, Actors
  <1>2. PICK recorded \in BOOLEAN, reported \in BOOLEAN :
          /\ job.pc = "record"
          /\ reported => recorded
          /\ FaultUnless(reported)
          /\ proposals' = IF recorded
               THEN [proposals EXCEPT ![p].code = job.outcome,
                       ![p].status = IF job.outcome = "succeeded" THEN "succeeded"
                                                                  ELSE "failed"]
               ELSE proposals
          /\ lost' = IF recorded THEN lost ELSE [lost EXCEPT ![p] = @ + 1]
          /\ Respond(d.executor, IF reported /\ job.outcome = "succeeded"
                                 THEN "succeeded" ELSE "application_failed", {}, {})
          /\ jobs' = [jobs EXCEPT !["telegram"] = Idle]
          /\ seen' = [seen EXCEPT !["telegram"] = {}]
          /\ UNCHANGED <<cast, file, worker, tasks, effects>>
    BY DEF Record
  <1>3. /\ p \in Proposals /\ d # NoDoc /\ d.status = "approved" /\ d \in Doc
        /\ Granted(d) /\ d.executor # Nobody /\ d.approver # Nobody
        /\ d.code = "none" /\ job.outcome # "none" /\ p # NoDoc
    BY <1>1, <1>2, ApplicationConstantsAssumption
       DEF JobIsProper, IInv, StoreInv, StoreTypes, Documents, Granted
  <1> DEFINE e == [d EXCEPT !.code = job.outcome,
                     !.status = IF job.outcome = "succeeded" THEN "succeeded" ELSE "failed"]
  <1>4. /\ e \in Doc /\ Granted(e) /\ e # NoDoc /\ e.code = job.outcome
        /\ e.approver = d.approver /\ e.executor = d.executor
    <2>1. /\ e.kind = d.kind /\ e.target = d.target /\ e.by = d.by
          /\ e.approver = d.approver /\ e.executor = d.executor
          /\ e.code = job.outcome /\ e.status \in {"succeeded", "failed"}
      BY <1>3 DEF Doc
    <2>2. job.outcome \in {"succeeded", "not_started", "failed"}
      BY <1>1, <1>3 DEF Job
    <2>3. e \in Doc
      BY <1>3, <2>2 DEF Doc, Statuses
    <2>4. Granted(e)
      BY <1>3, <2>1, <2>2 DEF Granted
    <2> QED
      BY <2>1, <2>3, <2>4, NoDocAssumption
  <1>5. proposals' = IF recorded THEN [proposals EXCEPT ![p] = e] ELSE proposals
    BY <1>2, <1>3 DEF IInv, StoreInv, StoreTypes, Doc
  <1> HIDE DEF e
  <1>6. /\ proposals' \in [Proposals -> Doc \cup {NoDoc}]
        /\ proposals'[p] = IF recorded THEN e ELSE d
        /\ \A q \in Proposals \ {p} : proposals'[q] = proposals[q]
    BY <1>3, <1>4, <1>5 DEF IInv, StoreInv, StoreTypes
  <1>7. /\ lost' \in [Proposals -> Nat]
        /\ \A q \in Proposals : lost'[q] =
             IF ~recorded /\ q = p THEN lost[q] + 1 ELSE lost[q]
    BY <1>2, <1>3 DEF IInv, StoreInv, StoreTypes
  <1>8. /\ jobs' \in [Actors -> Job] /\ jobs'["telegram"] = Idle
        /\ jobs'["cli"] = jobs["cli"] /\ seen'["cli"] = seen["cli"]
        /\ seen' \in [Actors -> SUBSET (StoreStatuses \cup {"none"})]
    BY <1>2, IdleIsTyped DEF IInv, StoreInv, StoreTypes, Actors
  <1>9. /\ faults' \in 0..MaxFaults /\ faults <= faults'
        /\ ~recorded => faults' = faults + 1
    BY <1>2, FaultsCounted DEF IInv, StoreInv, StoreTypes
  <1>10. JobIsProper("cli")'
    BY <1>1, <1>2, <1>8 DEF IInv, StoreInv, Jobs, JobIsProper, StatusOf
  <1>11. ASSUME NEW q \in Proposals PROVE Accounted(q)'
    <2>1. Accounted(q) /\ effects[q] \in Nat /\ lost[q] \in Nat
          /\ faults \in Nat /\ faults' \in Nat
      BY <1>9, ApplicationConstantsAssumption DEF IInv, StoreInv, Effects, StoreTypes
    <2>2. CASE q = p
      <3>1. job.outcome \in {"succeeded", "not_started", "failed"}
        BY <1>1, <1>3 DEF Job
      <3>2. effects[q] <= lost[q] + 1 /\ lost[q] <= faults /\ effects'[q] = effects[q]
        BY <1>2, <2>1 DEF Accounted
      <3>3. CASE recorded
        <4>1. /\ proposals'[q] # NoDoc /\ proposals'[q].approver # Nobody
              /\ proposals'[q].executor # Nobody /\ lost'[q] = lost[q]
              /\ proposals'[q].code # "none"
          BY <1>3, <1>4, <1>6, <1>7, <2>2, <3>1, <3>3
        <4> QED
          BY <1>9, <2>1, <3>2, <4>1 DEF Accounted
      <3>4. CASE ~recorded
        <4>1. /\ proposals'[q] # NoDoc /\ proposals'[q].approver # Nobody
              /\ proposals'[q].executor # Nobody /\ lost'[q] = lost[q] + 1
          BY <1>3, <1>6, <1>7, <2>2, <3>4
        <4> QED
          BY <1>9, <2>1, <3>2, <3>4, <4>1 DEF Accounted
      <3> QED
        BY <3>3, <3>4
    <2>3. CASE q # p
      <3>1. /\ proposals'[q] = proposals[q] /\ lost'[q] = lost[q]
            /\ effects'[q] = effects[q] /\ faults <= faults'
        BY <1>2, <1>6, <1>7, <1>9, <2>3
      <3>2. job.prop # q
        BY <2>3
      <3>3. \/ proposals[q] # NoDoc /\ proposals[q].code # "none"
            \/ effects[q] <= lost[q]
        BY <2>1, <3>2 DEF Accounted
      <3>4. lost'[q] <= faults'
        BY <2>1, <3>1 DEF Accounted
      <3> QED
        BY <2>1, <3>1, <3>3, <3>4 DEF Accounted
    <2> QED
      BY <2>2, <2>3
  <1>12. StoreTypes' /\ Documents'
    BY <1>2, <1>4, <1>6, <1>7, <1>8, <1>9 DEF IInv, StoreInv, StoreTypes, Documents
  <1>13. ReplyIsProper'
    <2>1. d.executor \in Users
      BY <1>3 DEF Doc
    <2>2. PICK outcome \in Outcomes : Respond(d.executor, outcome, {}, {})
      BY <1>2 DEF Outcomes
    <2> QED
      BY <2>1, <2>2, Unanswered, ControlsAreButtons
  <1> QED
    BY <1>8, <1>10, <1>11, <1>12, <1>13, IdleIsProper
       DEF IInv, StoreInv, Jobs, Effects, Actors

LEMMA StopStep ==
  ASSUME IInv, Stop
  PROVE  IInv'
  <1> DEFINE job == jobs["telegram"]
             p == job.prop
  <1>1. /\ job \in Job /\ JobIsProper("telegram")
        /\ "telegram" \in Actors /\ "cli" \in Actors
    BY DEF IInv, StoreInv, StoreTypes, Jobs, Actors
  <1>2. /\ worker.up /\ FaultUnless(job.pc = "idle") /\ worker' = DownWorker
        /\ lost' = IF p = NoDoc THEN lost ELSE [lost EXCEPT ![p] = @ + 1]
        /\ jobs' = [jobs EXCEPT !["telegram"] = Idle]
        /\ seen' = [seen EXCEPT !["telegram"] = {}]
        /\ reply' = NoReply
        /\ UNCHANGED <<cast, file, proposals, tasks, effects>>
    BY DEF Stop
  <1>3. /\ job.pc = "idle" => p = NoDoc
        /\ job.pc # "idle" => p \in Proposals /\ p # NoDoc
    BY <1>1, IdleIsTyped, ApplicationConstantsAssumption DEF JobIsProper
  <1>4. /\ lost' \in [Proposals -> Nat]
        /\ \A q \in Proposals : lost'[q] =
             IF job.pc # "idle" /\ q = p THEN lost[q] + 1 ELSE lost[q]
    BY <1>2, <1>3, ApplicationConstantsAssumption DEF IInv, StoreInv, StoreTypes
  <1>5. /\ jobs' \in [Actors -> Job] /\ jobs'["telegram"] = Idle
        /\ jobs'["cli"] = jobs["cli"] /\ seen'["cli"] = seen["cli"]
        /\ seen' \in [Actors -> SUBSET (StoreStatuses \cup {"none"})]
    BY <1>2, IdleIsTyped DEF IInv, StoreInv, StoreTypes, Actors
  <1>6. /\ faults' \in 0..MaxFaults /\ faults <= faults'
        /\ job.pc # "idle" => faults' = faults + 1
    BY <1>2, FaultsCounted DEF IInv, StoreInv, StoreTypes
  <1>7. JobIsProper("cli")'
    BY <1>1, <1>2, <1>5 DEF IInv, StoreInv, Jobs, JobIsProper, StatusOf
  <1>8. ASSUME NEW q \in Proposals PROVE Accounted(q)'
    <2>1. Accounted(q) /\ effects[q] \in Nat /\ lost[q] \in Nat
          /\ faults \in Nat /\ faults' \in Nat
      BY <1>6, ApplicationConstantsAssumption DEF IInv, StoreInv, Effects, StoreTypes
    <2>2. CASE job.pc # "idle" /\ q = p
      BY <1>2, <1>4, <1>6, <2>1, <2>2 DEF Accounted
    <2>3. CASE job.pc # "idle" /\ q # p
      BY <1>2, <1>4, <1>5, <1>6, <2>1, <2>3 DEF Accounted
    <2>4. CASE job.pc = "idle"
      BY <1>2, <1>4, <1>5, <1>6, <2>1, <2>4 DEF Accounted
    <2> QED
      BY <2>2, <2>3, <2>4
  <1>9. StoreTypes' /\ Documents'
    BY <1>2, <1>4, <1>5, <1>6 DEF IInv, StoreInv, StoreTypes, Documents, DownWorker
  <1> QED
    BY <1>2, <1>5, <1>7, <1>8, <1>9, IdleIsProper, Silent
       DEF IInv, StoreInv, Jobs, Effects, Actors

-----------------------------------------------------------------------------
(* Beside the worker.                                                      *)

LEMMA CliStep ==
  ASSUME IInv, CliAnswer \/ \E kind \in TaskKinds, t \in Tasks \cup {NoTarget} :
                              CliTask(kind, t)
  PROVE  IInv'
  <1>1. PICK next \in Job :
          /\ jobs' = [jobs EXCEPT !["cli"] = next]
          /\ \/ next = Idle
             \/ /\ next.pc = "run" /\ next.kind \in TaskKinds
                /\ next.prop = NoDoc /\ next.outcome = "none"
    <2>1. CASE CliAnswer
      BY <2>1, IdleIsTyped DEF CliAnswer
    <2>2. ASSUME NEW kind \in TaskKinds, NEW t \in Tasks \cup {NoTarget}, CliTask(kind, t)
          PROVE  \E next \in Job :
                   /\ jobs' = [jobs EXCEPT !["cli"] = next]
                   /\ next.pc = "run" /\ next.kind \in TaskKinds
                   /\ next.prop = NoDoc /\ next.outcome = "none"
      <3> DEFINE n == [pc |-> "run", kind |-> kind, target |-> t, prop |-> NoDoc,
                       outcome |-> "none"]
      <3>1. jobs' = [jobs EXCEPT !["cli"] = n]
        BY <2>2 DEF CliTask, StartJob
      <3>2. n \in Job
        BY DEF Job, Kinds, Targets
      <3> QED
        BY <3>1, <3>2
    <2> QED
      BY <2>1, <2>2
  <1>2. /\ UNCHANGED <<cast, file, worker, proposals, tasks, effects, lost, faults>>
        /\ reply' = NoReply
        /\ seen' \in [Actors -> SUBSET (StoreStatuses \cup {"none"})]
        /\ seen'["telegram"] = seen["telegram"]
    BY DEF CliAnswer, CliTask, IInv, StoreInv, StoreTypes, Actors
  <1>3. /\ jobs' \in [Actors -> Job] /\ jobs'["cli"] = next
        /\ jobs'["telegram"] = jobs["telegram"]
    BY <1>1 DEF IInv, StoreInv, StoreTypes, Actors
  <1>4. JobIsProper("cli")'
    BY <1>1, <1>3, IdleIsProper DEF JobIsProper, Kinds, Actors
  <1>5. JobIsProper("telegram")'
    BY <1>2, <1>3 DEF IInv, StoreInv, Jobs, JobIsProper, StatusOf, Actors
  <1>6. Effects'
    BY <1>2, <1>3 DEF IInv, StoreInv, Effects, Accounted, NeverStarted
  <1>7. StoreTypes' /\ Documents'
    BY <1>2, <1>3 DEF IInv, StoreInv, StoreTypes, Documents
  <1> QED
    BY <1>2, <1>4, <1>5, <1>6, <1>7, Silent DEF IInv, StoreInv, Jobs, Actors

LEMMA TaskwarriorEditStep ==
  ASSUME IInv, NEW t \in Tasks, NEW status \in StoreStatuses, TaskwarriorEdit(t, status)
  PROVE  IInv'
  <1>1. /\ tasks' = [tasks EXCEPT ![t] = status]
        /\ seen' = Witnessed("telegram", t, status, FALSE)
        /\ reply' = NoReply
        /\ UNCHANGED <<cast, file, worker, proposals, jobs, effects, lost, faults>>
    BY DEF TaskwarriorEdit
  <1>2. /\ tasks' \in [Tasks -> StoreStatuses \cup {"none"}]
        /\ StatusOf(t)' = status
        /\ \A x : x # t => StatusOf(x)' = StatusOf(x)
    BY <1>1 DEF IInv, StoreInv, StoreTypes, StatusOf
  <1>3. /\ seen' \in [Actors -> SUBSET (StoreStatuses \cup {"none"})]
        /\ \A b \in Actors :
              /\ seen[b] \subseteq seen'[b]
              /\ jobs[b].pc = "read" /\ jobs[b].target = t => status \in seen'[b]
    <2>1. "telegram" \in Actors /\ FALSE \in BOOLEAN
          /\ status \in StoreStatuses \cup {"none"}
      BY DEF Actors
    <2> QED
      BY <1>1, <2>1, Witnesses DEF IInv, StoreInv, StoreTypes
  <1>4. ASSUME NEW b \in Actors PROVE JobIsProper(b)'
    BY <1>1, <1>2, <1>3, OthersWitness DEF IInv, StoreInv, Jobs
  <1>5. Effects'
    <2>1. NeverStarted(jobs["telegram"])' => NeverStarted(jobs["telegram"])
      BY <1>1, <1>3 DEF NeverStarted, Actors
    <2> QED
      BY <1>1, <2>1 DEF IInv, StoreInv, Effects, Accounted
  <1>6. StoreTypes' /\ Documents'
    BY <1>1, <1>2, <1>3 DEF IInv, StoreInv, StoreTypes, Documents
  <1> QED
    BY <1>1, <1>4, <1>5, <1>6, Silent DEF IInv, StoreInv, Jobs

LEMMA AdministrationStep ==
  ASSUME IInv, \/ \E f \in Files : EditFile(f)
               \/ \E calendar \in BOOLEAN : Start(calendar)
  PROVE  IInv'
  <1>1. /\ UNCHANGED <<cast, proposals, tasks, jobs, seen, effects, lost, faults>>
        /\ reply' = NoReply /\ file' \in Files
        /\ worker.up => worker' = worker
        /\ worker' \in [up : BOOLEAN, users : {{}} \cup {LoadUsers(f) : f \in Files},
                        calendar : BOOLEAN]
    <2>1. CASE \E f \in Files : EditFile(f)
      BY <2>1 DEF EditFile, IInv, StoreInv, StoreTypes
    <2>2. CASE \E calendar \in BOOLEAN : Start(calendar)
      <3>1. PICK calendar \in BOOLEAN : Start(calendar)
        BY <2>2
      <3>2. file \in Files
        BY DEF IInv, StoreInv, StoreTypes
      <3>3. worker' \in [up : BOOLEAN, users : {{}} \cup {LoadUsers(f) : f \in Files},
                         calendar : BOOLEAN]
        BY <3>1, <3>2 DEF Start
      <3> QED
        BY <3>1, <3>2, <3>3 DEF Start
    <2> QED
      BY <2>1, <2>2
  <1>2. StoreTypes' /\ Documents' /\ Effects'
    BY <1>1 DEF IInv, StoreInv, StoreTypes, Documents, Effects, Accounted, NeverStarted
  <1>3. Jobs'
    BY <1>1 DEF IInv, StoreInv, Jobs, JobIsProper, StatusOf
  <1> QED
    BY <1>1, <1>2, <1>3, Silent DEF IInv, StoreInv

-----------------------------------------------------------------------------
LEMMA Inductive == Spec => []IInv
  <1>1. ASSUME Init PROVE IInv
    <2>1. StoreTypes
      BY <1>1, IdleIsTyped, ApplicationConstantsAssumption
         DEF Init, StoreTypes, DownWorker, StoreStatuses, TaskStatuses
    <2>2. Documents /\ Jobs /\ Effects
      BY <1>1, ApplicationConstantsAssumption
         DEF Init, Documents, Jobs, JobIsProper, Idle, Effects, Accounted
    <2>3. ReplyIsProper
      BY <1>1 DEF Init, NoReply, ReplyIsProper, ReadsStayWithinPolicy
    <2> QED
      BY <2>1, <2>2, <2>3 DEF IInv, StoreInv
  <1>2. ASSUME IInv, Next PROVE IInv'
    <2>1. CASE Answered
      BY <1>2, <2>1, Silent, StoresKept DEF Answered, IInv
    <2>2. ASSUME NEW id \in Identities, NEW r \in Requests, Receive(id, r) PROVE IInv'
      BY <1>2, <2>2, ReceiveStep
    <2>3. ASSUME NEW a \in Actors, TaskRun(a) \/ ReadBack(a) PROVE IInv'
      BY <1>2, <2>3, TaskRunStep, ReadBackStep
    <2>4. CASE CalendarRun \/ Record \/ Stop
      BY <1>2, <2>4, CalendarRunStep, RecordStep, StopStep
    <2>5. CASE CliAnswer \/ \E kind \in TaskKinds, t \in Tasks \cup {NoTarget} :
                              CliTask(kind, t)
      BY <1>2, <2>5, CliStep
    <2>6. ASSUME NEW t \in Tasks, NEW status \in StoreStatuses,
                 TaskwarriorEdit(t, status)
          PROVE  IInv'
      BY <1>2, <2>6, TaskwarriorEditStep
    <2>7. CASE \/ \E f \in Files : EditFile(f)
               \/ \E calendar \in BOOLEAN : Start(calendar)
      BY <1>2, <2>7, AdministrationStep
    <2> QED
      BY <1>2, <2>1, <2>2, <2>3, <2>4, <2>5, <2>6, <2>7 DEF Next
  <1>3. ASSUME IInv, UNCHANGED vars PROVE IInv'
    <2>1. StoreInv'
      BY <1>3, StoresKept DEF vars, stores, IInv
    <2> QED
      BY <1>3, <2>1 DEF vars, IInv, ReplyIsProper, ReadsStayWithinPolicy
  <1> QED
    BY <1>1, <1>2, <1>3, PTL DEF Spec

(* Every document, job, answer and task status is of its type, whatever is *)
(* sent, fails or is done beside the worker; and no execution outlives the *)
(* worker that ran it.                                                     *)
THEOREM ApplicationIsTyped == Spec => []TypeOK
  <1>1. ASSUME IInv PROVE TypeOK
    <2>1. lost \in [Proposals -> 0..MaxFaults]
      BY <1>1, ApplicationConstantsAssumption
         DEF IInv, StoreInv, StoreTypes, Effects, Accounted
    <2> QED
      BY <1>1, <2>1
         DEF IInv, StoreInv, StoreTypes, Jobs, JobIsProper, Actors, ReplyIsProper, TypeOK
  <1> QED
    BY <1>1, Inductive, PTL

(* An action that took effect had the capability of its command from the   *)
(* user who asked, the permission for its calendar, the confirmation of a  *)
(* user who may confirm, and the execution by a user who may execute its   *)
(* risk, for any user files, edits of them and interleaving with others.   *)
THEOREM OnlyGrantedActions == Spec => []EffectsAreGranted
  <1>1. ASSUME IInv PROVE EffectsAreGranted
    BY <1>1 DEF IInv, StoreInv, Documents, Granted, Effects, Accounted, EffectsAreGranted
  <1> QED
    BY <1>1, Inductive, PTL

(* An action never takes effect more often than its document and the lost  *)
(* executions account for, whatever the subprocesses do and whenever the   *)
(* worker is killed; and a command that was reported as not started, before*)
(* any read-back, took no effect.                                          *)
THEOREM ActionsAreAccounted == Spec => []EffectsAreAccounted
  <1>1. ASSUME IInv PROVE EffectsAreAccounted
    BY <1>1 DEF IInv, StoreInv, StoreTypes, Effects, Accounted, EffectsAreAccounted
  <1> QED
    BY <1>1, Inductive, PTL

(* A task command is reported as successful only when the task had the     *)
(* status it promises between the command's end and the read-back, however *)
(* many others change tasks meanwhile.                                     *)
THEOREM ReportedTasksAreReal == Spec => []SuccessIsReal
  <1>1. ASSUME IInv PROVE SuccessIsReal
    BY <1>1 DEF IInv, StoreInv, Jobs, JobIsProper, SuccessIsReal
  <1> QED
    BY <1>1, Inductive, PTL

(* No answer tells of a calendar that its reader's entry does not permit,  *)
(* for any entries and any selection.                                      *)
THEOREM CalendarsStayPrivate == Spec => []ReadsStayWithinPolicy
  <1>1. ASSUME IInv PROVE ReadsStayWithinPolicy
    BY <1>1 DEF IInv, ReplyIsProper
  <1> QED
    BY <1>1, Inductive, PTL

-----------------------------------------------------------------------------
(* Finished proposals.                                                     *)

Finished(p) == proposals[p] # NoDoc /\ proposals[p].status \in TerminalStatuses

FinishedStay ==
  \A p \in Proposals : Finished(p) =>
    proposals'[p] = proposals[p] /\ effects'[p] = effects[p]

(* A step that writes one document that is not finished leaves the rest. *)
LEMMA WritesOneDocument ==
  ASSUME StoreTypes, NEW p \in Proposals, ~Finished(p), NEW d,
         proposals' = [proposals EXCEPT ![p] = d],
         effects' = effects
  PROVE  FinishedStay
  <1>1. \A q \in Proposals \ {p} : proposals'[q] = proposals[q]
    BY DEF StoreTypes
  <1> QED
    BY <1>1 DEF FinishedStay

LEMMA NothingWritten ==
  ASSUME UNCHANGED <<proposals, effects>>
  PROVE  FinishedStay
  BY DEF FinishedStay

LEMMA AnswersWriteNothing ==
  /\ \A u, outcome : Say(u, outcome) => FinishedStay
  /\ \A u, outcomes : SayOneOf(u, outcomes) => FinishedStay
  <1>1. ASSUME NEW u, NEW outcome, Say(u, outcome) PROVE FinishedStay
    BY <1>1, NothingWritten DEF Say, stores
  <1> QED
    BY <1>1 DEF SayOneOf

LEMMA SubmissionsLeave ==
  ASSUME StoreTypes, NEW u, NEW kind, NEW target,
         SubmitInteractiveProposal(u, kind, target)
  PROVE  FinishedStay
  <1>1. CASE Say(u, "application_failed")
    BY <1>1, AnswersWriteNothing
  <1>2. CASE ~Say(u, "application_failed")
    <2>1. PICK p \in Proposals :
            /\ proposals[p] = NoDoc /\ effects' = effects
            /\ \E d : proposals' = [proposals EXCEPT ![p] = d]
      BY <1>2 DEF SubmitInteractiveProposal
    <2> QED
      BY <2>1, WritesOneDocument DEF Finished
  <1> QED
    BY <1>1, <1>2

LEMMA DecisionsLeave ==
  ASSUME StoreTypes, NEW u, NEW r, r.valid => r.proposal \in Proposals,
         NEW decision, NEW decided, NEW controls,
         ProposalDecision(u, r, decision, decided, controls)
  PROVE  FinishedStay
  <1>1. CASE \E outcome : Say(u, outcome)
    BY <1>1, AnswersWriteNothing
  <1>2. CASE ~ \E outcome : Say(u, outcome)
    <2>1. /\ r.valid /\ DecisionPermitted(proposals[r.proposal].status, decision)
          /\ proposals' = [proposals EXCEPT ![r.proposal] = decided]
          /\ effects' = effects
      BY <1>2 DEF ProposalDecision
    <2>2. ~Finished(r.proposal)
      BY <2>1 DEF DecisionPermitted, CanTransition, Finished
    <2> QED
      BY <2>1, <2>2, WritesOneDocument
  <1> QED
    BY <1>1, <1>2

LEMMA StartsLeave ==
  ASSUME StoreTypes, NEW u, NEW r, r.valid => r.proposal \in Proposals,
         ProposalExecute(u, r)
  PROVE  FinishedStay
  <1>1. CASE \E outcomes : SayOneOf(u, outcomes)
    BY <1>1, AnswersWriteNothing
  <1>2. CASE \E outcome : Say(u, outcome)
    BY <1>2, AnswersWriteNothing
  <1>3. CASE /\ r.valid /\ proposals[r.proposal].status = "approved"
             /\ proposals' = [proposals EXCEPT ![r.proposal].executor = u]
             /\ effects' = effects
    <2>1. ~Finished(r.proposal)
      BY <1>3 DEF Finished, TerminalStatuses
    <2>2. PICK d : proposals' = [proposals EXCEPT ![r.proposal] = d]
      BY <1>3
    <2> QED
      BY <1>3, <2>1, <2>2, WritesOneDocument
  <1> QED
    BY <1>1, <1>2, <1>3 DEF ProposalExecute

LEMMA CalendarsLeave ==
  ASSUME StoreTypes, NEW u, NEW r
  PROVE  /\ \A refusal, failures, calendars :
              CalendarAnswer(u, refusal, failures, calendars) => FinishedStay
         /\ \A refusal, target :
              CalendarProposal(u, r, refusal, target) => FinishedStay
  <1>1. ASSUME NEW refusal, NEW failures, NEW calendars,
               CalendarAnswer(u, refusal, failures, calendars)
        PROVE  FinishedStay
    <2>1. CASE UNCHANGED stores
      BY <2>1, NothingWritten DEF stores
    <2>2. CASE ~ UNCHANGED stores
      BY <1>1, <2>2, AnswersWriteNothing DEF CalendarAnswer
    <2> QED
      BY <2>1, <2>2
  <1>2. ASSUME NEW refusal, NEW target, CalendarProposal(u, r, refusal, target)
        PROVE  FinishedStay
    BY <1>2, SubmissionsLeave, AnswersWriteNothing DEF CalendarProposal
  <1> QED
    BY <1>1, <1>2

(* No request changes a finished document. *)
LEMMA RequestsLeave ==
  ASSUME StoreTypes, NEW u, NEW r, Dispatch(u, r),
         r.valid /\ r.command \in ByProposal => r.proposal \in Proposals
  PROVE  FinishedStay
  <1>1. CASE \/ SystemCommands(u, r)
             \/ Status(u, r)
             \/ TasksList(u, r)
             \/ TasksShow(u, r)
             \/ ProposalsList(u, r)
             \/ ProposalsShow(u, r)
             \/ Say(u, "application_failed")
    BY <1>1, AnswersWriteNothing
       DEF SystemCommands, Status, TasksList, TasksShow, ProposalsList, ProposalsShow
  <1>2. CASE \/ CalendarListCalendars(u, r)
             \/ CalendarListEvents(u, r)
             \/ CalendarShowEvent(u, r)
    BY <1>2, CalendarsLeave
       DEF CalendarListCalendars, CalendarListEvents, CalendarShowEvent
  <1>3. CASE \/ CalendarSync(u, r)
             \/ CalendarDiscover(u, r)
             \/ CalendarCreate(u, r)
             \/ CalendarModify(u, r)
             \/ CalendarCancel(u, r)
    BY <1>3, CalendarsLeave
       DEF CalendarSync, CalendarDiscover, CalendarCreate, CalendarModify, CalendarCancel
  <1>4. CASE \/ TasksCreate(u, r)
             \/ TasksModify(u, r)
             \/ TasksComplete(u, r)
             \/ TasksDelete(u, r)
    BY <1>4, SubmissionsLeave, AnswersWriteNothing
       DEF TasksCreate, TasksModify, TasksComplete, TasksDelete, TaskProposal
  <1>5. CASE \/ r.command = "proposals.approve" /\ ProposalApprove(u, r)
             \/ r.command = "proposals.reject" /\ ProposalReject(u, r)
             \/ r.command = "proposals.cancel" /\ ProposalCancel(u, r)
    <2>1. r.valid => r.proposal \in Proposals
      BY <1>5 DEF ByProposal, Buttons
    <2> QED
      BY <1>5, <2>1, DecisionsLeave DEF ProposalApprove, ProposalReject, ProposalCancel
  <1>6. CASE r.command = "proposals.execute" /\ ProposalExecute(u, r)
    BY <1>6, StartsLeave DEF ByProposal, Buttons
  <1> QED
    BY <1>1, <1>2, <1>3, <1>4, <1>5, <1>6 DEF Dispatch

LEMMA ReceivingLeaves ==
  ASSUME IInv, NEW id \in Identities, NEW r \in Requests, Receive(id, r)
  PROVE  FinishedStay
  <1>1. CASE ~Routed(id, r, worker.users)
    BY <1>1, AnswersWriteNothing DEF Receive
  <1>2. CASE Routed(id, r, worker.users)
    <2>1. r.valid /\ r.command \in ByProposal => r.proposal \in Proposals
      BY <1>2, Arrives
    <2>2. Dispatch(Authorise(id, worker.users), r)
      BY <1>2 DEF Receive
    <2> QED
      BY <2>1, <2>2, RequestsLeave DEF IInv, StoreInv
  <1> QED
    BY <1>1, <1>2

(* A job acts on, and its record is written into, an approved document.    *)
LEMMA JobsLeave ==
  ASSUME IInv, \/ \E a \in Actors : TaskRun(a)
               \/ CalendarRun
               \/ Record
  PROVE  FinishedStay
  <1>1. CASE \E a \in Actors : TaskRun(a)
    <2>1. PICK a \in Actors : TaskRun(a)
      BY <1>1
    <2> DEFINE job == jobs[a]
    <2>2. PICK t \in IF job.kind = "tasks.create" THEN Tasks ELSE {job.target},
               run \in PassOrFailOne(RunChecks), ran \in BOOLEAN,
               output \in {"canonical", "other"} :
          LET report  == RunReport(run)
              able    == Applicable(job.kind, StatusOf(t))
              printed == job.kind # "tasks.create" \/ CreatedUuid(output)
              goesOn  == report = "ok" /\ printed
              status  == IF ran THEN After(job.kind, StatusOf(t)) ELSE StatusOf(t) IN
          /\ job.pc = "run" /\ job.kind \in TaskKinds
          /\ ran => able /\ run.started
          /\ job.kind = "tasks.create" => able
          /\ FaultUnless(IF able THEN ran /\ goesOn ELSE run.started /\ run.timely)
          /\ tasks' = IF ran THEN [tasks EXCEPT ![t] = status] ELSE tasks
          /\ effects' = IF ran /\ job.prop # NoDoc
                          THEN [effects EXCEPT ![job.prop] = @ + 1] ELSE effects
          /\ seen' = Witnessed(a, t, status, goesOn)
          /\ jobs' = [jobs EXCEPT ![a] =
               IF goesOn THEN [job EXCEPT !.pc = "read", !.target = t]
               ELSE [job EXCEPT !.pc = "record",
                       !.outcome = IF report = "not_started" THEN "not_started" ELSE "failed"]]
          /\ reply' = NoReply
          /\ UNCHANGED <<cast, file, worker, proposals, lost>>
      BY <2>1 DEF TaskRun
    <2>3. /\ proposals' = proposals /\ jobs[a].pc = "run"
          /\ effects' = IF ran /\ jobs[a].prop # NoDoc
                          THEN [effects EXCEPT ![jobs[a].prop] = @ + 1] ELSE effects
      BY <2>2
    <2>4. jobs[a].prop = NoDoc \/ ~Finished(jobs[a].prop)
      BY <2>3 DEF IInv, StoreInv, Jobs, JobIsProper, Actors, Finished, TerminalStatuses
    <2> QED
      BY <2>3, <2>4 DEF IInv, StoreInv, StoreTypes, FinishedStay
  <1>2. ASSUME jobs["telegram"].pc # "idle"
        PROVE  /\ jobs["telegram"].prop \in Proposals
               /\ ~Finished(jobs["telegram"].prop)
    BY <1>2 DEF IInv, StoreInv, Jobs, JobIsProper, Actors, Finished, TerminalStatuses
  <1>3. CASE CalendarRun
    <2>1. /\ proposals' = proposals /\ jobs["telegram"].pc # "idle"
          /\ \/ effects' = effects
             \/ effects' = [effects EXCEPT ![jobs["telegram"].prop] = @ + 1]
      BY <1>3 DEF CalendarRun
    <2> QED
      BY <1>2, <2>1 DEF IInv, StoreInv, StoreTypes, FinishedStay
  <1>4. CASE Record
    <2>1. /\ effects' = effects /\ jobs["telegram"].pc # "idle"
          /\ \/ proposals' = proposals
             \/ \E d : proposals' = [proposals EXCEPT ![jobs["telegram"].prop] = d]
      BY <1>4 DEF Record
    <2> QED
      BY <1>2, <2>1, WritesOneDocument, NothingWritten DEF IInv, StoreInv
  <1> QED
    BY <1>1, <1>3, <1>4

FinishedIsFinal == [][FinishedStay]_vars

(* A proposal that was rejected, cancelled or executed keeps its document  *)
(* as it is and has no further effect, whoever presses which button of the *)
(* old message, however often the worker is killed and restarted: every    *)
(* button is decided by the document on disk, and a job never outlives the *)
(* approval it was started for (channels/handlers.py).                     *)
THEOREM FinishedProposalsStay == Spec => FinishedIsFinal
  <1>1. ASSUME IInv, [Next]_vars PROVE FinishedStay
    <2>1. CASE UNCHANGED vars
      BY <2>1, NothingWritten DEF vars
    <2>2. ASSUME NEW id \in Identities, NEW r \in Requests, Receive(id, r)
          PROVE  FinishedStay
      BY <1>1, <2>2, ReceivingLeaves
    <2>3. CASE (\E a \in Actors : TaskRun(a)) \/ CalendarRun \/ Record
      BY <1>1, <2>3, JobsLeave
    <2>4. CASE Answered \/ (\E a \in Actors : ReadBack(a)) \/ CliAnswer \/ Stop
      BY <2>4, NothingWritten DEF Answered, stores, ReadBack, CliAnswer, Stop
    <2>5. CASE \/ \E kind \in TaskKinds, t \in Tasks \cup {NoTarget} : CliTask(kind, t)
               \/ \E t \in Tasks, status \in StoreStatuses : TaskwarriorEdit(t, status)
               \/ \E f \in Files : EditFile(f)
               \/ \E calendar \in BOOLEAN : Start(calendar)
      BY <2>5, NothingWritten DEF CliTask, TaskwarriorEdit, EditFile, Start
    <2> QED
      BY <1>1, <2>1, <2>2, <2>3, <2>4, <2>5 DEF Next
  <1> QED
    BY <1>1, Inductive, PTL DEF Spec, FinishedIsFinal
=============================================================================
