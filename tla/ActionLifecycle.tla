--------------------------- MODULE ActionLifecycle ---------------------------
(***************************************************************************)
(* The deterministic policy of an action proposal: its statuses, the       *)
(* permitted status changes, when a human has to confirm, and what a human *)
(* decision does.  Pure operators over src/src/lea/actions.                *)
(***************************************************************************)

Statuses == {"proposed", "validated", "awaiting_confirmation", "approved",
             "executing", "succeeded", "failed", "rejected", "cancelled"}

Risks     == {"low", "medium", "high", "critical"}
Policies  == {"never", "when_required", "always"}
Decisions == {"approved", "rejected", "cancelled"}

(* TRANSITION_TABLE as a relation. *)
Transitions ==
  {<<"proposed", "validated">>,              <<"proposed", "rejected">>,
   <<"validated", "awaiting_confirmation">>, <<"validated", "approved">>,
   <<"validated", "rejected">>,
   <<"awaiting_confirmation", "approved">>,
   <<"awaiting_confirmation", "rejected">>,
   <<"awaiting_confirmation", "cancelled">>,
   <<"approved", "executing">>,              <<"approved", "cancelled">>,
   <<"executing", "succeeded">>,             <<"executing", "failed">>}

TerminalStatuses == {"rejected", "succeeded", "failed", "cancelled"}

(* transition_proposal accepts a target: never the same status, never out  *)
(* of a terminal one, and only along the table.                            *)
CanTransition(from, to) ==
  /\ from # to
  /\ from \notin TerminalStatuses
  /\ <<from, to>> \in Transitions

(* Faulty variant: risk alone no longer forces a confirmation. *)
RequiredByPolicyOnly(risk, policy) ==
  \/ policy = "always"
  \/ risk # "low" /\ policy = "when_required"

(* CONFIRMATION_MATRIX: high and critical risk always need a human.        *)
Required(risk, policy) ==
  \/ risk \in {"high", "critical"}
  \/ policy = "always"
  \/ risk = "medium" /\ policy = "when_required"

(* apply_confirmation_policy on a validated proposal. *)
PolicyTarget(risk, policy) ==
  IF Required(risk, policy) THEN "awaiting_confirmation" ELSE "approved"

(* DECISION_TARGET_STATUSES: each decision leads to the status of its name.*)
DecisionTarget(decision) ==
  CASE decision = "approved"  -> "approved"
    [] decision = "rejected"  -> "rejected"
    [] decision = "cancelled" -> "cancelled"

(* record_confirmation's status condition followed by the transition that  *)
(* apply_confirmation_decision makes.                                      *)
DecisionPermitted(status, decision) ==
  /\ \/ status = "awaiting_confirmation"
     \/ decision = "cancelled" /\ status = "approved"
  /\ CanTransition(status, DecisionTarget(decision))

(* execute_action passes through "executing" in memory only; a document    *)
(* moves from "approved" to one of these in one step.                      *)
ExecutionTargets ==
  {to \in Statuses : CanTransition("approved", "executing")
                       /\ CanTransition("executing", to)}
==============================================================================
