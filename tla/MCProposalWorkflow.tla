------------------------- MODULE MCProposalWorkflow -------------------------
(* Small instances of ProposalWorkflow for TLC. *)
EXTENDS ProposalWorkflow, TLC

(* One proposal approved by policy, one that needs a human. *)
MCTerms == {<<"low", "when_required">>, <<"high", "never">>}

MCSymmetry == Permutations(Actors)
=============================================================================
