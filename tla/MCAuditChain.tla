---------------------------- MODULE MCAuditChain ----------------------------
(* Small instances of AuditChain for TLC. *)
EXTENDS AuditChain, TLC

CONSTANTS w1, w2, w3

Cast(writers, exclusive, plain, maxFaults, maxEdits) ==
  [writers |-> writers, exclusive |-> exclusive, plain |-> plain,
   faults |-> maxFaults, edits |-> maxEdits]

(* One writer at a time, beside the plain store and with edits by hand, or *)
(* left alone; three writers that race.                                    *)
MCCasts == {Cast({w1, w2}, TRUE, TRUE, 1, 2),
            Cast({w1, w2}, TRUE, FALSE, 2, 0),
            Cast({w1, w2, w3}, FALSE, FALSE, 2, 0)}

MCSymmetry == Permutations({w1, w2}) \cup Permutations(Events)
=============================================================================
