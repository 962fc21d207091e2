------------------------------ MODULE AuditLog ------------------------------
(***************************************************************************)
(* What the audit log promises to those who write to it and read it: the   *)
(* events recorded are only ever added to, damage is never undone, and a   *)
(* reader is given all of them or an error.  Two kinds of damage are told  *)
(* apart: a forked log still reads back, a torn one takes no more events   *)
(* and gives none, not even those recorded before it was torn.             *)
(***************************************************************************)
EXTENDS Sequences

CONSTANT Entries  \* audit events

VARIABLES
  log,    \* events recorded in whole lines before any damage, in file order
  health, \* "sound", "forked" or "torn"
  answer  \* what reading the log gives: all its events, or an error

Returns(events) == [raised |-> FALSE, events |-> events]
Raises == [raised |-> TRUE, events |-> <<>>]

Init ==
  /\ log = <<>>
  /\ health = "sound"
  /\ answer = Returns(<<>>)

(* An envelope reaches the file; its link to the one before may be broken. *)
Extend(e) ==
  /\ health # "torn"
  /\ log' = Append(log, e)
  /\ health' \in {"forked"} \cup {health}
  /\ answer' = Returns(log')

(* A line reaches the file only in part. *)
Tear ==
  /\ health' = "torn"
  /\ log' = log
  /\ answer' = Raises

Next == (\E e \in Entries : Extend(e)) \/ Tear

Spec == Init /\ [][Next]_<<log, health, answer>>
=============================================================================
