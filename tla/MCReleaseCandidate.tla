------------------------ MODULE MCReleaseCandidate ------------------------
(* A small instance of ReleaseCandidate.                                   *)
EXTENDS ReleaseCandidate, TLC

CONSTANTS r1, r2, i1, i2

Request(mode, r, telegram, approved, answered, interactive) ==
  [mode |-> mode, release |-> r, telegram |-> telegram, calendar |-> FALSE,
   approved |-> approved, answered |-> answered, interactive |-> interactive]
WithCalendar(req) == [req EXCEPT !.calendar = TRUE]

(* Of the guided command: a first installation; an upgrade that also adds  *)
(* the calendar; a repair; a repair without Telegram.  Of other callers:   *)
(* repairs that are not approved, one with nobody to ask; an installation  *)
(* whose identity is still to be asked for.                                *)
MCRequests ==
  {Request("fresh", r1, TRUE, FALSE, TRUE, TRUE),
   WithCalendar(Request("upgrade", r2, TRUE, TRUE, TRUE, TRUE)),
   Request("repair", r1, TRUE, TRUE, TRUE, TRUE),
   Request("repair", r1, TRUE, FALSE, TRUE, TRUE),
   Request("repair", r2, FALSE, FALSE, TRUE, FALSE),
   Request("repair", r1, FALSE, TRUE, TRUE, FALSE),
   Request("fresh", r1, TRUE, FALSE, FALSE, TRUE)}

Symmetry == Permutations({i1, i2})
=============================================================================
