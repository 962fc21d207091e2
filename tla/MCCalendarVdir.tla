--------------------------- MODULE MCCalendarVdir ---------------------------
(* A small instance of CalendarVdir for TLC. *)
EXTENDS CalendarVdir, TLC

CONSTANTS u1, u2, x

(* The file of foreign name is read between the other two. *)
MCPosition == (u1 :> 1) @@ (x :> 2) @@ (u2 :> 3)

Cast(users, sync, exclusive, most) ==
  [users |-> users, sync |-> sync, exclusive |-> exclusive, most |-> most]

(* Two processes taking turns with each other and vdirsyncer, two at once  *)
(* without it, and one beside it.                                          *)
MCCasts == {Cast(Processes, TRUE, TRUE, 2), Cast(Processes, FALSE, FALSE, 0)}
             \cup {Cast({p}, TRUE, FALSE, 3) : p \in Processes}

MCSymmetry == Permutations(Processes)
=============================================================================
