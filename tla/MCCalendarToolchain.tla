------------------------ MODULE MCCalendarToolchain ------------------------
(* A small instance of CalendarToolchain for TLC. *)
EXTENDS CalendarToolchain

CONSTANTS v1, v2, l1, l2, z1, z2

Request(install, approve, mode, version, lock, archive, zone) ==
  [install |-> install, approve |-> approve, mode |-> mode,
   version |-> version, lock |-> lock, archive |-> archive, zone |-> zone]

(* Each coordinator, an upgrade with and without approval, a repair with   *)
(* other evidence, for the time zone installed and for another, and        *)
(* unusable archives.                                                      *)
MCRequests ==
  {Request("fresh", FALSE, "verified", v1, l1, "flat", z1),
   Request("upgrade", TRUE, "verified", v2, l2, "flat", z1),
   Request("upgrade", FALSE, "verified", v2, l2, "flat", z2),
   Request("repair", TRUE, "verified", v1, l2, "flat", z1),
   Request("repair", TRUE, "verified", v1, l2, "flat", z2),
   Request("fresh", FALSE, "external", v1, l1, "flat", z1)}
  \cup {Request("fresh", FALSE, "bundled", v1, l1, a, z1) : a \in Archives}
=============================================================================
