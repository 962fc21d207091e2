----------------------- MODULE MCTaskwarriorToolchain -----------------------
(* A small instance of TaskwarriorToolchain for TLC. *)
EXTENDS TaskwarriorToolchain

CONSTANTS v1, v2

Good(v) == [reports |-> v, works |-> TRUE]
Request(mode, version) ==
  [mode |-> mode, version |-> version, expected |-> Good(version)]

(* Every mode at one version, and two ways to another.                     *)
MCRequests == {Request(m, v1) : m \in Modes}
                \cup {Request(m, v2) : m \in {"source", "bundled"}}
=============================================================================
