----------------------- MODULE MCKnowledgeRepository -----------------------
(* Small instances of KnowledgeRepository for TLC. *)
EXTENDS KnowledgeRepository, TLC

CONSTANTS p1, p2, p3

(* Two names in the first type directory to be scanned, one in the second. *)
MCDirectory == (p1 :> 1) @@ (p2 :> 1) @@ (p3 :> 2)

Cast(creators, editors, exclusive, versions) ==
  [creators |-> creators, editors |-> editors, exclusive |-> exclusive,
   versions |-> versions]

(* Everybody does everything, taking turns and without; readers beside one *)
(* writer.                                                                 *)
MCInTurn == {Cast(Actors, Actors, TRUE, MaxVersion)}
MCCasts == MCInTurn
           \cup {Cast(Actors, Actors, FALSE, 2)}
           \cup {Cast({a}, {a}, FALSE, MaxVersion) : a \in Actors}

MCSymmetry == Permutations(Actors)
=============================================================================
