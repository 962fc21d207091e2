---------------------- MODULE KnowledgeRepositoryProofs ----------------------
(***************************************************************************)
(* Three results, for any number of processes, names and versions and any  *)
(* interleaving, failure or crash.  A document on disk never vanishes: the *)
(* argument counts, linking the new file of a move adds one file and one   *)
(* unfinished move, finishing or giving up takes away at most one file and *)
(* exactly one unfinished move, so there is always a file more than there  *)
(* are unfinished moves (IInv).  A replacement that runs alone is all or   *)
(* nothing, and a read beside one writer is fresh: both follow from what a *)
(* process that nobody disturbs knows of the files (Coherent).             *)
(***************************************************************************)
EXTENDS KnowledgeRepository, TLAPS, FiniteSetTheorems

Between == {"unlink", "rollback"}

(* Only replacements move, and what is about to be stored is a document. *)
RequestOK(r) ==
  /\ r.pc \in Between => r.op = "replace"
  /\ r.pc = "publish" \/ (r.pc = "write" /\ r.op = "replace") =>
       r.doc \in Documents

(* A replacement that has read its document has something to replace. *)
BaseOK(r) ==
  r.op = "replace" /\ r.pc \in {"write", "publish"} \cup Between => Stored # {}

ActorsOK == \A a \in Actors : RequestOK(actor[a]) /\ BaseOK(actor[a])

IInv ==
  /\ TypeOK
  /\ ActorsOK
  /\ MovesKeepACopy

(* What a step does to the document as a whole. *)
Kept == Stored # {} => Stored' # {}

-----------------------------------------------------------------------------
(* Sizes of a finite set and of one that differs from it by an element. *)
LEMMA Added ==
  ASSUME NEW S, NEW T, NEW x, IsFiniteSet(S), T = S \cup {x}
  PROVE  /\ Cardinality(S) \in Nat /\ Cardinality(T) \in Nat
         /\ Cardinality(T) = IF x \in S THEN Cardinality(S) ELSE Cardinality(S) + 1
         /\ Cardinality(T) >= 1
  <1>1. /\ IsFiniteSet(T)
        /\ Cardinality(T) = IF x \in S THEN Cardinality(S) ELSE Cardinality(S) + 1
    BY FS_AddElement
  <1>2. Cardinality(S) \in Nat /\ Cardinality(T) \in Nat
    BY <1>1, FS_CardinalityType
  <1>3. Cardinality(T) # 0
    BY <1>1, FS_EmptySet
  <1> QED
    BY <1>1, <1>2, <1>3

LEMMA Removed ==
  ASSUME NEW S, NEW T, NEW x, IsFiniteSet(S), T = S \ {x}
  PROVE  /\ Cardinality(S) \in Nat /\ Cardinality(T) \in Nat
         /\ Cardinality(T) = IF x \in S THEN Cardinality(S) - 1 ELSE Cardinality(S)
         /\ Cardinality(T) = 0 => T = {}
  <1>1. /\ IsFiniteSet(T)
        /\ Cardinality(T) = IF x \in S THEN Cardinality(S) - 1 ELSE Cardinality(S)
    BY FS_RemoveElement
  <1>2. Cardinality(S) \in Nat /\ Cardinality(T) \in Nat
    BY <1>1, FS_CardinalityType
  <1>3. Cardinality(T) = 0 => T = {}
    BY <1>1, FS_EmptySet
  <1> QED
    BY <1>1, <1>2, <1>3

(* The files and the unfinished moves are finitely many. *)
LEMMA FiniteSets ==
  ASSUME TypeOK
  PROVE  /\ IsFiniteSet(Stored) /\ Cardinality(Stored) \in Nat
         /\ IsFiniteSet(Pending) /\ Cardinality(Pending) \in Nat
         /\ Cardinality(Stored) = 0 <=> Stored = {}
  <1>1. Stored \in SUBSET Places /\ Pending \in SUBSET Actors
    BY DEF TypeOK, Pending
  <1>2. IsFiniteSet(Stored) /\ IsFiniteSet(Pending)
    BY <1>1, ConstantsAssumption, FS_Subset
  <1> QED
    BY <1>2, FS_CardinalityType, FS_EmptySet

(* One actor changes. *)
LEMMA BecomeStep ==
  ASSUME TypeOK, NEW a \in Actors, NEW r \in ActorStates, Become(a, r)
  PROVE  /\ actor' \in [Actors -> ActorStates]
         /\ actor'[a] = r
         /\ \A b \in Actors : b # a => actor'[b] = actor[b]
         /\ r.pc \in Between => Pending' = Pending \cup {a}
         /\ r.pc \notin Between => Pending' = Pending \ {a}
  <1>1. /\ actor' \in [Actors -> ActorStates]
        /\ actor'[a] = r
        /\ \A b \in Actors : b # a => actor'[b] = actor[b]
    BY DEF TypeOK, Become
  <1>2. Pending' = {b \in Actors : actor'[b].pc \in Between}
    BY DEF Pending, Between
  <1>3. Pending = {b \in Actors : actor[b].pc \in Between}
    BY DEF Pending, Between
  <1> QED
    BY <1>1, <1>2, <1>3

(* The other actors stay as they are when something is still stored. *)
LEMMA OthersStay ==
  ASSUME IInv, NEW a \in Actors, NEW r \in ActorStates, Become(a, r), Kept,
         RequestOK(r), BaseOK(r)'
  PROVE  ActorsOK'
  <1>1. /\ actor'[a] = r
        /\ \A b \in Actors : b # a => actor'[b] = actor[b]
    BY BecomeStep DEF IInv
  <1>2. \A b \in Actors : b # a => RequestOK(actor[b]) /\ BaseOK(actor[b])'
    BY <1>1 DEF IInv, ActorsOK, BaseOK, Kept
  <1> QED
    BY <1>1, <1>2 DEF ActorsOK, RequestOK, BaseOK

(* Steps that leave the files alone and begin no move. *)
LEMMA SameFilesStep ==
  ASSUME IInv, TypeOK', NEW a \in Actors, NEW r \in ActorStates, Become(a, r),
         files' = files, RequestOK(r), BaseOK(r),
         r.pc \in Between => actor[a].pc \in Between
  PROVE  IInv' /\ Kept
  <1>1. Stored' = Stored /\ Kept
    BY DEF Stored, Kept
  <1>2. ActorsOK'
    BY <1>1, OthersStay DEF BaseOK
  <1>3. Pending' \in SUBSET Pending
    BY BecomeStep DEF IInv, Pending, Between
  <1>4. Cardinality(Pending') <= Cardinality(Pending)
    BY <1>3, FiniteSets, FS_Subset DEF IInv
  <1>5. Cardinality(Pending') \in Nat
    BY <1>3, FiniteSets, FS_Subset, FS_CardinalityType DEF IInv
  <1>6. MovesKeepACopy'
    BY <1>1, <1>4, <1>5, FiniteSets DEF IInv, MovesKeepACopy
  <1> QED
    BY <1>1, <1>2, <1>6 DEF IInv

(* Steps that store a document and are no move. *)
LEMMA StoreStep ==
  ASSUME IInv, TypeOK', NEW a \in Actors, NEW r \in ActorStates, Become(a, r),
         NEW p \in Places, Stored' = Stored \cup {p}, RequestOK(r),
         r.pc \notin Between
  PROVE  IInv' /\ Kept
  <1>1. Stored' # {} /\ Kept
    BY DEF Kept
  <1>2. ActorsOK'
    BY <1>1, OthersStay DEF BaseOK
  <1>3. Pending' = Pending \ {a}
    BY BecomeStep DEF IInv
  <1>4. /\ Cardinality(Pending') <= Cardinality(Pending)
        /\ Cardinality(Pending) \in Nat /\ Cardinality(Pending') \in Nat
    <2>1. IsFiniteSet(Pending)
      BY FiniteSets DEF IInv
    <2> QED
      BY <1>3, <2>1, Removed
  <1>5. /\ Cardinality(Stored') >= Cardinality(Stored)
        /\ Cardinality(Stored') >= 1
        /\ Cardinality(Stored) \in Nat /\ Cardinality(Stored') \in Nat
    <2>1. IsFiniteSet(Stored)
      BY FiniteSets DEF IInv
    <2> QED
      BY <2>1, Added
  <1>6. Cardinality(Stored') >= Cardinality(Pending') + 1
    <2>1. CASE Stored = {}
      <3>1. Pending = {}
        BY <2>1 DEF IInv, ActorsOK, RequestOK, BaseOK, Pending, Between
      <3>2. Cardinality(Pending) = 0
        BY <3>1, FS_EmptySet
      <3> QED
        BY <1>4, <1>5, <3>2
    <2>2. CASE Stored # {}
      BY <1>4, <1>5, <2>2 DEF IInv, MovesKeepACopy
    <2> QED
      BY <2>1, <2>2
  <1> QED
    BY <1>1, <1>2, <1>6 DEF IInv, MovesKeepACopy

(* A move links its new file. *)
LEMMA LinkStep ==
  ASSUME IInv, TypeOK', NEW a \in Actors, NEW r \in ActorStates, Become(a, r),
         NEW p \in Places, p \notin Stored, Stored' = Stored \cup {p},
         Stored # {}, RequestOK(r), r.pc \in Between
  PROVE  IInv' /\ Kept
  <1>1. Stored' # {} /\ Kept
    BY DEF Kept
  <1>2. ActorsOK'
    BY <1>1, OthersStay DEF BaseOK
  <1>3. Pending' = Pending \cup {a}
    BY BecomeStep DEF IInv
  <1>4. IsFiniteSet(Pending) /\ IsFiniteSet(Stored)
    BY FiniteSets DEF IInv
  <1>5. /\ Cardinality(Pending') <= Cardinality(Pending) + 1
        /\ Cardinality(Pending) \in Nat /\ Cardinality(Pending') \in Nat
    BY <1>3, <1>4, Added
  <1>6. /\ Cardinality(Stored') = Cardinality(Stored) + 1
        /\ Cardinality(Stored) \in Nat
    BY <1>4, Added
  <1>7. MovesKeepACopy'
    BY <1>5, <1>6 DEF IInv, MovesKeepACopy
  <1> QED
    BY <1>1, <1>2, <1>7 DEF IInv

(* A move takes away one of its two files. *)
LEMMA DropStep ==
  ASSUME IInv, TypeOK', NEW a \in Actors, actor[a].pc \in Between,
         NEW r \in ActorStates, Become(a, r),
         NEW p, Stored' = Stored \ {p}, RequestOK(r), r.pc = "clean"
  PROVE  IInv' /\ Kept
  <1>1. a \in Pending /\ Stored # {}
    BY DEF Pending, IInv, ActorsOK, RequestOK, BaseOK, Between
  <1>2. Pending' = Pending \ {a}
    BY BecomeStep DEF IInv, Between
  <1>3. IsFiniteSet(Pending) /\ IsFiniteSet(Stored)
    BY FiniteSets DEF IInv
  <1>4. /\ Cardinality(Pending') = Cardinality(Pending) - 1
        /\ Cardinality(Pending) \in Nat /\ Cardinality(Pending') \in Nat
    BY <1>1, <1>2, <1>3, Removed
  <1>5. /\ Cardinality(Stored') >= Cardinality(Stored) - 1
        /\ Cardinality(Stored) \in Nat /\ Cardinality(Stored') \in Nat
    <2>1. /\ Cardinality(Stored) \in Nat /\ Cardinality(Stored') \in Nat
          /\ Cardinality(Stored') = IF p \in Stored THEN Cardinality(Stored) - 1
                                    ELSE Cardinality(Stored)
      BY <1>3, Removed
    <2> QED
      BY <2>1
  <1>6. Cardinality(Stored') >= Cardinality(Pending') + 1
    BY <1>1, <1>4, <1>5 DEF IInv, MovesKeepACopy
  <1>7. Stored' # {} /\ Kept
    <2>1. Cardinality(Stored') # 0
      BY <1>4, <1>5, <1>6
    <2> QED
      BY <2>1, FS_EmptySet DEF Kept
  <1>8. ActorsOK'
    BY <1>7, OthersStay DEF BaseOK, Between
  <1> QED
    BY <1>6, <1>7, <1>8 DEF IInv, MovesKeepACopy

-----------------------------------------------------------------------------
(* The initial state, and the steps of one operation in their order. *)
LEMMA InitIInv == Init => IInv
  <1>1. SUFFICES ASSUME Init PROVE IInv
    OBVIOUS
  <1>2. Stored = {}
    BY <1>1 DEF Init, Stored
  <1>3. \A a \in Actors : actor[a] = Idle
    BY <1>1 DEF Init
  <1>4. Idle \in ActorStates
    BY ConstantsAssumption DEF Idle, ActorStates, Outcomes
  <1>5. TypeOK
    <2>1. actor \in [Actors -> ActorStates]
      BY <1>1, <1>4 DEF Init
    <2>2. /\ Stored \subseteq Places
          /\ \A p \in Stored : files[p] \in Documents /\ files[p].place = p
      BY <1>2
    <2>3. acked \in 0..MaxVersion /\ faults \in 0..MaxFaults
      BY <1>1, ConstantsAssumption DEF Init
    <2> QED
      BY <1>1, <2>1, <2>2, <2>3 DEF Init, TypeOK
  <1>6. ActorsOK
    BY <1>3 DEF ActorsOK, RequestOK, BaseOK, Idle, Between
  <1> QED
    BY <1>2, <1>5, <1>6 DEF IInv, MovesKeepACopy

(* What a step changes besides the files and the actor. *)
CountersOK ==
  /\ cast' = cast
  /\ litter' \in Nat
  /\ acked' \in 0..MaxVersion
  /\ broken' \in BOOLEAN
  /\ faults' = faults \/ Fault

LEMMA CountersTypes ==
  ASSUME TypeOK, CountersOK, NEW a \in Actors, NEW r \in ActorStates, Become(a, r),
         Stored' \subseteq Places,
         \A p \in Stored' : files'[p] \in Documents /\ files'[p].place = p
  PROVE  TypeOK'
  <1>1. faults' \in 0..MaxFaults
    BY ConstantsAssumption DEF TypeOK, CountersOK, Fault
  <1>2. actor' \in [Actors -> ActorStates]
    BY BecomeStep
  <1> QED
    BY <1>1, <1>2 DEF TypeOK, CountersOK, Documents

(* The files stay. *)
LEMMA StayStep ==
  ASSUME IInv, CountersOK, NEW a \in Actors, NEW r \in ActorStates, Become(a, r),
         files' = files, RequestOK(r), BaseOK(r),
         r.pc \in Between => actor[a].pc \in Between
  PROVE  IInv' /\ Kept
  <1>1. TypeOK'
    BY CountersTypes DEF IInv, TypeOK, Stored
  <1> QED
    BY <1>1, SameFilesStep

(* ... and the operation is not about to change them. *)
LEMMA HarmlessStep ==
  ASSUME IInv, CountersOK, NEW a \in Actors, NEW r \in ActorStates, Become(a, r),
         files' = files, r.pc \in {"idle", "scan", "open", "clean", "report"}
  PROVE  IInv' /\ Kept
  BY StayStep DEF RequestOK, BaseOK, Between

(* The same for a step that sets an outcome. *)
LEMMA EndStep ==
  ASSUME IInv, CountersOK, NEW a \in Actors, NEW res \in Outcomes,
         NEW pc \in {"clean", "report"}, End(a, pc, res), files' = files
  PROVE  IInv' /\ Kept
  <1>1. actor[a] \in ActorStates
    BY DEF IInv, TypeOK
  <1>2. PICK r : r = [actor[a] EXCEPT !.pc = pc, !.res = res]
    OBVIOUS
  <1>3. r \in ActorStates /\ r.pc = pc
    BY <1>1, <1>2 DEF ActorStates
  <1>4. Become(a, r)
    BY <1>2 DEF End
  <1> QED
    BY <1>3, <1>4, HarmlessStep

LEMMA BeginStep ==
  ASSUME IInv, NEW a \in Actors, NEW op \in {"create", "read", "replace"},
         Begin(a, op)
  PROVE  IInv' /\ Kept
  <1>1. PICK r : r = [Idle EXCEPT !.pc = "scan", !.op = op, !.floor = acked]
    OBVIOUS
  <1>2. r \in ActorStates /\ r.pc = "scan"
    BY <1>1, ConstantsAssumption DEF IInv, TypeOK, Idle, ActorStates, Outcomes
  <1>3. Become(a, r) /\ files' = files /\ CountersOK
    BY <1>1 DEF Begin, CountersOK, IInv, TypeOK
  <1> QED
    BY <1>2, <1>3, HarmlessStep

LEMMA ScanStep ==
  ASSUME IInv, NEW a \in Actors, Scan(a)
  PROVE  IInv' /\ Kept
  <1>1. actor[a] \in ActorStates /\ Stored \subseteq Places
    BY DEF IInv, TypeOK
  <1>2. PICK found \in SUBSET Places, dir \in Nat,
             pc \in {"scan", "write", "open"} :
          /\ Become(a, [actor[a] EXCEPT !.found = found, !.dir = dir, !.pc = pc])
          /\ pc = "write" => actor[a].op = "create"
    <2>1. PICK found : found = actor[a].found \cup
                                 {p \in Stored : Directory[p] = actor[a].dir}
      OBVIOUS
    <2>2. PICK dir : dir = actor[a].dir + 1
      OBVIOUS
    <2>3. PICK pc : pc = IF ~LastDirectory(actor[a].dir) THEN "scan"
                         ELSE IF actor[a].op = "create" /\ ~actor[a].again
                           THEN "write" ELSE "open"
      OBVIOUS
    <2>4. found \in SUBSET Places /\ dir \in Nat
      BY <1>1, <2>1, <2>2 DEF ActorStates
    <2>5. Become(a, [actor[a] EXCEPT !.found = found, !.dir = dir, !.pc = pc])
      BY <2>1, <2>2, <2>3 DEF Scan
    <2> QED
      BY <2>3, <2>4, <2>5
  <1>3. PICK r : r = [actor[a] EXCEPT !.found = found, !.dir = dir, !.pc = pc]
    OBVIOUS
  <1>4. r \in ActorStates /\ r.pc = pc /\ r.op = actor[a].op
    BY <1>1, <1>3 DEF ActorStates
  <1>5. RequestOK(r) /\ BaseOK(r) /\ r.pc \notin Between
    BY <1>2, <1>4 DEF RequestOK, BaseOK, Between
  <1>6. files' = files /\ CountersOK
    BY DEF Scan, CountersOK, IInv, TypeOK
  <1> QED
    BY <1>2, <1>3, <1>4, <1>5, <1>6, StayStep

(* Steps that only end an operation, or give it up. *)
LEMMA OutcomeStep ==
  ASSUME IInv, NEW a \in Actors,
         \/ ReadRefused(a) \/ ReadFails(a) \/ ReadBack(a) \/ WriteRefused(a)
         \/ PublishRefused(a) \/ PublishFails(a)
  PROVE  IInv' /\ Kept
  <1>1. files' = files /\ CountersOK
    BY DEF ReadRefused, ReadFails, ReadBack, WriteRefused, PublishRefused,
       PublishFails, CountersOK, IInv, TypeOK
  <1>2. \E pc \in {"clean", "report"}, res \in Outcomes : End(a, pc, res)
    BY DEF ReadRefused, ReadFails, ReadBack, WriteRefused, PublishRefused,
       PublishFails, FailureOf, Outcomes
  <1> QED
    BY <1>1, <1>2, EndStep

LEMMA ReadStep ==
  ASSUME IInv, NEW a \in Actors, Read(a)
  PROVE  IInv' /\ Kept
  <1>1. PICK p \in Stored :
          Become(a, [actor[a] EXCEPT !.pc = "report", !.res = "ok", !.old = files[p]])
    BY DEF Read
  <1>2. actor[a] \in ActorStates /\ files[p] \in Documents
    BY DEF IInv, TypeOK
  <1>3. PICK r : r = [actor[a] EXCEPT !.pc = "report", !.res = "ok",
                                      !.old = files[p]]
    OBVIOUS
  <1>4. r \in ActorStates /\ r.pc = "report"
    BY <1>2, <1>3 DEF ActorStates, Outcomes
  <1>5. files' = files /\ CountersOK
    BY DEF Read, CountersOK, IInv, TypeOK
  <1> QED
    BY <1>1, <1>3, <1>4, <1>5, HarmlessStep

LEMMA ReplaceRefusedStep ==
  ASSUME IInv, NEW a \in Actors, ReplaceRefused(a)
  PROVE  IInv' /\ Kept
  <1>1. PICK p \in Stored, res \in Outcomes :
          Become(a, [actor[a] EXCEPT !.pc = "report", !.old = files[p], !.res = res])
    BY DEF ReplaceRefused, Refusal, Outcomes
  <1>2. actor[a] \in ActorStates /\ files[p] \in Documents
    BY DEF IInv, TypeOK
  <1>3. PICK r : r = [actor[a] EXCEPT !.pc = "report", !.old = files[p], !.res = res]
    OBVIOUS
  <1>4. r \in ActorStates /\ r.pc = "report"
    BY <1>2, <1>3 DEF ActorStates
  <1>5. files' = files /\ CountersOK
    BY DEF ReplaceRefused, CountersOK, IInv, TypeOK
  <1> QED
    BY <1>1, <1>3, <1>4, <1>5, HarmlessStep

LEMMA ReplaceAcceptedStep ==
  ASSUME IInv, NEW a \in Actors, ReplaceAccepted(a)
  PROVE  IInv' /\ Kept
  <1>1. PICK p \in Stored, d \in Documents :
          Become(a, [actor[a] EXCEPT !.pc = "write", !.old = files[p], !.doc = d])
    BY DEF ReplaceAccepted
  <1>2. actor[a] \in ActorStates /\ files[p] \in Documents
    BY DEF IInv, TypeOK
  <1>3. PICK r : r = [actor[a] EXCEPT !.pc = "write", !.old = files[p], !.doc = d]
    OBVIOUS
  <1>4. r \in ActorStates /\ r.pc = "write" /\ r.doc = d
    BY <1>2, <1>3 DEF ActorStates
  <1>5. RequestOK(r) /\ BaseOK(r) /\ r.pc \notin Between
    BY <1>4 DEF RequestOK, BaseOK, Between
  <1>6. files' = files /\ CountersOK
    BY DEF ReplaceAccepted, CountersOK, IInv, TypeOK
  <1> QED
    BY <1>1, <1>3, <1>4, <1>5, <1>6, StayStep

LEMMA WriteTemporaryStep ==
  ASSUME IInv, NEW a \in Actors, WriteTemporary(a)
  PROVE  IInv' /\ Kept
  <1>1. actor[a] \in ActorStates /\ RequestOK(actor[a]) /\ BaseOK(actor[a])
    BY DEF IInv, TypeOK, ActorsOK
  <1>2. actor[a].pc = "write"
    BY DEF WriteTemporary
  <1>3. Destination(a) \subseteq Documents
    BY <1>1, <1>2 DEF Destination, RequestOK
  <1>4. PICK d \in Documents :
          Become(a, [actor[a] EXCEPT !.pc = "publish", !.doc = d, !.temp = TRUE])
    BY <1>3 DEF WriteTemporary
  <1>5. PICK r : r = [actor[a] EXCEPT !.pc = "publish", !.doc = d, !.temp = TRUE]
    OBVIOUS
  <1>6. /\ r \in ActorStates
        /\ r.pc = "publish" /\ r.doc = d /\ r.op = actor[a].op
    BY <1>1, <1>5 DEF ActorStates
  <1>7. RequestOK(r) /\ BaseOK(r) /\ r.pc \notin Between
    BY <1>1, <1>2, <1>6 DEF RequestOK, BaseOK, Between
  <1>8. files' = files /\ CountersOK
    BY DEF WriteTemporary, CountersOK, IInv, TypeOK
  <1> QED
    BY <1>4, <1>5, <1>6, <1>7, <1>8, StayStep

LEMMA WriteFailsStep ==
  ASSUME IInv, NEW a \in Actors, WriteFails(a)
  PROVE  IInv' /\ Kept
  <1>1. PICK res \in Outcomes, temp \in BOOLEAN :
          Become(a, [actor[a] EXCEPT !.pc = "report", !.res = res, !.temp = temp])
    BY DEF WriteFails, FailureOf, Outcomes
  <1>2. actor[a] \in ActorStates
    BY DEF IInv, TypeOK
  <1>3. PICK r : r = [actor[a] EXCEPT !.pc = "report", !.res = res, !.temp = temp]
    OBVIOUS
  <1>4. r \in ActorStates /\ r.pc = "report"
    BY <1>2, <1>3 DEF ActorStates
  <1>5. files' = files /\ CountersOK
    BY DEF WriteFails, CountersOK, IInv, TypeOK
  <1> QED
    BY <1>1, <1>3, <1>4, <1>5, HarmlessStep

-----------------------------------------------------------------------------
(* Steps that change the files. *)
LEMMA PutTypes ==
  ASSUME IInv, CountersOK, NEW a \in Actors, NEW r \in ActorStates, Become(a, r),
         NEW d \in Documents, files' = Put(d)
  PROVE  /\ TypeOK'
         /\ d.place \in Places /\ Stored' = Stored \cup {d.place}
  <1>1. d.place \in Places /\ Stored' = Stored \cup {d.place}
    BY DEF Put, Stored, Documents
  <1>2. \A p \in Stored' : files'[p] \in Documents /\ files'[p].place = p
    BY <1>1 DEF Put, IInv, TypeOK
  <1>3. Stored' \subseteq Places
    BY <1>1 DEF IInv, TypeOK
  <1> QED
    BY <1>1, <1>2, <1>3, CountersTypes DEF IInv

LEMMA DropTypes ==
  ASSUME IInv, CountersOK, NEW a \in Actors, NEW r \in ActorStates, Become(a, r),
         NEW p, files' = Drop(p)
  PROVE  TypeOK' /\ Stored' = Stored \ {p}
  <1>1. Stored' = Stored \ {p}
    BY DEF Drop, Stored
  <1>2. \A q \in Stored' : files'[q] \in Documents /\ files'[q].place = q
    BY <1>1 DEF Drop, IInv, TypeOK
  <1>3. Stored' \subseteq Places
    BY <1>1 DEF IInv, TypeOK
  <1> QED
    BY <1>1, <1>2, <1>3, CountersTypes DEF IInv

(* What publishing starts from. *)
LEMMA PublishingFacts ==
  ASSUME IInv, NEW a \in Actors, Published(a), faults' = faults \/ Fault
  PROVE  /\ actor[a] \in ActorStates
         /\ actor[a].doc \in Documents
         /\ actor[a].op = "replace" => Stored # {}
         /\ files' = Put(actor[a].doc)
         /\ CountersOK
  <1>1. /\ actor[a].pc = "publish" /\ files' = Put(actor[a].doc)
        /\ UNCHANGED <<cast, litter, acked, broken>>
    BY DEF Published
  <1> QED
    BY <1>1 DEF IInv, TypeOK, ActorsOK, RequestOK, BaseOK, CountersOK

LEMMA PublishCreateStep ==
  ASSUME IInv, NEW a \in Actors, PublishCreate(a)
  PROVE  IInv' /\ Kept
  <1>1. PICK res \in Outcomes :
          /\ Become(a, [actor[a] EXCEPT !.pc = "clean", !.res = res])
          /\ faults' = faults \/ Fault
    <2>1. CASE Synced /\ Goto(a, "clean")
      <3>1. actor[a] \in ActorStates
        BY DEF IInv, TypeOK
      <3>2. actor[a].res \in Outcomes
        BY <3>1 DEF ActorStates
      <3>3. [actor[a] EXCEPT !.pc = "clean"]
              = [actor[a] EXCEPT !.pc = "clean", !.res = actor[a].res]
        BY <3>1 DEF ActorStates
      <3> QED
        BY <2>1, <3>2, <3>3 DEF Goto, Synced
    <2>2. CASE NotSynced /\ End(a, "clean", "write_failed")
      BY <2>2 DEF End, NotSynced, Outcomes
    <2> QED
      BY <2>1, <2>2 DEF PublishCreate
  <1>2. PICK r : r = [actor[a] EXCEPT !.pc = "clean", !.res = res]
    OBVIOUS
  <1>3. /\ actor[a] \in ActorStates /\ actor[a].doc \in Documents
        /\ files' = Put(actor[a].doc) /\ CountersOK
    BY <1>1, PublishingFacts DEF PublishCreate
  <1>4. r \in ActorStates /\ r.pc = "clean"
    BY <1>2, <1>3 DEF ActorStates
  <1>5. RequestOK(r) /\ r.pc \notin Between
    BY <1>4 DEF RequestOK, Between
  <1>6. /\ TypeOK' /\ actor[a].doc.place \in Places
        /\ Stored' = Stored \cup {actor[a].doc.place}
    BY <1>1, <1>2, <1>3, <1>4, PutTypes
  <1> QED
    BY <1>1, <1>2, <1>4, <1>5, <1>6, StoreStep

LEMMA PublishInPlaceStep ==
  ASSUME IInv, NEW a \in Actors, PublishInPlace(a)
  PROVE  IInv' /\ Kept
  <1>1. PICK res \in Outcomes :
          /\ Become(a, [actor[a] EXCEPT !.pc = "clean", !.temp = FALSE, !.res = res])
          /\ faults' = faults \/ Fault
    <2>1. CASE /\ Synced
               /\ Become(a, [actor[a] EXCEPT !.pc = "clean", !.temp = FALSE])
      <3>1. actor[a] \in ActorStates
        BY DEF IInv, TypeOK
      <3>2. actor[a].res \in Outcomes
        BY <3>1 DEF ActorStates
      <3>3. [actor[a] EXCEPT !.pc = "clean", !.temp = FALSE]
              = [actor[a] EXCEPT !.pc = "clean", !.temp = FALSE,
                                 !.res = actor[a].res]
        BY <3>1 DEF ActorStates
      <3> QED
        BY <2>1, <3>2, <3>3 DEF Synced
    <2>2. CASE /\ NotSynced
               /\ Become(a, [actor[a] EXCEPT !.pc = "clean", !.temp = FALSE,
                                             !.res = "durability_failed"])
      BY <2>2 DEF NotSynced, Outcomes
    <2> QED
      BY <2>1, <2>2 DEF PublishInPlace
  <1>2. PICK r : r = [actor[a] EXCEPT !.pc = "clean", !.temp = FALSE, !.res = res]
    OBVIOUS
  <1>3. /\ actor[a] \in ActorStates /\ actor[a].doc \in Documents
        /\ files' = Put(actor[a].doc) /\ CountersOK
    BY <1>1, PublishingFacts DEF PublishInPlace
  <1>4. r \in ActorStates /\ r.pc = "clean"
    BY <1>2, <1>3 DEF ActorStates
  <1>5. RequestOK(r) /\ r.pc \notin Between
    BY <1>4 DEF RequestOK, Between
  <1>6. /\ TypeOK' /\ actor[a].doc.place \in Places
        /\ Stored' = Stored \cup {actor[a].doc.place}
    BY <1>1, <1>2, <1>3, <1>4, PutTypes
  <1> QED
    BY <1>1, <1>2, <1>4, <1>5, <1>6, StoreStep

LEMMA PublishMoveStep ==
  ASSUME IInv, NEW a \in Actors, PublishMove(a)
  PROVE  IInv' /\ Kept
  <1>1. PICK pc \in Between, res \in Outcomes :
          /\ Become(a, [actor[a] EXCEPT !.pc = pc, !.res = res])
          /\ faults' = faults \/ Fault
    <2>1. CASE Synced /\ Goto(a, "unlink")
      <3>1. actor[a] \in ActorStates
        BY DEF IInv, TypeOK
      <3>2. actor[a].res \in Outcomes
        BY <3>1 DEF ActorStates
      <3>3. [actor[a] EXCEPT !.pc = "unlink"]
              = [actor[a] EXCEPT !.pc = "unlink", !.res = actor[a].res]
        BY <3>1 DEF ActorStates
      <3> QED
        BY <2>1, <3>2, <3>3 DEF Goto, Synced, Between
    <2>2. CASE NotSynced /\ End(a, "rollback", "move_failed")
      BY <2>2 DEF End, NotSynced, Outcomes, Between
    <2> QED
      BY <2>1, <2>2 DEF PublishMove
  <1>2. PICK r : r = [actor[a] EXCEPT !.pc = pc, !.res = res]
    OBVIOUS
  <1>3. /\ actor[a] \in ActorStates /\ actor[a].doc \in Documents
        /\ actor[a].op = "replace" => Stored # {}
        /\ files' = Put(actor[a].doc) /\ CountersOK
    BY <1>1, PublishingFacts DEF PublishMove
  <1>4. r \in ActorStates /\ r.pc = pc /\ r.op = actor[a].op
    BY <1>2, <1>3 DEF ActorStates, Between
  <1>5. actor[a].op = "replace" /\ actor[a].doc.place \notin Stored
    BY DEF PublishMove, Moves
  <1>6. RequestOK(r) /\ r.pc \in Between
    BY <1>4, <1>5 DEF RequestOK, Between
  <1>7. /\ TypeOK' /\ actor[a].doc.place \in Places
        /\ Stored' = Stored \cup {actor[a].doc.place}
    BY <1>1, <1>2, <1>3, <1>4, PutTypes
  <1> QED
    BY <1>1, <1>2, <1>3, <1>4, <1>5, <1>6, <1>7, LinkStep

LEMMA UnlinkStep ==
  ASSUME IInv, NEW a \in Actors, Unlink(a)
  PROVE  IInv' /\ Kept
  <1>1. actor[a] \in ActorStates /\ actor[a].pc \in Between
    BY DEF IInv, TypeOK, Unlink, Between
  <1>2. PICK res \in Outcomes :
          /\ Become(a, [actor[a] EXCEPT !.pc = "clean", !.res = res])
          /\ faults' = faults \/ Fault
    <2>1. CASE Synced /\ Goto(a, "clean")
      <3>1. actor[a].res \in Outcomes
        BY <1>1 DEF ActorStates
      <3>2. [actor[a] EXCEPT !.pc = "clean"]
              = [actor[a] EXCEPT !.pc = "clean", !.res = actor[a].res]
        BY <1>1 DEF ActorStates
      <3> QED
        BY <2>1, <3>1, <3>2 DEF Goto, Synced
    <2>2. CASE NotSynced /\ End(a, "clean", "durability_failed")
      BY <2>2 DEF End, NotSynced, Outcomes
    <2> QED
      BY <2>1, <2>2 DEF Unlink
  <1>3. PICK r : r = [actor[a] EXCEPT !.pc = "clean", !.res = res]
    OBVIOUS
  <1>4. r \in ActorStates /\ r.pc = "clean"
    BY <1>1, <1>3 DEF ActorStates
  <1>5. RequestOK(r)
    BY <1>4 DEF RequestOK, Between
  <1>6. files' = Drop(actor[a].old.place) /\ CountersOK
    BY <1>2 DEF Unlink, CountersOK, IInv, TypeOK
  <1>7. TypeOK' /\ Stored' = Stored \ {actor[a].old.place}
    BY <1>2, <1>3, <1>4, <1>6, DropTypes
  <1> QED
    BY <1>1, <1>2, <1>3, <1>4, <1>5, <1>7, DropStep

LEMMA RollbackStep ==
  ASSUME IInv, NEW a \in Actors, Rollback(a)
  PROVE  IInv' /\ Kept
  <1>1. actor[a] \in ActorStates /\ actor[a].pc \in Between
    BY DEF IInv, TypeOK, Rollback, Between
  <1>2. PICK r : r = [actor[a] EXCEPT !.pc = "clean"]
    OBVIOUS
  <1>3. r \in ActorStates /\ r.pc = "clean" /\ RequestOK(r)
    BY <1>1, <1>2 DEF ActorStates, RequestOK, Between
  <1>4. Become(a, r) /\ files' = Drop(actor[a].doc.place) /\ CountersOK
    BY <1>2 DEF Rollback, Goto, CountersOK, IInv, TypeOK
  <1>5. TypeOK' /\ Stored' = Stored \ {actor[a].doc.place}
    BY <1>3, <1>4, DropTypes
  <1> QED
    BY <1>1, <1>3, <1>4, <1>5, DropStep

LEMMA UnlinkFailsStep ==
  ASSUME IInv, NEW a \in Actors, UnlinkFails(a)
  PROVE  IInv' /\ Kept
  <1>1. /\ actor[a] \in ActorStates /\ actor[a].pc \in Between
        /\ actor[a].op = "replace" /\ Stored # {}
    BY DEF IInv, TypeOK, ActorsOK, RequestOK, BaseOK, UnlinkFails, Between
  <1>2. PICK r : r = [actor[a] EXCEPT !.pc = "rollback", !.res = "move_failed"]
    OBVIOUS
  <1>3. r \in ActorStates /\ r.pc = "rollback" /\ r.op = "replace"
    BY <1>1, <1>2 DEF ActorStates, Outcomes
  <1>4. RequestOK(r) /\ BaseOK(r)
    BY <1>1, <1>3 DEF RequestOK, BaseOK, Between
  <1>5. Become(a, r) /\ files' = files /\ CountersOK
    BY <1>2 DEF UnlinkFails, End, CountersOK, IInv, TypeOK
  <1> QED
    BY <1>1, <1>3, <1>4, <1>5, StayStep

LEMMA RollbackFailsStep ==
  ASSUME IInv, NEW a \in Actors, RollbackFails(a)
  PROVE  IInv' /\ Kept
  <1>1. actor[a] \in ActorStates
    BY DEF IInv, TypeOK
  <1>2. PICK r : r = [actor[a] EXCEPT !.pc = "clean"]
    OBVIOUS
  <1>3. r \in ActorStates /\ r.pc = "clean"
    BY <1>1, <1>2 DEF ActorStates
  <1>4. Become(a, r) /\ files' = files /\ CountersOK
    BY <1>2 DEF RollbackFails, Goto, CountersOK, IInv, TypeOK
  <1> QED
    BY <1>3, <1>4, HarmlessStep

-----------------------------------------------------------------------------
(* The end of an operation. *)
LEMMA CleanStep ==
  ASSUME IInv, NEW a \in Actors, Clean(a) \/ CleanFails(a)
  PROVE  IInv' /\ Kept
  <1>1. actor[a] \in ActorStates
    BY DEF IInv, TypeOK
  <1>2. PICK temp \in BOOLEAN : Become(a, AfterClean(a, temp))
    BY DEF Clean, CleanFails
  <1>3. PICK r : r = AfterClean(a, temp)
    OBVIOUS
  <1>4. r \in ActorStates /\ r.pc \in {"scan", "report"}
    BY <1>1, <1>3 DEF AfterClean, ActorStates
  <1>5. Become(a, r) /\ files' = files /\ CountersOK
    BY <1>2, <1>3 DEF Clean, CleanFails, CountersOK, IInv, TypeOK
  <1> QED
    BY <1>4, <1>5, HarmlessStep

LEMMA ReportStep ==
  ASSUME IInv, NEW a \in Actors, Report(a) \/ Crash(a)
  PROVE  IInv' /\ Kept
  <1>1. Idle \in ActorStates /\ Idle.pc = "idle"
    BY ConstantsAssumption DEF Idle, ActorStates, Outcomes
  <1>2. actor[a] \in ActorStates
    BY DEF IInv, TypeOK
  <1>3. Become(a, Idle) /\ files' = files
    BY DEF Report, Crash
  <1>4. litter' \in Nat
    BY DEF Report, Crash, Leave, IInv, TypeOK
  <1>5. acked' \in 0..MaxVersion
    <2>1. CASE acked' = acked
      BY <2>1 DEF IInv, TypeOK
    <2>2. CASE acked' # acked
      <3>1. acked' = actor[a].doc.version /\ actor[a].doc.version > acked
        BY <2>2 DEF Report, Crash
      <3>2. actor[a].doc \in Documents \cup {NoDocument}
        BY <1>2 DEF ActorStates
      <3> QED
        BY <3>1, <3>2, ConstantsAssumption DEF Documents, NoDocument, Versions
    <2> QED
      BY <2>1, <2>2
  <1>6. faults' = faults \/ Fault
    BY DEF Report, Crash, IInv, TypeOK
  <1>7. broken' \in BOOLEAN
    BY Zenon DEF Report, Crash, IInv, TypeOK
  <1>8. cast' = cast
    BY DEF Report, Crash
  <1>9. CountersOK
    BY <1>4, <1>5, <1>6, <1>7, <1>8 DEF CountersOK
  <1> QED
    BY <1>1, <1>3, <1>9, HarmlessStep

-----------------------------------------------------------------------------
LEMMA NextIInv ==
  ASSUME IInv, [Next]_vars
  PROVE  IInv' /\ Kept
  <1>1. CASE UNCHANGED vars
    <2>1. Stored' = Stored /\ Pending' = Pending
      BY <1>1 DEF vars, Stored, Pending
    <2> QED
      BY <1>1, <2>1 DEF vars, IInv, TypeOK, ActorsOK, BaseOK, MovesKeepACopy,
         Kept
  <1>2. CASE Next
    <2>1. PICK a \in Actors :
            \/ \E op \in {"create", "read", "replace"} : Begin(a, op)
            \/ Reading(a) \/ Preparing(a) \/ Publishing(a) \/ Removing(a)
            \/ Ending(a)
      BY <1>2 DEF Next
    <2>2. CASE \E op \in {"create", "read", "replace"} : Begin(a, op)
      BY <2>2, BeginStep
    <2>3. CASE Reading(a)
      BY <2>3, ScanStep, OutcomeStep, ReadStep DEF Reading
    <2>4. CASE Preparing(a)
      BY <2>4, ReplaceRefusedStep, ReplaceAcceptedStep, OutcomeStep,
         WriteTemporaryStep, WriteFailsStep DEF Preparing
    <2>5. CASE Publishing(a)
      BY <2>5, OutcomeStep, PublishCreateStep, PublishInPlaceStep,
         PublishMoveStep DEF Publishing
    <2>6. CASE Removing(a)
      BY <2>6, UnlinkStep, UnlinkFailsStep, RollbackStep, RollbackFailsStep
         DEF Removing
    <2>7. CASE Ending(a)
      BY <2>7, CleanStep, ReportStep DEF Ending
    <2> QED
      BY <2>1, <2>2, <2>3, <2>4, <2>5, <2>6, <2>7
  <1> QED
    BY <1>1, <1>2

(* The inductive invariant of the repository. *)
THEOREM InductiveInvariant == Spec => []IInv
  <1>1. IInv /\ [Next]_vars => IInv'
    BY NextIInv
  <1> QED
    BY <1>1, InitIInv, PTL DEF Spec

(* Types; every file holds a document that belongs under its name. *)
THEOREM RepositoryTypes == Spec => []TypeOK
  BY InductiveInvariant, PTL DEF IInv

(* There is a file more than there are unfinished moves. *)
THEOREM AMoveKeepsACopy == Spec => []MovesKeepACopy
  BY InductiveInvariant, PTL DEF IInv

(* Once on disk, the document stays on disk. *)
THEOREM NothingVanishes == Spec => DocumentNeverVanishes
  <1>1. IInv /\ [Next]_vars => [Stored # {} => Stored' # {}]_vars
    BY NextIInv DEF Kept
  <1> QED
    BY <1>1, InductiveInvariant, PTL DEF Spec, DocumentNeverVanishes

-----------------------------------------------------------------------------
(* Who is at work.  Under the discipline nobody else is; and where one     *)
(* process does all the writing, the files change by its steps only.       *)
Turns ==
  cast.exclusive => \A a, b \in Actors :
    actor[a].pc # "idle" /\ actor[b].pc # "idle" => a = b

RoleOK(a, r) == /\ r.op = "create" => a \in cast.creators
                /\ r.op = "replace" => a \in cast.editors
Roles == \A a \in Actors : RoleOK(a, actor[a])

Writers == cast.creators \cup cast.editors
Sole(a) == cast.exclusive \/ Writers = {a}
OneWriter == \E w \in Actors : Writers = {w}

(* Reads only read, and the last outcomes are given at the end.            *)
Ordered(r) ==
  /\ r.op = "read" => ~r.again /\ r.pc \in {"idle", "scan", "open", "report"}
  /\ r.res \in {"ok", "readback_mismatch"} => r.pc = "report"

(* What a process that nobody disturbs has found is what is there.         *)
Found(r) ==
  /\ r.pc = "scan" => r.found = {p \in Stored : Directory[p] < r.dir}
  /\ r.pc \in {"open", "write"} => r.found = Stored
  /\ r.op = "create" /\ r.pc = "publish" => Stored = {}

(* d is all there is; both files of a move are.                            *)
Holds(d) == Stored = {d.place} /\ files[d.place] = d
HoldsBoth(d, e) ==
  /\ d.place # e.place /\ Stored = {d.place, e.place}
  /\ files[d.place] = d /\ files[e.place] = e

Chosen(r, kept) == Holds(IF r.res \in kept THEN r.doc ELSE r.old)

(* A replacement step by step: what is on disk while it runs alone.        *)
Exact(r) ==
  /\ r.pc \in {"scan", "open"} =>
       /\ r.res = "none"
       /\ IF r.again THEN Holds(r.doc) ELSE r.old = NoDocument
  /\ r.pc \in {"write", "publish"} => r.res = "none" /\ Holds(r.old)
  /\ r.pc \in Between => HoldsBoth(r.old, r.doc)
  /\ r.pc = "unlink" => r.res = "none"
  /\ r.pc = "rollback" => r.res = "move_failed"
  /\ r.pc = "clean" => Chosen(r, {"none", "durability_failed"})
  /\ r.pc = "report" /\ r.old # NoDocument =>
       Chosen(r, {"ok", "durability_failed", "readback_mismatch"})

Single == \A p, q \in Stored : p = q

(* One process writes: the versions on disk are none older than the last   *)
(* acknowledged, and it acknowledges what it found alone on disk.          *)
Current ==
  /\ Stored = {} => acked = 0
  /\ \A p \in Stored : files[p].version >= acked

Recent(r) ==
  /\ r.floor <= acked
  /\ r.op = "replace" /\ r.pc \in {"write", "publish"} \cup Between =>
       r.doc.version >= acked
  /\ r.op = "read" /\ r.pc = "report" /\ r.res = "ok" =>
       r.old \in Documents /\ r.old.version >= r.floor
  /\ r.op # "read" /\ r.res = "ok" => r.doc \in Documents /\ Holds(r.doc)

Coherent ==
  /\ IInv
  /\ Turns /\ Roles
  /\ \A a \in Actors : Ordered(actor[a])
  /\ \A a \in Actors : Sole(a) => Found(actor[a])
  /\ cast.exclusive /\ ~broken =>
       /\ \A a \in Actors : actor[a].op = "replace" => Exact(actor[a])
       /\ Pending = {} => Single
  /\ OneWriter => Current /\ \A a \in Actors : Recent(actor[a])

-----------------------------------------------------------------------------
(* What every step of a makes sure of, for a itself and for the files.     *)
Advance(a) ==
  /\ cast' = cast
  /\ \A b \in Actors : b # a => actor'[b] = actor[b]
  /\ cast.exclusive => \A b \in Actors : b # a => actor[b].pc = "idle"
  /\ RoleOK(a, actor'[a])
  /\ files' # files \/ acked' # acked => actor[a].op # "read"
  /\ acked' >= acked
  /\ ~broken' => ~broken
  /\ Ordered(actor[a])'
  /\ Sole(a) => Found(actor[a])'
  /\ cast.exclusive /\ ~broken' =>
       /\ actor'[a].op = "replace" => Exact(actor[a])'
       /\ Pending' = {} => Single'
  /\ OneWriter => Current' /\ Recent(actor[a])'

(* Most steps leave the files and what was acknowledged: there the record  *)
(* that a becomes is judged by the files as they are.                      *)
LEMMA StillAdvance ==
  ASSUME Coherent, NEW a \in Actors, NEW r \in ActorStates, Become(a, r),
         cast' = cast, files' = files, acked' = acked, ~broken' => ~broken,
         actor[a].pc \in Between => r.pc \in Between \/ broken',
         cast.exclusive => \A b \in Actors : b # a => actor[b].pc = "idle",
         RoleOK(a, r),
         Ordered(r), Sole(a) => Found(r),
         cast.exclusive /\ ~broken' /\ r.op = "replace" => Exact(r),
         OneWriter => Recent(r)
  PROVE  Advance(a)
  <1>1. TypeOK
    BY DEF Coherent, IInv
  <1>2. actor'[a] = r /\ \A b \in Actors : b # a => actor'[b] = actor[b]
    BY <1>1, BecomeStep
  <1>3. Stored' = Stored
    BY DEF Stored
  <1>4. acked' >= acked
    BY <1>1 DEF TypeOK
  <1>5. /\ Ordered(actor[a])'
        /\ Found(actor[a])' = Found(r)
        /\ Exact(actor[a])' = Exact(r)
        /\ Recent(actor[a])' = Recent(r)
    BY <1>2, <1>3 DEF Ordered, Found, Exact, Recent, Chosen, Holds, HoldsBoth
  <1>6. cast.exclusive /\ ~broken' /\ Pending' = {} => Single'
    <2>1. SUFFICES ASSUME cast.exclusive, ~broken', Pending' = {} PROVE Single'
      OBVIOUS
    <2>2. Pending = {}
      BY <1>1, <1>2, <2>1 DEF Pending, Between
    <2> QED
      BY <1>3, <2>1, <2>2 DEF Coherent, Single
  <1>7. OneWriter => Current'
    BY <1>3 DEF Coherent, Current
  <1> QED
    BY <1>2, <1>4, <1>5, <1>6, <1>7 DEF Advance

(* Giving an outcome. *)
LEMMA EndAdvance ==
  ASSUME Coherent, NEW a \in Actors, NEW pc \in {"clean", "report"},
         NEW res \in Outcomes, End(a, pc, res),
         cast' = cast, files' = files, acked' = acked, broken' = broken,
         actor[a].pc \notin Between \cup {"idle"},
         actor[a].op = "read" => pc = "report" /\ res # "ok",
         res \in {"ok", "readback_mismatch"} => pc = "report",
         cast.exclusive /\ ~broken /\ actor[a].op = "replace"
           /\ (pc = "report" => actor[a].old # NoDocument) =>
             Holds(IF res \in {"ok", "durability_failed", "readback_mismatch"}
                     THEN actor[a].doc ELSE actor[a].old)
             /\ res # "none",
         OneWriter /\ actor[a].op # "read" /\ res = "ok" =>
           actor[a].doc \in Documents /\ Holds(actor[a].doc)
  PROVE  Advance(a)
  <1>1. TypeOK /\ actor[a] \in ActorStates /\ Ordered(actor[a])
    BY DEF Coherent, IInv, TypeOK
  <1>2. PICK r : r = [actor[a] EXCEPT !.pc = pc, !.res = res]
    OBVIOUS
  <1>3. /\ r \in ActorStates /\ r.pc = pc /\ r.res = res /\ r.op = actor[a].op
        /\ r.again = actor[a].again /\ r.old = actor[a].old
        /\ r.doc = actor[a].doc /\ r.floor = actor[a].floor
    BY <1>1, <1>2 DEF ActorStates
  <1>4. Become(a, r)
    BY <1>2 DEF End
  <1>5. Ordered(r)
    BY <1>1, <1>3 DEF Ordered
  <1>6. Found(r)
    BY <1>3 DEF Found
  <1>7. cast.exclusive /\ ~broken' /\ r.op = "replace" => Exact(r)
    BY <1>3 DEF Exact, Chosen, Between
  <1>8. OneWriter => Recent(r)
    BY <1>3 DEF Recent, Coherent, Between
  <1>9. /\ RoleOK(a, r)
        /\ cast.exclusive => \A b \in Actors : b # a => actor[b].pc = "idle"
    BY <1>3 DEF RoleOK, Roles, Turns, Coherent
  <1> QED
    BY <1>3, <1>4, <1>5, <1>6, <1>7, <1>8, <1>9, StillAdvance

(* The steps that leave the files. *)
LEMMA Before ==
  ASSUME Coherent, NEW a \in Actors, actor[a].pc # "idle"
  PROVE  /\ TypeOK /\ actor[a] \in ActorStates /\ Ordered(actor[a])
         /\ RoleOK(a, actor[a])
         /\ Sole(a) => Found(actor[a])
         /\ cast.exclusive => Sole(a)
         /\ cast.exclusive => \A b \in Actors : b # a => actor[b].pc = "idle"
         /\ OneWriter /\ actor[a].op # "read" => Sole(a)
         /\ OneWriter => Recent(actor[a])
  <1>1. TypeOK /\ actor[a] \in ActorStates
    BY DEF Coherent, IInv, TypeOK
  <1>2. OneWriter /\ actor[a].op # "read" => Sole(a)
    BY <1>1 DEF Coherent, Roles, RoleOK, OneWriter, Writers, Sole, ActorStates
  <1> QED
    BY <1>1, <1>2 DEF Coherent, Roles, Turns, Sole

LEMMA BeginAdvance ==
  ASSUME Coherent, NEW a \in Actors, NEW op \in {"create", "read", "replace"},
         Begin(a, op)
  PROVE  Advance(a)
  <1>1. TypeOK
    BY DEF Coherent, IInv
  <1>2. PICK r : r = [Idle EXCEPT !.pc = "scan", !.op = op, !.floor = acked]
    OBVIOUS
  <1>3. r = [pc |-> "scan", op |-> op, again |-> FALSE, dir |-> 1, found |-> {},
             old |-> NoDocument, doc |-> NoDocument, temp |-> FALSE,
             res |-> "none", floor |-> acked]
    BY <1>2 DEF Idle
  <1>4. r \in ActorStates /\ Ordered(r) /\ Exact(r)
    BY <1>1, <1>3, ConstantsAssumption
       DEF TypeOK, ActorStates, Outcomes, Ordered, Exact, Between
  <1>5. Found(r)
    BY <1>1, <1>3, ConstantsAssumption DEF TypeOK, Found
  <1>6. Recent(r)
    BY <1>1, <1>3 DEF TypeOK, Recent, Between
  <1>7. Become(a, r) /\ RoleOK(a, r)
    BY <1>2, <1>3 DEF Begin, RoleOK
  <1>8. /\ actor[a].pc \notin Between
        /\ cast' = cast /\ files' = files /\ acked' = acked /\ broken' = broken
        /\ cast.exclusive => \A b \in Actors : actor[b].pc = "idle"
    BY DEF Begin, Quiet, Idle, Between
  <1> QED
    BY <1>4, <1>5, <1>6, <1>7, <1>8, StillAdvance

LEMMA ScanAdvance ==
  ASSUME Coherent, NEW a \in Actors, Scan(a)
  PROVE  Advance(a)
  <1>1. /\ actor[a].pc = "scan"
        /\ cast' = cast /\ files' = files /\ acked' = acked /\ broken' = broken
    BY DEF Scan
  <1>2. PICK found : found = actor[a].found \cup
                               {p \in Stored : Directory[p] = actor[a].dir}
    OBVIOUS
  <1>3. PICK dir : dir = actor[a].dir + 1
    OBVIOUS
  <1>4. PICK pc : pc = IF ~LastDirectory(actor[a].dir) THEN "scan"
                       ELSE IF actor[a].op = "create" /\ ~actor[a].again
                         THEN "write" ELSE "open"
    OBVIOUS
  <1>5. PICK r : r = [actor[a] EXCEPT !.found = found, !.dir = dir, !.pc = pc]
    OBVIOUS
  <1>6. Become(a, r)
    BY <1>2, <1>3, <1>4, <1>5 DEF Scan
  <1>7. /\ TypeOK /\ actor[a] \in ActorStates /\ Stored \subseteq Places
    BY <1>1, Before DEF TypeOK
  <1>8. pc \in {"scan", "write", "open"} /\ found \in SUBSET Places /\ dir \in Nat
    BY <1>2, <1>3, <1>4, <1>7 DEF ActorStates
  <1>9. /\ r \in ActorStates
        /\ r.pc = pc /\ r.found = found /\ r.dir = dir /\ r.op = actor[a].op
        /\ r.again = actor[a].again /\ r.old = actor[a].old
        /\ r.doc = actor[a].doc /\ r.res = actor[a].res /\ r.floor = actor[a].floor
    BY <1>5, <1>7, <1>8 DEF ActorStates
  <1>10. Ordered(r) /\ RoleOK(a, r)
    BY <1>1, <1>4, <1>9, Before DEF Ordered, RoleOK
  <1>11. Sole(a) => Found(r)
    <2>1. SUFFICES ASSUME Sole(a) PROVE Found(r)
      OBVIOUS
    <2>2. actor[a].found = {p \in Stored : Directory[p] < actor[a].dir}
      BY <1>1, <2>1, Before DEF Found
    <2>3. found = {p \in Stored : Directory[p] < dir}
      BY <1>2, <1>3, <1>7, <2>2, ConstantsAssumption DEF ActorStates
    <2>4. pc # "scan" => found = Stored
      BY <1>3, <1>4, <1>7, <2>3, ConstantsAssumption DEF LastDirectory, ActorStates
    <2> QED
      BY <1>8, <1>9, <2>3, <2>4 DEF Found
  <1>12. cast.exclusive /\ ~broken' /\ r.op = "replace" => Exact(r)
    BY <1>1, <1>4, <1>9 DEF Coherent, Exact, Between
  <1>13. OneWriter => Recent(r)
    BY <1>1, <1>4, <1>9, Before DEF Recent, Between
  <1> QED
    BY <1>1, <1>6, <1>9, <1>10, <1>11, <1>12, <1>13, Before, StillAdvance DEF Between

(* A process that runs alone and has read back finds the file it stored.   *)
LEMMA ReadBackFinds ==
  ASSUME Coherent, NEW a \in Actors, Opening(a), cast.exclusive, ~broken,
         actor[a].op = "replace"
  PROVE  /\ actor[a].res = "none"
         /\ actor[a].again => Holds(actor[a].doc) /\ Cardinality(actor[a].found) = 1
         /\ ~actor[a].again => actor[a].old = NoDocument
  <1>1. actor[a].pc = "open"
    BY DEF Opening
  <1>2. actor[a].found = Stored /\ Exact(actor[a])
    BY <1>1, Before DEF Found, Coherent
  <1>3. /\ actor[a].res = "none"
        /\ actor[a].again => Holds(actor[a].doc)
        /\ ~actor[a].again => actor[a].old = NoDocument
    BY <1>1, <1>2 DEF Exact
  <1>4. actor[a].again => actor[a].found = {actor[a].doc.place}
    BY <1>2, <1>3 DEF Holds
  <1>5. actor[a].again => Cardinality(actor[a].found) = 1
    BY <1>4, FS_Singleton
  <1> QED
    BY <1>3, <1>5

LEMMA ReadRefusedAdvance ==
  ASSUME Coherent, NEW a \in Actors, ReadRefused(a)
  PROVE  Advance(a)
  <1>1. /\ Opening(a) /\ Cardinality(actor[a].found) # 1
        /\ cast' = cast /\ files' = files /\ acked' = acked /\ broken' = broken
    BY DEF ReadRefused
  <1>2. PICK res \in {"readback_mismatch", "not_found", "duplicate_id"} :
          End(a, "report", res)
    BY DEF ReadRefused
  <1>3. cast.exclusive /\ ~broken /\ actor[a].op = "replace" =>
          actor[a].old = NoDocument
    BY <1>1, ReadBackFinds
  <1> QED
    BY <1>1, <1>2, <1>3, EndAdvance DEF Opening, Outcomes, Between

LEMMA ReadFailsAdvance ==
  ASSUME Coherent, NEW a \in Actors, ReadFails(a)
  PROVE  Advance(a)
  <1>1. /\ Opening(a)
        /\ cast' = cast /\ files' = files /\ acked' = acked /\ broken' = broken
    BY DEF ReadFails
  <1>2. PICK res \in {"readback_mismatch", "read_failed"} :
          End(a, "report", res) /\ (actor[a].again => res = "readback_mismatch")
    BY DEF ReadFails
  <1>3. cast.exclusive /\ ~broken /\ actor[a].op = "replace"
          /\ actor[a].old # NoDocument => actor[a].again /\ Holds(actor[a].doc)
    BY <1>1, ReadBackFinds
  <1> QED
    BY <1>1, <1>2, <1>3, EndAdvance DEF Opening, Outcomes, Between

LEMMA ReadBackAdvance ==
  ASSUME Coherent, NEW a \in Actors, ReadBack(a)
  PROVE  Advance(a)
  <1>1. /\ Opening(a) /\ actor[a].again
        /\ cast' = cast /\ files' = files /\ acked' = acked /\ broken' = broken
    BY DEF ReadBack
  <1>2. PICK p \in Stored, res \in {"ok", "readback_mismatch"} :
          /\ End(a, "report", res) /\ actor[a].found = {p}
          /\ res = "ok" => files[p] = actor[a].doc
    BY DEF ReadBack
  <1>3. actor[a].op # "read"
    BY <1>1, Before DEF Opening, Ordered
  <1>4. cast.exclusive /\ ~broken /\ actor[a].op = "replace" => Holds(actor[a].doc)
    BY <1>1, ReadBackFinds
  <1>5. OneWriter /\ res = "ok" => actor[a].doc \in Documents /\ Holds(actor[a].doc)
    <2>1. SUFFICES ASSUME OneWriter, res = "ok"
                   PROVE  actor[a].doc \in Documents /\ Holds(actor[a].doc)
      OBVIOUS
    <2>2. Stored = {p}
      BY <1>1, <1>2, <1>3, <2>1, Before DEF Opening, Found
    <2> QED
      BY <1>2, <2>1, <2>2 DEF Coherent, IInv, TypeOK, Holds
  <1> QED
    BY <1>1, <1>2, <1>3, <1>4, <1>5, EndAdvance DEF Opening, Outcomes, Between

LEMMA ReadAdvance ==
  ASSUME Coherent, NEW a \in Actors, Read(a)
  PROVE  Advance(a)
  <1>1. /\ Opening(a) /\ actor[a].op = "read"
        /\ cast' = cast /\ files' = files /\ acked' = acked /\ broken' = broken
    BY DEF Read
  <1>2. PICK p \in Stored :
          Become(a, [actor[a] EXCEPT !.pc = "report", !.res = "ok", !.old = files[p]])
    BY DEF Read
  <1>3. PICK r : r = [actor[a] EXCEPT !.pc = "report", !.res = "ok",
                                      !.old = files[p]]
    OBVIOUS
  <1>4. TypeOK /\ actor[a] \in ActorStates /\ files[p] \in Documents
    BY <1>1, Before DEF Opening, TypeOK
  <1>5. /\ r \in ActorStates /\ r.pc = "report" /\ r.op = "read"
        /\ r.old = files[p] /\ r.again = actor[a].again /\ r.floor = actor[a].floor
    BY <1>1, <1>3, <1>4 DEF ActorStates, Outcomes
  <1>6. Ordered(r) /\ RoleOK(a, r) /\ Found(r)
    BY <1>1, <1>5, Before DEF Opening, Ordered, RoleOK, Found
  <1>7. OneWriter => Recent(r)
    <2>1. SUFFICES ASSUME OneWriter PROVE Recent(r)
      OBVIOUS
    <2>2. files[p].version >= acked /\ actor[a].floor <= acked
      BY <2>1 DEF Coherent, Current, Recent
    <2>3. files[p].version \in Nat /\ actor[a].floor \in Nat /\ acked \in Nat
      BY <1>4, ConstantsAssumption DEF TypeOK, ActorStates, Documents, Versions
    <2> QED
      BY <1>4, <1>5, <2>2, <2>3 DEF Recent
  <1> QED
    BY <1>1, <1>2, <1>3, <1>5, <1>6, <1>7, Before, StillAdvance DEF Opening, Between

(* A replacement that has read its document found all there is.            *)
LEMMA ReplaceRefusedAdvance ==
  ASSUME Coherent, NEW a \in Actors, ReplaceRefused(a)
  PROVE  Advance(a)
  <1>1. cast' = cast /\ files' = files /\ acked' = acked /\ broken' = broken
    BY DEF ReplaceRefused
  <1>2. PICK p \in Stored, res \in {"version_conflict", "invalid_next_version",
                                    "timestamp_refused"} :
          /\ Replaceable(a, p)
          /\ Become(a, [actor[a] EXCEPT !.pc = "report", !.old = files[p],
                                        !.res = res])
    BY DEF ReplaceRefused, Refusal
  <1>3. PICK r : r = [actor[a] EXCEPT !.pc = "report", !.old = files[p], !.res = res]
    OBVIOUS
  <1>4. /\ actor[a].pc = "open" /\ actor[a].op = "replace" /\ ~actor[a].again
        /\ actor[a].found = {p}
    BY <1>2 DEF Replaceable, Opening
  <1>5. /\ TypeOK /\ actor[a] \in ActorStates
        /\ files[p] \in Documents /\ files[p].place = p
    BY <1>4, Before DEF TypeOK
  <1>6. /\ r \in ActorStates /\ r.pc = "report" /\ r.op = "replace" /\ r.res = res
        /\ r.old = files[p] /\ r.doc = actor[a].doc /\ r.floor = actor[a].floor
    BY <1>3, <1>4, <1>5 DEF ActorStates, Outcomes
  <1>7. Ordered(r) /\ RoleOK(a, r) /\ Found(r)
    BY <1>4, <1>6, Before DEF Ordered, RoleOK, Found
  <1>8. cast.exclusive => Exact(r)
    BY <1>4, <1>5, <1>6, Before DEF Found, Exact, Chosen, Holds, Between
  <1>9. OneWriter => Recent(r)
    BY <1>4, <1>6, Before DEF Recent, Between
  <1> QED
    BY <1>1, <1>2, <1>3, <1>4, <1>6, <1>7, <1>8, <1>9, Before, StillAdvance
       DEF Between

LEMMA ReplaceAcceptedAdvance ==
  ASSUME Coherent, NEW a \in Actors, ReplaceAccepted(a)
  PROVE  Advance(a)
  <1>1. cast' = cast /\ files' = files /\ acked' = acked /\ broken' = broken
    BY DEF ReplaceAccepted
  <1>2. PICK p \in Stored, d \in Documents :
          /\ Replaceable(a, p) /\ d.version = files[p].version + 1
          /\ Become(a, [actor[a] EXCEPT !.pc = "write", !.old = files[p],
                                        !.doc = d])
    BY DEF ReplaceAccepted
  <1>3. PICK r : r = [actor[a] EXCEPT !.pc = "write", !.old = files[p], !.doc = d]
    OBVIOUS
  <1>4. /\ actor[a].pc = "open" /\ actor[a].op = "replace" /\ ~actor[a].again
        /\ actor[a].found = {p}
    BY <1>2 DEF Replaceable, Opening
  <1>5. /\ TypeOK /\ actor[a] \in ActorStates
        /\ files[p] \in Documents /\ files[p].place = p
    BY <1>4, Before DEF TypeOK
  <1>6. /\ r \in ActorStates /\ r.pc = "write" /\ r.op = "replace"
        /\ r.res = actor[a].res /\ r.found = {p}
        /\ r.old = files[p] /\ r.doc = d /\ r.floor = actor[a].floor
    BY <1>3, <1>4, <1>5 DEF ActorStates
  <1>7. /\ Ordered(r) /\ RoleOK(a, r)
        /\ Sole(a) => Found(r)
    BY <1>4, <1>6, Before DEF Ordered, RoleOK, Found
  <1>8. cast.exclusive /\ ~broken => Exact(r)
    <2>1. SUFFICES ASSUME cast.exclusive, ~broken PROVE Exact(r)
      OBVIOUS
    <2>2. Stored = {p} /\ Exact(actor[a])
      BY <1>4, <2>1, Before DEF Found, Coherent
    <2> QED
      BY <1>4, <1>5, <1>6, <2>2 DEF Exact, Holds, Between
  <1>9. OneWriter => Recent(r)
    <2>1. SUFFICES ASSUME OneWriter PROVE Recent(r)
      OBVIOUS
    <2>2. files[p].version >= acked /\ Recent(actor[a])
      BY <2>1 DEF Coherent, Current
    <2>3. files[p].version \in Nat /\ acked \in Nat
      BY <1>5, ConstantsAssumption DEF TypeOK, Documents, Versions
    <2>4. actor[a].res # "ok"
      BY <1>4, Before DEF Ordered
    <2> QED
      BY <1>2, <1>6, <2>2, <2>3, <2>4 DEF Recent
  <1> QED
    BY <1>1, <1>2, <1>3, <1>4, <1>6, <1>7, <1>8, <1>9, Before, StillAdvance
       DEF Between

LEMMA WriteRefusedAdvance ==
  ASSUME Coherent, NEW a \in Actors, WriteRefused(a)
  PROVE  Advance(a)
  <1>1. /\ actor[a].pc = "write"
        /\ cast' = cast /\ files' = files /\ acked' = acked /\ broken' = broken
    BY DEF WriteRefused
  <1>2. PICK res \in {"duplicate_id", "destination_exists"} : End(a, "report", res)
    BY DEF WriteRefused
  <1>3. cast.exclusive /\ ~broken /\ actor[a].op = "replace" => Holds(actor[a].old)
    BY <1>1 DEF Coherent, Exact
  <1> QED
    BY <1>1, <1>2, <1>3, EndAdvance DEF Outcomes, Between

LEMMA WriteTemporaryAdvance ==
  ASSUME Coherent, NEW a \in Actors, WriteTemporary(a)
  PROVE  Advance(a)
  <1>1. /\ actor[a].pc = "write"
        /\ cast' = cast /\ files' = files /\ acked' = acked /\ broken' = broken
    BY DEF WriteTemporary
  <1>2. TypeOK /\ actor[a] \in ActorStates /\ actor[a].op # "read"
    BY <1>1, Before DEF Ordered
  <1>3. PICK d \in Destination(a) :
          /\ ~Taken(a, d)
          /\ Become(a, [actor[a] EXCEPT !.pc = "publish", !.doc = d, !.temp = TRUE])
    BY DEF WriteTemporary
  <1>4. d \in Documents /\ (actor[a].op = "replace" => d = actor[a].doc)
    BY <1>1, <1>2, <1>3 DEF Destination, Coherent, IInv, ActorsOK, RequestOK
  <1>5. PICK r : r = [actor[a] EXCEPT !.pc = "publish", !.doc = d, !.temp = TRUE]
    OBVIOUS
  <1>6. /\ r \in ActorStates /\ r.pc = "publish" /\ r.op = actor[a].op
        /\ r.res = actor[a].res /\ r.old = actor[a].old /\ r.doc = d
        /\ r.floor = actor[a].floor
    BY <1>2, <1>4, <1>5 DEF ActorStates
  <1>7. Ordered(r) /\ RoleOK(a, r)
    BY <1>1, <1>2, <1>6, Before DEF Ordered, RoleOK
  <1>8. Sole(a) => Found(r)
    BY <1>1, <1>3, <1>6, Before DEF Found, Taken
  <1>9. cast.exclusive /\ ~broken /\ r.op = "replace" => Exact(r)
    BY <1>1, <1>6 DEF Coherent, Exact, Between
  <1>10. OneWriter => Recent(r)
    BY <1>1, <1>2, <1>4, <1>6, Before DEF Recent, Ordered
  <1> QED
    BY <1>1, <1>3, <1>5, <1>6, <1>7, <1>8, <1>9, <1>10, Before, StillAdvance
       DEF Between

LEMMA WriteFailsAdvance ==
  ASSUME Coherent, NEW a \in Actors, WriteFails(a)
  PROVE  Advance(a)
  <1>1. /\ actor[a].pc = "write"
        /\ cast' = cast /\ files' = files /\ acked' = acked /\ broken' = broken
    BY DEF WriteFails
  <1>2. TypeOK /\ actor[a] \in ActorStates /\ actor[a].op # "read"
    BY <1>1, Before DEF Ordered
  <1>3. PICK res \in {"write_failed", "move_failed", "replace_failed"},
             temp \in BOOLEAN :
          Become(a, [actor[a] EXCEPT !.pc = "report", !.res = res, !.temp = temp])
    BY DEF WriteFails, FailureOf
  <1>4. PICK r : r = [actor[a] EXCEPT !.pc = "report", !.res = res, !.temp = temp]
    OBVIOUS
  <1>5. /\ r \in ActorStates /\ r.pc = "report" /\ r.op = actor[a].op
        /\ r.res = res /\ r.old = actor[a].old /\ r.floor = actor[a].floor
    BY <1>2, <1>4 DEF ActorStates, Outcomes
  <1>6. Ordered(r) /\ RoleOK(a, r) /\ Found(r)
    BY <1>1, <1>2, <1>5, Before DEF Ordered, RoleOK, Found
  <1>7. cast.exclusive /\ ~broken /\ r.op = "replace" => Exact(r)
    BY <1>1, <1>5 DEF Coherent, Exact, Chosen, Between
  <1>8. OneWriter => Recent(r)
    BY <1>2, <1>5, <1>1, Before DEF Recent, Between
  <1> QED
    BY <1>1, <1>3, <1>4, <1>5, <1>6, <1>7, <1>8, Before, StillAdvance DEF Between

(* Publishing that does not come about. *)
LEMMA NotPublishedAdvance ==
  ASSUME Coherent, NEW a \in Actors, PublishRefused(a) \/ PublishFails(a)
  PROVE  Advance(a)
  <1>1. /\ actor[a].pc = "publish"
        /\ cast' = cast /\ files' = files /\ acked' = acked /\ broken' = broken
    BY DEF PublishRefused, PublishFails
  <1>2. PICK res \in {"move_failed", "duplicate_id", "write_failed",
                      "replace_failed"} : End(a, "clean", res)
    BY DEF PublishRefused, PublishFails, FailureOf
  <1>3. cast.exclusive /\ ~broken /\ actor[a].op = "replace" => Holds(actor[a].old)
    BY <1>1 DEF Coherent, Exact
  <1>4. actor[a].op # "read"
    BY <1>1, Before DEF Ordered
  <1> QED
    BY <1>1, <1>2, <1>3, <1>4, EndAdvance DEF Outcomes, Between

LEMMA UnlinkFailsAdvance ==
  ASSUME Coherent, NEW a \in Actors, UnlinkFails(a)
  PROVE  Advance(a)
  <1>1. /\ actor[a].pc = "unlink" /\ End(a, "rollback", "move_failed")
        /\ cast' = cast /\ files' = files /\ acked' = acked /\ broken' = broken
    BY DEF UnlinkFails
  <1>2. TypeOK /\ actor[a] \in ActorStates /\ actor[a].op # "read"
    BY <1>1, Before DEF Ordered
  <1>3. PICK r : r = [actor[a] EXCEPT !.pc = "rollback", !.res = "move_failed"]
    OBVIOUS
  <1>4. /\ r \in ActorStates /\ r.pc = "rollback" /\ r.op = actor[a].op
        /\ r.res = "move_failed" /\ r.old = actor[a].old /\ r.doc = actor[a].doc
        /\ r.floor = actor[a].floor
    BY <1>2, <1>3 DEF ActorStates, Outcomes
  <1>5. Become(a, r)
    BY <1>1, <1>3 DEF End
  <1>6. Ordered(r) /\ RoleOK(a, r) /\ Found(r)
    BY <1>1, <1>2, <1>4, Before DEF Ordered, RoleOK, Found
  <1>7. cast.exclusive /\ ~broken /\ r.op = "replace" => Exact(r)
    BY <1>1, <1>4 DEF Coherent, Exact, Between
  <1>8. OneWriter => Recent(r)
    BY <1>1, <1>2, <1>4, Before DEF Recent, Between
  <1> QED
    BY <1>1, <1>4, <1>5, <1>6, <1>7, <1>8, Before, StillAdvance DEF Between

LEMMA RollbackFailsAdvance ==
  ASSUME Coherent, NEW a \in Actors, RollbackFails(a)
  PROVE  Advance(a)
  <1>1. /\ actor[a].pc = "rollback" /\ broken'
        /\ cast' = cast /\ files' = files /\ acked' = acked
    BY DEF RollbackFails
  <1>2. TypeOK /\ actor[a] \in ActorStates /\ actor[a].op # "read"
    BY <1>1, Before DEF Ordered
  <1>3. PICK r : r = [actor[a] EXCEPT !.pc = "clean"]
    OBVIOUS
  <1>4. /\ r \in ActorStates /\ r.pc = "clean" /\ r.op = actor[a].op
        /\ r.res = actor[a].res /\ r.floor = actor[a].floor
    BY <1>2, <1>3 DEF ActorStates
  <1>5. Become(a, r)
    BY <1>3 DEF RollbackFails, Goto
  <1>6. Ordered(r) /\ RoleOK(a, r) /\ Found(r)
    BY <1>1, <1>2, <1>4, Before DEF Ordered, RoleOK, Found
  <1>7. OneWriter => Recent(r)
    BY <1>1, <1>2, <1>4, Before DEF Recent, Between, Ordered
  <1> QED
    BY <1>1, <1>4, <1>5, <1>6, <1>7, Before, StillAdvance DEF Between

LEMMA CleanAdvance ==
  ASSUME Coherent, NEW a \in Actors, Clean(a) \/ CleanFails(a)
  PROVE  Advance(a)
  <1>1. /\ actor[a].pc = "clean"
        /\ cast' = cast /\ files' = files /\ acked' = acked /\ broken' = broken
    BY DEF Clean, CleanFails
  <1>2. TypeOK /\ actor[a] \in ActorStates /\ actor[a].op # "read"
    BY <1>1, Before DEF Ordered
  <1>3. PICK temp \in BOOLEAN : Become(a, AfterClean(a, temp))
    BY DEF Clean, CleanFails
  <1>4. PICK r : r = AfterClean(a, temp)
    OBVIOUS
  <1>5. /\ r \in ActorStates /\ r.op = actor[a].op /\ r.res = actor[a].res
        /\ r.old = actor[a].old /\ r.doc = actor[a].doc /\ r.floor = actor[a].floor
        /\ actor[a].res = "none" =>
             r.pc = "scan" /\ r.again /\ r.dir = 1 /\ r.found = {}
        /\ actor[a].res # "none" => r.pc = "report"
    BY <1>2, <1>3, <1>4 DEF AfterClean, ActorStates
  <1>6. Ordered(r) /\ RoleOK(a, r)
    BY <1>1, <1>2, <1>5, Before DEF Ordered, RoleOK
  <1>7. Found(r)
    BY <1>2, <1>5, ConstantsAssumption DEF Found, TypeOK
  <1>8. cast.exclusive /\ ~broken /\ r.op = "replace" => Exact(r)
    <2>1. SUFFICES ASSUME cast.exclusive, ~broken, r.op = "replace" PROVE Exact(r)
      OBVIOUS
    <2>2. Chosen(actor[a], {"none", "durability_failed"})
      BY <1>1, <1>5, <2>1 DEF Coherent, Exact
    <2>3. actor[a].res \notin {"ok", "readback_mismatch"}
      BY <1>1, Before DEF Ordered
    <2> QED
      BY <1>5, <2>2, <2>3 DEF Exact, Chosen, Between
  <1>9. OneWriter => Recent(r)
    BY <1>1, <1>2, <1>5, Before DEF Recent, Ordered, Between
  <1> QED
    BY <1>1, <1>3, <1>4, <1>5, <1>6, <1>7, <1>8, <1>9, Before, StillAdvance
       DEF Between

LEMMA IdleFacts ==
  ASSUME NEW a \in Actors
  PROVE  /\ Idle \in ActorStates /\ Ordered(Idle) /\ RoleOK(a, Idle) /\ Found(Idle)
         /\ Idle.op = "read" /\ Idle.pc = "idle"
         /\ acked \in Nat => Recent(Idle)
  BY ConstantsAssumption
     DEF Idle, ActorStates, Outcomes, Ordered, RoleOK, Found, Recent, Between

LEMMA CrashAdvance ==
  ASSUME Coherent, NEW a \in Actors, Crash(a)
  PROVE  Advance(a)
  <1>1. /\ actor[a].pc # "idle" /\ Become(a, Idle)
        /\ cast' = cast /\ files' = files /\ acked' = acked
    BY DEF Crash
  <1>2. ~broken' => ~broken
    BY Zenon DEF Crash
  <1>3. actor[a].pc \in Between => broken'
    BY Zenon DEF Crash, Between
  <1>4. acked \in Nat
    BY DEF Coherent, IInv, TypeOK
  <1> QED
    BY <1>1, <1>2, <1>3, <1>4, IdleFacts, Before, StillAdvance

(* What is acknowledged is what its writer found alone on disk.            *)
LEMMA ReportAdvance ==
  ASSUME Coherent, NEW a \in Actors, Report(a)
  PROVE  Advance(a)
  <1>1. /\ actor[a].pc = "report" /\ Become(a, Idle)
        /\ cast' = cast /\ files' = files /\ broken' = broken
        /\ acked' = IF Stores(a) /\ actor[a].doc.version > acked
                      THEN actor[a].doc.version ELSE acked
    BY DEF Report
  <1>2. CASE acked' = acked
    BY <1>1, <1>2, IdleFacts, Before, StillAdvance DEF Between, TypeOK
  <1>3. CASE acked' # acked
    <2>1. /\ actor[a].op # "read" /\ actor[a].res = "ok"
          /\ acked' = actor[a].doc.version /\ actor[a].doc.version > acked
      BY <1>1, <1>3 DEF Stores
    <2>2. TypeOK /\ acked \in Nat
      BY DEF Coherent, IInv, TypeOK
    <2>3. actor'[a] = Idle /\ \A b \in Actors : b # a => actor'[b] = actor[b]
      BY <1>1, <2>2, IdleFacts, BecomeStep
    <2>4. Stored' = Stored
      BY <1>1 DEF Stored
    <2>5. /\ Ordered(actor[a])' /\ Found(actor[a])' /\ RoleOK(a, actor'[a])
          /\ actor'[a].op = "read"
      <3>1. Ordered(actor[a])' /\ RoleOK(a, actor'[a]) /\ actor'[a].op = "read"
        BY <2>3, IdleFacts DEF Ordered
      <3>2. Found(actor[a])'
        BY <2>3, IdleFacts DEF Found
      <3> QED
        BY <3>1, <3>2
    <2>6. cast.exclusive /\ ~broken' /\ Pending' = {} => Single'
      <3>1. SUFFICES ASSUME cast.exclusive, ~broken', Pending' = {} PROVE Single'
        OBVIOUS
      <3>2. Pending = {}
        BY <1>1, <2>3, <3>1 DEF Pending, Between
      <3> QED
        BY <1>1, <2>4, <3>1, <3>2 DEF Coherent, Single
    <2>7. OneWriter => Current' /\ Recent(actor[a])'
      <3>1. SUFFICES ASSUME OneWriter PROVE Current' /\ Recent(actor[a])'
        OBVIOUS
      <3>2. actor[a].doc \in Documents /\ Holds(actor[a].doc)
        BY <2>1, <3>1 DEF Coherent, Recent
      <3>3. acked' \in Nat
        BY <2>1, <3>2, ConstantsAssumption DEF Documents, Versions
      <3>4. Current'
        BY <1>1, <2>1, <2>4, <3>2, <3>3 DEF Current, Holds
      <3>5. Recent(actor[a])'
        BY <2>3, <3>3, <2>4 DEF Recent, Idle, Between
      <3> QED
        BY <3>4, <3>5
    <2>8. acked' >= acked
      <3>1. actor[a].doc.version \in Nat
        BY <2>2, ConstantsAssumption
           DEF TypeOK, ActorStates, Documents, NoDocument, Versions
      <3> QED
        BY <2>1, <2>2, <3>1
    <2> QED
      BY <1>1, <2>1, <2>3, <2>5, <2>6, <2>7, <2>8, Before DEF Advance
  <1> QED
    BY <1>2, <1>3

-----------------------------------------------------------------------------
(* The steps that change the files. *)
LEMMA PutFiles ==
  ASSUME TypeOK, NEW d \in Documents, files' = Put(d)
  PROVE  /\ Stored' = Stored \cup {d.place}
         /\ files'[d.place] = d
         /\ \A p \in Stored : p # d.place => files'[p] = files[p]
  BY DEF Put, Stored

LEMMA DropFiles ==
  ASSUME TypeOK, NEW p, files' = Drop(p)
  PROVE  /\ Stored' = Stored \ {p}
         /\ \A q \in Stored : q # p => files'[q] = files[q]
  BY DEF Drop, Stored

(* A new document is no older than what was acknowledged. *)
LEMMA PutCurrent ==
  ASSUME TypeOK, NEW d \in Documents, files' = Put(d), acked' = acked,
         d.version >= acked, Stored = {} \/ Current
  PROVE  Current'
  <1>1. /\ Stored' = Stored \cup {d.place} /\ files'[d.place] = d
        /\ \A p \in Stored : p # d.place => files'[p] = files[p]
    BY PutFiles
  <1> QED
    BY <1>1 DEF Current

(* The replacement a runs is exact once the step is done.                  *)
ExactAfter(a) == Exact(actor[a])'

(* What every step of publishing and moving leaves as it was, with the     *)
(* process as r.                                                           *)
LEMMA FilesAdvance ==
  ASSUME Coherent, NEW a \in Actors, NEW r \in ActorStates, Become(a, r),
         actor[a].pc \in {"publish"} \cup Between,
         cast' = cast, acked' = acked, broken' = broken,
         r.op = actor[a].op, r.floor = actor[a].floor, r.doc = actor[a].doc,
         r.pc \in {"clean"} \cup Between,
         r.res \notin {"ok", "readback_mismatch"},
         cast.exclusive /\ ~broken /\ actor[a].op = "replace" =>
           ExactAfter(a) /\ (r.pc = "clean" => Single'),
         cast.exclusive /\ ~broken /\ actor[a].op = "create" =>
           Single' /\ r.pc = "clean",
         OneWriter => Current',
         OneWriter /\ r.pc \in Between => r.doc.version >= acked
  PROVE  Advance(a)
  <1>1. actor[a].pc # "idle" /\ actor[a].op # "read"
    BY Before DEF Ordered, Between
  <1>2. TypeOK /\ actor[a] \in ActorStates /\ RoleOK(a, actor[a])
    BY <1>1, Before
  <1>3. actor'[a] = r /\ \A b \in Actors : b # a => actor'[b] = actor[b]
    BY <1>2, BecomeStep
  <1>4. acked' >= acked
    BY <1>2 DEF TypeOK
  <1>5. Ordered(actor[a])' /\ RoleOK(a, actor'[a])
    BY <1>1, <1>2, <1>3 DEF Ordered, RoleOK, Between
  <1>6. Found(actor[a])'
    BY <1>3 DEF Found, Between
  <1>7. cast.exclusive /\ ~broken' =>
          /\ actor'[a].op = "replace" => Exact(actor[a])'
          /\ Pending' = {} => Single'
    BY <1>1, <1>2, <1>3 DEF Pending, Between, ActorStates, ExactAfter
  <1>8. OneWriter => Recent(actor[a])'
    BY <1>1, <1>2, <1>3, Before DEF Recent, Between
  <1> QED
    BY <1>1, <1>3, <1>4, <1>5, <1>6, <1>7, <1>8, Before DEF Advance

(* What publishing starts from, for a process that runs alone. *)
LEMMA PublishingAlone ==
  ASSUME Coherent, NEW a \in Actors, Published(a)
  PROVE  /\ actor[a].pc = "publish" /\ actor[a].op # "read"
         /\ TypeOK /\ actor[a] \in ActorStates /\ actor[a].doc \in Documents
         /\ actor[a].res \notin {"ok", "readback_mismatch"}
         /\ cast' = cast /\ acked' = acked /\ broken' = broken
         /\ files' = Put(actor[a].doc)
         /\ Stored' = Stored \cup {actor[a].doc.place}
         /\ files'[actor[a].doc.place] = actor[a].doc
         /\ \A p \in Stored : p # actor[a].doc.place => files'[p] = files[p]
         /\ cast.exclusive /\ ~broken /\ actor[a].op = "replace" =>
              actor[a].res = "none" /\ Holds(actor[a].old)
         /\ cast.exclusive /\ actor[a].op = "create" => Stored = {}
         /\ OneWriter => Current'
         /\ OneWriter /\ actor[a].op = "replace" => actor[a].doc.version >= acked
  <1>1. /\ actor[a].pc = "publish" /\ files' = Put(actor[a].doc)
        /\ cast' = cast /\ acked' = acked /\ broken' = broken
    BY DEF Published
  <1>2. /\ TypeOK /\ actor[a] \in ActorStates /\ actor[a].op # "read"
        /\ actor[a].res \notin {"ok", "readback_mismatch"}
    BY <1>1, Before DEF Ordered
  <1>3. actor[a].doc \in Documents
    BY <1>1 DEF Coherent, IInv, ActorsOK, RequestOK
  <1>4. cast.exclusive /\ ~broken /\ actor[a].op = "replace" =>
          actor[a].res = "none" /\ Holds(actor[a].old)
    BY <1>1 DEF Coherent, Exact
  <1>5. Sole(a) /\ actor[a].op = "create" => Stored = {}
    BY <1>1, Before DEF Found
  <1>6. OneWriter /\ actor[a].op = "replace" => actor[a].doc.version >= acked
    BY <1>1, Before DEF Recent
  <1>7. OneWriter => Current'
    <2>1. SUFFICES ASSUME OneWriter PROVE Current'
      OBVIOUS
    <2>2. CASE actor[a].op = "create"
      <3>1. Stored = {} /\ acked = 0
        BY <1>1, <1>2, <1>5, <2>1, <2>2, Before DEF Coherent, Current
      <3>2. actor[a].doc.version >= acked
        BY <1>3, <3>1, ConstantsAssumption DEF Documents, Versions
      <3> QED
        BY <1>1, <1>2, <1>3, <3>1, <3>2, PutCurrent
    <2>3. CASE actor[a].op = "replace"
      BY <1>1, <1>2, <1>3, <1>6, <2>1, <2>3, PutCurrent DEF Coherent
    <2> QED
      BY <1>2, <2>2, <2>3 DEF ActorStates
  <1>8. /\ Stored' = Stored \cup {actor[a].doc.place}
        /\ files'[actor[a].doc.place] = actor[a].doc
        /\ \A p \in Stored : p # actor[a].doc.place => files'[p] = files[p]
    BY <1>1, <1>2, <1>3, PutFiles
  <1> QED
    BY <1>1, <1>2, <1>3, <1>4, <1>5, <1>6, <1>7, <1>8, Before

LEMMA PublishCreateAdvance ==
  ASSUME Coherent, NEW a \in Actors, PublishCreate(a)
  PROVE  Advance(a)
  <1>1. Published(a) /\ actor[a].op = "create"
    BY DEF PublishCreate
  <1>2. actor[a].pc = "publish" /\ actor[a] \in ActorStates /\ TypeOK
    BY <1>1, PublishingAlone
  <1>3. PICK res \in {actor[a].res, "write_failed"} :
          Become(a, [actor[a] EXCEPT !.pc = "clean", !.res = res])
    <2>1. CASE Goto(a, "clean")
      <3>1. [actor[a] EXCEPT !.pc = "clean"] =
              [actor[a] EXCEPT !.pc = "clean", !.res = actor[a].res]
        BY <1>2 DEF ActorStates
      <3> QED
        BY <2>1, <3>1 DEF Goto
    <2>2. CASE End(a, "clean", "write_failed")
      BY <2>2 DEF End
    <2> QED
      BY <2>1, <2>2 DEF PublishCreate
  <1>4. PICK r : r = [actor[a] EXCEPT !.pc = "clean", !.res = res]
    OBVIOUS
  <1>5. /\ r \in ActorStates /\ r.pc = "clean" /\ r.op = actor[a].op /\ r.res = res
        /\ r.doc = actor[a].doc /\ r.floor = actor[a].floor
    BY <1>2, <1>3, <1>4 DEF ActorStates, Outcomes
  <1>6. cast.exclusive => Single'
    BY <1>1, PublishingAlone DEF Single
  <1> QED
    BY <1>1, <1>2, <1>3, <1>4, <1>5, <1>6, PublishingAlone, FilesAdvance DEF Between

LEMMA PublishInPlaceAdvance ==
  ASSUME Coherent, NEW a \in Actors, PublishInPlace(a)
  PROVE  Advance(a)
  <1>1. /\ Published(a) /\ actor[a].op = "replace"
        /\ actor[a].doc.place = actor[a].old.place
    BY DEF PublishInPlace, Moves
  <1>2. actor[a].pc = "publish" /\ actor[a] \in ActorStates /\ TypeOK
    BY <1>1, PublishingAlone
  <1>3. PICK res \in {actor[a].res, "durability_failed"} :
          Become(a, [actor[a] EXCEPT !.pc = "clean", !.temp = FALSE, !.res = res])
    <2>1. CASE Become(a, [actor[a] EXCEPT !.pc = "clean", !.temp = FALSE])
      <3>1. [actor[a] EXCEPT !.pc = "clean", !.temp = FALSE] =
              [actor[a] EXCEPT !.pc = "clean", !.temp = FALSE, !.res = actor[a].res]
        BY <1>2 DEF ActorStates
      <3> QED
        BY <2>1, <3>1
    <2> QED
      BY <2>1 DEF PublishInPlace
  <1>4. PICK r : r = [actor[a] EXCEPT !.pc = "clean", !.temp = FALSE, !.res = res]
    OBVIOUS
  <1>5. /\ r \in ActorStates /\ r.pc = "clean" /\ r.op = actor[a].op /\ r.res = res
        /\ r.doc = actor[a].doc /\ r.old = actor[a].old /\ r.floor = actor[a].floor
    BY <1>2, <1>3, <1>4 DEF ActorStates, Outcomes
  <1>6. actor'[a] = r
    BY <1>2, <1>3, <1>4, <1>5, BecomeStep
  <1>7. cast.exclusive /\ ~broken => ExactAfter(a) /\ Single'
    <2>1. SUFFICES ASSUME cast.exclusive, ~broken PROVE Exact(actor[a])' /\ Single'
      BY DEF ExactAfter
    <2>2. /\ Stored' = {actor[a].doc.place} /\ files'[actor[a].doc.place] = actor[a].doc
          /\ res \in {"none", "durability_failed"}
      BY <1>1, <1>3, <2>1, PublishingAlone DEF Holds
    <2> QED
      BY <1>5, <1>6, <2>2 DEF Exact, Chosen, Holds, Single, Between
  <1>8. /\ cast' = cast /\ acked' = acked /\ broken' = broken
        /\ OneWriter => Current'
        /\ r.res \notin {"ok", "readback_mismatch"}
    BY <1>1, <1>3, <1>5, PublishingAlone
  <1>9. Become(a, r) /\ r.pc \notin Between /\ actor[a].op = "replace"
    BY <1>1, <1>3, <1>4, <1>5 DEF Between
  <1>10. /\ actor[a].pc \in {"publish"} \cup Between
         /\ r.pc \in {"clean"} \cup Between
         /\ cast.exclusive /\ ~broken /\ actor[a].op = "replace" =>
              ExactAfter(a) /\ (r.pc = "clean" => Single')
         /\ cast.exclusive /\ ~broken /\ actor[a].op = "create" =>
              Single' /\ r.pc = "clean"
         /\ OneWriter /\ r.pc \in Between => r.doc.version >= acked
    BY <1>2, <1>5, <1>7, <1>9
  <1>11. /\ r \in ActorStates /\ r.op = actor[a].op /\ r.floor = actor[a].floor
         /\ r.doc = actor[a].doc
    BY <1>5
  <1> QED
    BY <1>8, <1>9, <1>10, <1>11, FilesAdvance

LEMMA PublishMoveAdvance ==
  ASSUME Coherent, NEW a \in Actors, PublishMove(a)
  PROVE  Advance(a)
  <1>1. /\ Published(a) /\ actor[a].op = "replace"
        /\ actor[a].doc.place # actor[a].old.place
    BY DEF PublishMove, Moves
  <1>2. actor[a].pc = "publish" /\ actor[a] \in ActorStates /\ TypeOK
    BY <1>1, PublishingAlone
  <1>3. PICK pc \in Between, res \in {actor[a].res, "move_failed"} :
          /\ Become(a, [actor[a] EXCEPT !.pc = pc, !.res = res])
          /\ pc = "unlink" => res = actor[a].res
          /\ pc = "rollback" => res = "move_failed"
    <2>1. CASE Goto(a, "unlink")
      <3>1. [actor[a] EXCEPT !.pc = "unlink"] =
              [actor[a] EXCEPT !.pc = "unlink", !.res = actor[a].res]
        BY <1>2 DEF ActorStates
      <3> QED
        BY <2>1, <3>1 DEF Goto, Between
    <2>2. CASE End(a, "rollback", "move_failed")
      BY <2>2 DEF End, Between
    <2> QED
      BY <2>1, <2>2 DEF PublishMove
  <1>4. PICK r : r = [actor[a] EXCEPT !.pc = pc, !.res = res]
    OBVIOUS
  <1>5. /\ r \in ActorStates /\ r.pc = pc /\ r.op = actor[a].op /\ r.res = res
        /\ r.doc = actor[a].doc /\ r.old = actor[a].old /\ r.floor = actor[a].floor
    BY <1>2, <1>3, <1>4 DEF ActorStates, Outcomes, Between
  <1>6. actor'[a] = r
    BY <1>2, <1>3, <1>4, <1>5, BecomeStep
  <1>7. cast.exclusive /\ ~broken => ExactAfter(a)
    <2>1. SUFFICES ASSUME cast.exclusive, ~broken PROVE Exact(actor[a])'
      BY DEF ExactAfter
    <2>2. /\ Stored' = {actor[a].old.place, actor[a].doc.place}
          /\ files'[actor[a].doc.place] = actor[a].doc
          /\ files'[actor[a].old.place] = actor[a].old
          /\ actor[a].res = "none"
      BY <1>1, <2>1, PublishingAlone DEF Holds
    <2> QED
      BY <1>1, <1>3, <1>5, <1>6, <2>2 DEF Exact, HoldsBoth, Between
  <1> QED
    BY <1>1, <1>2, <1>3, <1>4, <1>5, <1>7, PublishingAlone, FilesAdvance DEF Between

(* A move that takes away one of its two files. *)
LEMMA RemovingAdvance ==
  ASSUME Coherent, NEW a \in Actors, Unlink(a) \/ Rollback(a)
  PROVE  Advance(a)
  <1>1. /\ actor[a].pc \in Between
        /\ cast' = cast /\ acked' = acked /\ broken' = broken
    BY DEF Unlink, Rollback, Between
  <1>2. /\ TypeOK /\ actor[a] \in ActorStates
        /\ actor[a].res \notin {"ok", "readback_mismatch"}
        /\ actor[a].op = "replace" /\ Stored # {}
    <2>1. actor[a].op = "replace" /\ Stored # {}
      BY <1>1 DEF Coherent, IInv, ActorsOK, RequestOK, BaseOK
    <2> QED
      BY <1>1, <2>1, Before DEF Ordered, Between
  <1>3. PICK p : p = IF actor[a].pc = "unlink" THEN actor[a].old.place
                      ELSE actor[a].doc.place
    OBVIOUS
  <1>4. files' = Drop(p)
    BY <1>3 DEF Unlink, Rollback
  <1>5. PICK res \in {actor[a].res, "durability_failed"} :
          /\ Become(a, [actor[a] EXCEPT !.pc = "clean", !.res = res])
          /\ actor[a].pc = "rollback" => res = actor[a].res
    <2>1. CASE Goto(a, "clean")
      <3>1. [actor[a] EXCEPT !.pc = "clean"] =
              [actor[a] EXCEPT !.pc = "clean", !.res = actor[a].res]
        BY <1>2 DEF ActorStates
      <3> QED
        BY <2>1, <3>1 DEF Goto
    <2>2. CASE Unlink(a) /\ End(a, "clean", "durability_failed")
      BY <2>2 DEF End, Unlink
    <2> QED
      BY <2>1, <2>2 DEF Unlink, Rollback
  <1>6. PICK r : r = [actor[a] EXCEPT !.pc = "clean", !.res = res]
    OBVIOUS
  <1>7. /\ r \in ActorStates /\ r.pc = "clean" /\ r.op = actor[a].op /\ r.res = res
        /\ r.doc = actor[a].doc /\ r.old = actor[a].old /\ r.floor = actor[a].floor
    BY <1>2, <1>5, <1>6 DEF ActorStates, Outcomes
  <1>8. actor'[a] = r
    BY <1>2, <1>5, <1>6, <1>7, BecomeStep
  <1>9. /\ Stored' = Stored \ {p}
        /\ \A q \in Stored : q # p => files'[q] = files[q]
    BY <1>2, <1>4, DropFiles
  <1>10. cast.exclusive /\ ~broken => ExactAfter(a) /\ Single'
    <2>1. SUFFICES ASSUME cast.exclusive, ~broken PROVE Exact(actor[a])' /\ Single'
      BY DEF ExactAfter
    <2>2. /\ HoldsBoth(actor[a].old, actor[a].doc)
          /\ actor[a].pc = "unlink" => actor[a].res = "none"
          /\ actor[a].pc = "rollback" => actor[a].res = "move_failed"
      BY <1>1, <1>2, <2>1 DEF Coherent, Exact
    <2>3. CASE actor[a].pc = "unlink"
      <3>1. /\ Stored' = {r.doc.place} /\ files'[r.doc.place] = r.doc
            /\ r.res \in {"none", "durability_failed"}
        BY <1>3, <1>5, <1>7, <1>9, <2>2, <2>3 DEF HoldsBoth
      <3> QED
        BY <1>7, <1>8, <3>1 DEF Exact, Chosen, Holds, Single, Between
    <2>4. CASE actor[a].pc = "rollback"
      <3>1. /\ Stored' = {r.old.place} /\ files'[r.old.place] = r.old
            /\ r.res = "move_failed"
        BY <1>3, <1>5, <1>7, <1>9, <2>2, <2>4 DEF HoldsBoth
      <3> QED
        BY <1>7, <1>8, <3>1 DEF Exact, Chosen, Holds, Single, Between
    <2> QED
      BY <1>1, <2>3, <2>4 DEF Between
  <1>11. OneWriter => Current'
    <2>1. Stored' # {}
      <3>1. IInv' /\ Kept
        BY UnlinkStep, RollbackStep DEF Coherent
      <3> QED
        BY <1>2, <3>1 DEF Kept
    <2> QED
      BY <1>1, <1>9, <2>1 DEF Coherent, Current
  <1> QED
    BY <1>1, <1>2, <1>5, <1>6, <1>7, <1>10, <1>11, FilesAdvance DEF Between

-----------------------------------------------------------------------------
(* What the step of a means for everybody. *)
LEMMA NextAdvance ==
  ASSUME Coherent, Next
  PROVE  \E a \in Actors : Advance(a)
  <1>1. PICK a \in Actors :
          \/ \E op \in {"create", "read", "replace"} : Begin(a, op)
          \/ Reading(a) \/ Preparing(a) \/ Publishing(a) \/ Removing(a) \/ Ending(a)
    BY DEF Next
  <1>2. CASE \E op \in {"create", "read", "replace"} : Begin(a, op)
    BY <1>2, BeginAdvance
  <1>3. CASE Reading(a)
    BY <1>3, ScanAdvance, ReadRefusedAdvance, ReadFailsAdvance, ReadAdvance,
       ReadBackAdvance DEF Reading
  <1>4. CASE Preparing(a)
    BY <1>4, ReplaceRefusedAdvance, ReplaceAcceptedAdvance, WriteRefusedAdvance,
       WriteTemporaryAdvance, WriteFailsAdvance DEF Preparing
  <1>5. CASE Publishing(a)
    BY <1>5, NotPublishedAdvance, PublishCreateAdvance, PublishInPlaceAdvance,
       PublishMoveAdvance DEF Publishing
  <1>6. CASE Removing(a)
    BY <1>6, RemovingAdvance, UnlinkFailsAdvance, RollbackFailsAdvance DEF Removing
  <1>7. CASE Ending(a)
    BY <1>7, CleanAdvance, ReportAdvance, CrashAdvance DEF Ending
  <1> QED
    BY <1>1, <1>2, <1>3, <1>4, <1>5, <1>6, <1>7

(* Whoever works undisturbed at b finds the files as they were after the   *)
(* step of another.                                                        *)
LEMMA OthersUndisturbed ==
  ASSUME Coherent, IInv', NEW a \in Actors, NEW b \in Actors, b # a, Advance(a)
  PROVE  /\ actor'[b] = actor[b]
         /\ Sole(b) /\ actor[b].pc # "idle" =>
              ~cast.exclusive /\ files' = files /\ acked' = acked
  <1>1. actor'[b] = actor[b]
    BY DEF Advance
  <1>2. ASSUME Sole(b), actor[b].pc # "idle"
        PROVE  ~cast.exclusive /\ files' = files /\ acked' = acked
    <2>1. ~cast.exclusive
      BY <1>2 DEF Advance
    <2>2. a \notin Writers
      BY <1>2, <2>1 DEF Sole
    <2>3. actor[a].op \in {"create", "read", "replace"}
      BY DEF Coherent, IInv, TypeOK, ActorStates
    <2>4. actor[a].op = "read"
      BY <2>2, <2>3 DEF Writers, Coherent, Roles, RoleOK
    <2> QED
      BY <2>1, <2>4 DEF Advance
  <1> QED
    BY <1>1, <1>2

LEMMA NextCoherent ==
  ASSUME Coherent, [Next]_vars
  PROVE  Coherent'
  <1>1. IInv'
    BY NextIInv DEF Coherent
  <1>2. CASE UNCHANGED vars
    <2>1. /\ cast' = cast /\ files' = files /\ actor' = actor /\ acked' = acked
          /\ broken' = broken /\ Stored' = Stored
      BY <1>2 DEF vars, Stored
    <2>2. Turns' /\ Roles' /\ Writers' = Writers
      BY <2>1 DEF Coherent, Turns, Roles, RoleOK, Writers
    <2>3. \A a \in Actors :
            /\ Ordered(actor[a])' /\ Sole(a)' = Sole(a)
            /\ Found(actor[a])' = Found(actor[a])
      BY <2>1, <2>2 DEF Coherent, Ordered, Sole, Found
    <2>4. \A a \in Actors : /\ Exact(actor[a])' = Exact(actor[a])
                            /\ Recent(actor[a])' = Recent(actor[a])
      BY <2>1 DEF Exact, Chosen, Holds, HoldsBoth, Recent
    <2>5. /\ Pending' = Pending /\ Single' = Single
          /\ OneWriter' = OneWriter /\ Current' = Current
      BY <2>1, <2>2 DEF Pending, Single, OneWriter, Current
    <2> QED
      BY <1>1, <2>1, <2>2, <2>3, <2>4, <2>5 DEF Coherent
  <1>3. CASE Next
    <2>1. PICK a \in Actors : Advance(a)
      BY <1>3, NextAdvance
    <2>2. /\ Writers' = Writers /\ OneWriter' = OneWriter
          /\ \A b \in Actors : Sole(b)' = Sole(b)
      BY <2>1 DEF Advance, Writers, OneWriter, Sole
    <2>3. Turns'
      BY <2>1 DEF Advance, Coherent, Turns
    <2>4. Roles'
      BY <2>1 DEF Advance, Coherent, Roles, RoleOK
    <2>5. ASSUME NEW b \in Actors PROVE Ordered(actor[b])'
      BY <2>1, <2>5 DEF Advance, Coherent, Ordered
    <2>6. ASSUME NEW b \in Actors, Sole(b) PROVE Found(actor[b])'
      <3>1. CASE b = a
        BY <2>1, <2>6, <3>1 DEF Advance
      <3>2. CASE b # a /\ actor[b].pc = "idle"
        BY <2>1, <3>2, <1>1, OthersUndisturbed DEF Found
      <3>3. CASE b # a /\ actor[b].pc # "idle"
        <4>1. actor'[b] = actor[b] /\ files' = files
          BY <2>1, <2>6, <3>3, <1>1, OthersUndisturbed
        <4> QED
          BY <2>6, <4>1 DEF Coherent, Found, Stored
      <3> QED
        BY <3>1, <3>2, <3>3
    <2>7. ASSUME cast.exclusive, ~broken'
          PROVE  /\ \A b \in Actors : actor'[b].op = "replace" => Exact(actor[b])'
                 /\ Pending' = {} => Single'
      <3>1. ASSUME NEW b \in Actors, b # a PROVE Exact(actor[b])'
        BY <2>1, <2>7, <3>1 DEF Advance, Exact, Between
      <3> QED
        BY <2>1, <2>7, <3>1 DEF Advance
    <2>8. ASSUME OneWriter, NEW b \in Actors PROVE Recent(actor[b])'
      <3>1. CASE b = a
        BY <2>1, <2>8, <3>1 DEF Advance
      <3>2. CASE b # a
        <4>1. actor'[b] = actor[b] /\ Recent(actor[b]) /\ Ordered(actor[b])
          BY <2>1, <2>8, <3>2, <1>1, OthersUndisturbed DEF Coherent
        <4>2. actor[b] \in ActorStates /\ acked \in Nat
              /\ acked' \in Nat /\ actor[b].floor \in Nat
          BY <1>1 DEF Coherent, IInv, TypeOK, ActorStates
        <4>3. actor'[b].floor <= acked'
          BY <2>1, <4>1, <4>2 DEF Advance, Recent
        <4>4. CASE actor[b].op = "read"
          BY <4>1, <4>3, <4>4 DEF Recent
        <4>5. CASE actor[b].op # "read" /\ actor[b].pc = "idle"
          BY <4>1, <4>3, <4>5 DEF Recent, Ordered, Between
        <4>6. CASE actor[b].op # "read" /\ actor[b].pc # "idle"
          <5>1. files' = files /\ acked' = acked
            BY <2>1, <2>8, <3>2, <4>6, <1>1, Before, OthersUndisturbed
          <5> QED
            BY <4>1, <5>1 DEF Recent, Holds, Stored
        <4> QED
          BY <4>4, <4>5, <4>6
      <3> QED
        BY <3>1, <3>2
    <2>9. OneWriter => Current'
      BY <2>1 DEF Advance
    <2>10. cast' = cast
      BY <2>1 DEF Advance
    <2> QED
      BY <1>1, <2>2, <2>3, <2>4, <2>5, <2>6, <2>7, <2>8, <2>9, <2>10 DEF Coherent
  <1> QED
    BY <1>2, <1>3

LEMMA InitCoherent == Init => Coherent
  <1>1. SUFFICES ASSUME Init PROVE Coherent
    OBVIOUS
  <1>2. \A a \in Actors : actor[a] = Idle
    BY <1>1 DEF Init
  <1>3. Stored = {} /\ acked = 0
    BY <1>1 DEF Init, Stored
  <1>4. Turns /\ Roles /\ \A a \in Actors : Ordered(actor[a])
    BY <1>2, IdleFacts DEF Turns, Roles
  <1>5. \A a \in Actors : Found(actor[a]) /\ Recent(actor[a])
    BY <1>2, <1>3, IdleFacts
  <1>6. \A a \in Actors : actor[a].op # "replace"
    BY <1>2, IdleFacts
  <1>7. Single /\ Current
    BY <1>3 DEF Single, Current
  <1> QED
    BY <1>1, <1>4, <1>5, <1>6, <1>7, InitIInv DEF Coherent

(* The stronger inductive invariant: what a process that nobody disturbs   *)
(* knows of the files.                                                     *)
THEOREM UndisturbedInvariant == Spec => []Coherent
  <1>1. Coherent /\ [Next]_vars => Coherent'
    BY NextCoherent
  <1> QED
    BY <1>1, InitCoherent, PTL DEF Spec

(* Under the discipline, a replacement reported as stored is what is on    *)
(* disk, one reported as failed left what was there.                       *)
THEOREM AloneAllOrNothing == Spec => []ReplaceIsAllOrNothing
  <1>1. ASSUME Coherent PROVE ReplaceIsAllOrNothing
    <2>1. SUFFICES ASSUME cast.exclusive, NEW a \in Actors,
                          Reported(a, "replace"), actor[a].old # NoDocument, ~broken
          PROVE  LET kept == IF actor[a].res \in {"ok", "durability_failed"}
                               THEN {actor[a].doc}
                             ELSE IF actor[a].res = "readback_mismatch"
                               THEN {actor[a].doc, actor[a].old}
                             ELSE {actor[a].old}
                 IN  Cardinality(Stored) = 1 /\ \A p \in Stored : files[p] \in kept
      BY DEF ReplaceIsAllOrNothing
    <2>2. Chosen(actor[a], {"ok", "durability_failed", "readback_mismatch"})
      BY <1>1, <2>1 DEF Coherent, Exact, Reported
    <2>3. PICK d : Holds(d) /\ d = IF actor[a].res \in {"ok", "durability_failed",
                                          "readback_mismatch"}
                                     THEN actor[a].doc ELSE actor[a].old
      BY <2>2 DEF Chosen
    <2>4. Cardinality(Stored) = 1
      BY <2>3, FS_Singleton DEF Holds
    <2> QED
      BY <2>3, <2>4 DEF Holds
  <1> QED
    BY <1>1, UndisturbedInvariant, PTL

(* Beside one writer, a read that succeeds is no older than what had been  *)
(* acknowledged when it began.                                             *)
THEOREM FreshReads == Spec => []ReadsAreFresh
  <1>1. ASSUME Coherent PROVE ReadsAreFresh
    <2>1. SUFFICES ASSUME Cardinality(Writers) = 1, NEW a \in Actors,
                          Reported(a, "read"), actor[a].res = "ok"
                   PROVE  actor[a].old.version >= actor[a].floor
      BY DEF ReadsAreFresh, Writers
    <2>2. cast \in Casts
      BY <1>1 DEF Coherent, IInv, TypeOK
    <2>3. Writers \subseteq Actors
      BY <2>2, ConstantsAssumption DEF Writers
    <2>4. \E w : Writers = {w}
      BY <2>1, <2>3, ConstantsAssumption, FS_Subset, FS_Singleton
    <2>5. OneWriter
      BY <2>3, <2>4 DEF OneWriter
    <2> QED
      BY <1>1, <2>1, <2>5 DEF Coherent, Recent, Reported
  <1> QED
    BY <1>1, UndisturbedInvariant, PTL
=============================================================================
