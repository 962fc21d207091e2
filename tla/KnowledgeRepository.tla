------------------------ MODULE KnowledgeRepository ------------------------
(***************************************************************************)
(* The files of one knowledge document (knowledge/repository.py) and the   *)
(* processes that create, read, replace and move it.  A file is named      *)
(* after the type, the title and the identifier of its document, so a new  *)
(* type or title moves the document to another file; every operation finds *)
(* the document by scanning the type directories one after the other for   *)
(* its identifier, with no lock.                                           *)
(*                                                                         *)
(* What a caller asks for does not depend on the files, so a request is    *)
(* chosen at the step that first looks at it.  The timestamps of a         *)
(* document are left out: their checks may refuse any replacement.         *)
(***************************************************************************)
EXTENDS Naturals, FiniteSets

CONSTANTS
  Actors,     \* processes with a repository on the same root
  Casts,      \* the ways the processes may be used: see cast
  Nobody,     \* stands for no author
  Places,     \* file names the document can have
  Nowhere,    \* stands for no file name
  Directory,  \* the type directory of each file name, by scanning order
  Fsync,      \* the repository's fsync setting
  MaxVersion, \* bound: document versions
  MaxFaults   \* bound: crashes and failed system calls

Versions == 1..MaxVersion

ASSUME ConstantsAssumption ==
  /\ Casts \subseteq [creators : SUBSET Actors, editors : SUBSET Actors,
                      exclusive : BOOLEAN, versions : Versions]
  /\ Nobody \notin Actors /\ Nowhere \notin Places
  /\ IsFiniteSet(Actors) /\ IsFiniteSet(Places)
  /\ Directory \in [Places -> Nat \ {0}]
  /\ Fsync \in BOOLEAN
  /\ MaxVersion \in Nat \ {0} /\ MaxFaults \in Nat

VARIABLES
  cast,    \* who creates, who replaces, whether one at a time, and the highest
           \* version written (a bound, at most MaxVersion); fixed
  files,   \* the documents on disk, by file name
  actor,   \* what each process is doing
  litter,  \* temporary files nobody will remove
  acked,   \* the highest version a create or replace reported as stored
  broken,  \* a move ended with both of its files in place
  faults

vars == <<cast, files, actor, litter, acked, broken, faults>>

Stored == DOMAIN files

(* The author stands for everything else a document says. *)
Documents == [place : Places, version : Versions, author : Actors]
NoDocument == [place |-> Nowhere, version |-> 0, author |-> Nobody]

(* Outcomes: the issue codes of contracts.py, "ok", and "none" so far. *)
Outcomes ==
  {"none", "ok", "not_found", "duplicate_id", "read_failed",
   "version_conflict", "invalid_next_version", "timestamp_refused",
   "destination_exists", "write_failed", "replace_failed", "move_failed",
   "durability_failed", "readback_mismatch"}

(* An actor: where it is, the operation, whether this is the read-back,    *)
(* the next directory to scan, the files found so far, the document read   *)
(* and requested, whether a temporary file of its own is on disk, the      *)
(* outcome, and the acknowledged version when the operation began.         *)
Idle == [pc |-> "idle", op |-> "read", again |-> FALSE, dir |-> 1,
         found |-> {}, old |-> NoDocument, doc |-> NoDocument, temp |-> FALSE,
         res |-> "none", floor |-> 0]

LastDirectory(d) == \A p \in Places : Directory[p] <= d

ActorStates ==
  [pc : {"idle", "scan", "open", "write", "publish", "unlink", "rollback",
         "clean", "report"},
   op : {"create", "read", "replace"}, again : BOOLEAN,
   dir : Nat, found : SUBSET Places,
   old : Documents \cup {NoDocument}, doc : Documents \cup {NoDocument},
   temp : BOOLEAN, res : Outcomes, floor : 0..MaxVersion]

TypeOK ==
  /\ cast \in Casts
  /\ Stored \subseteq Places
  /\ \A p \in Stored : files[p] \in Documents /\ files[p].place = p
  /\ actor \in [Actors -> ActorStates]
  /\ litter \in Nat
  /\ acked \in 0..MaxVersion
  /\ broken \in BOOLEAN
  /\ faults \in 0..MaxFaults

Init ==
  /\ cast \in Casts
  /\ files = [p \in {} |-> NoDocument]
  /\ actor = [a \in Actors |-> Idle]
  /\ litter = 0
  /\ acked = 0
  /\ broken = FALSE
  /\ faults = 0

-----------------------------------------------------------------------------
Fault == faults < MaxFaults /\ faults' = faults + 1

Quiet == \A a \in Actors : actor[a] = Idle

(* The files after d is linked or moved to its name, and after p is gone.  *)
Put(d) == [q \in Stored \cup {d.place} |-> IF q = d.place THEN d ELSE files[q]]
Drop(p) == [q \in Stored \ {p} |-> files[q]]

Become(a, r) == actor' = [actor EXCEPT ![a] = r]

(* The operation of a goes on at pc, without or with an outcome. *)
Goto(a, pc) == Become(a, [actor[a] EXCEPT !.pc = pc])
End(a, pc, res) == Become(a, [actor[a] EXCEPT !.pc = pc, !.res = res])

Moves(a) == actor[a].op = "replace" /\ actor[a].doc.place # actor[a].old.place

Begin(a, op) ==
  /\ actor[a].pc = "idle"
  /\ cast.exclusive => Quiet
  /\ op = "create" => a \in cast.creators
  /\ op = "replace" => a \in cast.editors
  /\ Become(a, [Idle EXCEPT !.pc = "scan", !.op = op, !.floor = acked])
  /\ UNCHANGED <<cast, files, litter, acked, broken, faults>>

(* _matching_paths: one directory is listed. *)
Scan(a) ==
  /\ actor[a].pc = "scan"
  /\ Become(a, [actor[a] EXCEPT
       !.found = @ \cup {p \in Stored : Directory[p] = actor[a].dir},
       !.dir = @ + 1,
       !.pc = IF ~LastDirectory(actor[a].dir) THEN "scan"
              ELSE IF actor[a].op = "create" /\ ~actor[a].again THEN "write"
              ELSE "open"])
  /\ UNCHANGED <<cast, files, litter, acked, broken, faults>>

-----------------------------------------------------------------------------
(* read, once the directories are scanned. *)

Opening(a) == actor[a].pc = "open"

ReadRefused(a) ==
  /\ Opening(a)
  /\ Cardinality(actor[a].found) # 1
  /\ End(a, "report", IF actor[a].again THEN "readback_mismatch"
                      ELSE IF actor[a].found = {} THEN "not_found"
                      ELSE "duplicate_id")
  /\ UNCHANGED <<cast, files, litter, acked, broken, faults>>

(* The file is gone since, or the system fails to read it. *)
ReadFails(a) ==
  /\ Opening(a)
  /\ \E p \in Places :
       /\ actor[a].found = {p}
       /\ IF p \in Stored THEN Fault ELSE UNCHANGED faults
  /\ End(a, "report", IF actor[a].again THEN "readback_mismatch" ELSE "read_failed")
  /\ UNCHANGED <<cast, files, litter, acked, broken>>

Read(a) ==
  /\ Opening(a)
  /\ actor[a].op = "read"
  /\ \E p \in Stored :
       /\ actor[a].found = {p}
       /\ Become(a, [actor[a] EXCEPT !.pc = "report", !.res = "ok",
                                     !.old = files[p]])
  /\ UNCHANGED <<cast, files, litter, acked, broken, faults>>

(* create and replace read back what they stored. *)
ReadBack(a) ==
  /\ Opening(a)
  /\ actor[a].again
  /\ \E p \in Stored :
       /\ actor[a].found = {p}
       /\ End(a, "report", IF files[p] = actor[a].doc THEN "ok"
                           ELSE "readback_mismatch")
  /\ UNCHANGED <<cast, files, litter, acked, broken, faults>>

-----------------------------------------------------------------------------
(* replace: the document on disk against the version the caller expects    *)
(* and the version of its replacement.                                     *)
Refusal(old, expected, version) ==
  IF old.version # expected THEN "version_conflict"
  ELSE IF version # expected + 1 THEN "invalid_next_version"
  ELSE "timestamp_refused"

Replaceable(a, p) ==
  /\ Opening(a)
  /\ actor[a].op = "replace" /\ ~actor[a].again
  /\ p \in Stored /\ actor[a].found = {p}

ReplaceRefused(a) ==
  /\ \E p \in Stored, expected \in Versions, version \in Versions :
       /\ Replaceable(a, p)
       /\ Become(a, [actor[a] EXCEPT !.pc = "report", !.old = files[p],
                       !.res = Refusal(files[p], expected, version)])
  /\ UNCHANGED <<cast, files, litter, acked, broken, faults>>

(* Faulty variant: the version on disk is not compared. *)
ReplaceAcceptedBlindly(a) ==
  /\ \E p \in Stored, expected \in Versions, d \in Documents :
       /\ Replaceable(a, p)
       /\ d.version = expected + 1 /\ d.version <= cast.versions
       /\ d.author = a
       /\ Become(a, [actor[a] EXCEPT !.pc = "write", !.old = files[p], !.doc = d])
  /\ UNCHANGED <<cast, files, litter, acked, broken, faults>>

ReplaceAccepted(a) ==
  /\ \E p \in Stored, expected \in Versions, d \in Documents :
       /\ Replaceable(a, p)
       /\ files[p].version = expected
       /\ d.version = expected + 1 /\ d.version <= cast.versions
       /\ d.author = a
       /\ Become(a, [actor[a] EXCEPT !.pc = "write", !.old = files[p], !.doc = d])
  /\ UNCHANGED <<cast, files, litter, acked, broken, faults>>

-----------------------------------------------------------------------------
(* The destination is checked and the temporary file written beside it.    *)

FailureOf(a) == IF actor[a].op = "create" THEN "write_failed"
                ELSE IF Moves(a) THEN "move_failed" ELSE "replace_failed"

Destination(a) ==
  IF actor[a].op = "replace" THEN {actor[a].doc}
  ELSE {d \in Documents : d.author = a /\ d.version <= cast.versions}

Taken(a, d) ==
  IF actor[a].op = "create" THEN actor[a].found # {} \/ d.place \in Stored
  ELSE Moves(a) /\ d.place \in Stored

WriteRefused(a) ==
  /\ actor[a].pc = "write"
  /\ \E d \in Destination(a) : Taken(a, d)
  /\ End(a, "report", IF actor[a].op = "create" THEN "duplicate_id"
                      ELSE "destination_exists")
  /\ UNCHANGED <<cast, files, litter, acked, broken, faults>>

WriteTemporary(a) ==
  /\ actor[a].pc = "write"
  /\ \E d \in Destination(a) :
       /\ ~Taken(a, d)
       /\ Become(a, [actor[a] EXCEPT !.pc = "publish", !.doc = d, !.temp = TRUE])
  /\ UNCHANGED <<cast, files, litter, acked, broken, faults>>

(* The directory cannot be made or listed, or the temporary file not be    *)
(* written, in which case it is removed again if it can.                   *)
WriteFails(a) ==
  /\ actor[a].pc = "write"
  /\ Fault
  /\ \E res \in {"write_failed", FailureOf(a)}, temp \in BOOLEAN :
       Become(a, [actor[a] EXCEPT !.pc = "report", !.res = res, !.temp = temp])
  /\ UNCHANGED <<cast, files, litter, acked, broken>>

-----------------------------------------------------------------------------
(* Publishing. *)

(* os.link refuses an existing name; os.replace does not look. *)
PublishRefused(a) ==
  /\ actor[a].pc = "publish"
  /\ actor[a].op = "create" \/ Moves(a)
  /\ actor[a].doc.place \in Stored
  /\ End(a, "clean", IF Moves(a) THEN "move_failed" ELSE "duplicate_id")
  /\ UNCHANGED <<cast, files, litter, acked, broken, faults>>

PublishFails(a) ==
  /\ actor[a].pc = "publish"
  /\ Fault
  /\ End(a, "clean", FailureOf(a))
  /\ UNCHANGED <<cast, files, litter, acked, broken>>

(* Faulty variant: a replacement goes to the name it was read from. *)
PublishedInPlace(a) ==
  /\ actor[a].pc = "publish"
  /\ files' = IF actor[a].op = "create" THEN Put(actor[a].doc)
              ELSE [q \in Stored \cup {actor[a].old.place} |->
                      IF q = actor[a].old.place THEN actor[a].doc ELSE files[q]]
  /\ UNCHANGED <<cast, litter, acked, broken>>

Published(a) ==
  /\ actor[a].pc = "publish"
  /\ files' = Put(actor[a].doc)
  /\ UNCHANGED <<cast, litter, acked, broken>>

(* The directory is synchronised after its file; that may fail. *)
Synced == UNCHANGED faults
NotSynced == Fsync /\ Fault

PublishCreate(a) ==
  /\ actor[a].op = "create" /\ actor[a].doc.place \notin Stored
  /\ Published(a)
  /\ \/ Synced /\ Goto(a, "clean")
     \/ NotSynced /\ End(a, "clean", "write_failed")

(* Faulty variant: a failed fsync passes for a failed replacement. *)
PublishInPlaceUnsure(a) ==
  /\ actor[a].op = "replace" /\ ~Moves(a)
  /\ Published(a)
  /\ \/ /\ Synced
        /\ Become(a, [actor[a] EXCEPT !.pc = "clean", !.temp = FALSE])
     \/ /\ NotSynced
        /\ Become(a, [actor[a] EXCEPT !.pc = "clean", !.temp = FALSE,
                                      !.res = "replace_failed"])

(* os.replace takes the temporary file away. *)
PublishInPlace(a) ==
  /\ actor[a].op = "replace" /\ ~Moves(a)
  /\ Published(a)
  /\ \/ /\ Synced
        /\ Become(a, [actor[a] EXCEPT !.pc = "clean", !.temp = FALSE])
     \/ /\ NotSynced
        /\ Become(a, [actor[a] EXCEPT !.pc = "clean", !.temp = FALSE,
                                      !.res = "durability_failed"])

PublishMove(a) ==
  /\ Moves(a) /\ actor[a].doc.place \notin Stored
  /\ Published(a)
  /\ \/ Synced /\ Goto(a, "unlink")
     \/ NotSynced /\ End(a, "rollback", "move_failed")

-----------------------------------------------------------------------------
(* A move removes the file it read... *)
Unlink(a) ==
  /\ actor[a].pc = "unlink"
  /\ actor[a].old.place \in Stored
  /\ files' = Drop(actor[a].old.place)
  /\ \/ Synced /\ Goto(a, "clean")
     \/ /\ Directory[actor[a].old.place] # Directory[actor[a].doc.place]
        /\ NotSynced
        /\ End(a, "clean", "durability_failed")
  /\ UNCHANGED <<cast, litter, acked, broken>>

(* ... or, when that fails or somebody else did it, the file it linked. *)
UnlinkFails(a) ==
  /\ actor[a].pc = "unlink"
  /\ IF actor[a].old.place \in Stored THEN Fault ELSE UNCHANGED faults
  /\ End(a, "rollback", "move_failed")
  /\ UNCHANGED <<cast, files, litter, acked, broken>>

(* Faulty variant: the file that could not be removed goes as well. *)
RollbackBoth(a) ==
  /\ actor[a].pc = "rollback"
  /\ files' = [q \in Stored \ {actor[a].doc.place, actor[a].old.place} |-> files[q]]
  /\ Goto(a, "clean")
  /\ UNCHANGED <<cast, litter, acked, broken, faults>>

Rollback(a) ==
  /\ actor[a].pc = "rollback"
  /\ files' = Drop(actor[a].doc.place)
  /\ Goto(a, "clean")
  /\ UNCHANGED <<cast, litter, acked, broken, faults>>

RollbackFails(a) ==
  /\ actor[a].pc = "rollback"
  /\ Fault
  /\ broken' = TRUE
  /\ Goto(a, "clean")
  /\ UNCHANGED <<cast, files, litter, acked>>

-----------------------------------------------------------------------------
(* The temporary file goes in any case, if it can; what was stored is read *)
(* back unless something failed.                                           *)
AfterClean(a, temp) ==
  IF actor[a].res = "none"
    THEN [actor[a] EXCEPT !.pc = "scan", !.again = TRUE, !.dir = 1, !.found = {},
                          !.temp = temp]
    ELSE [actor[a] EXCEPT !.pc = "report", !.temp = temp]

Clean(a) ==
  /\ actor[a].pc = "clean"
  /\ Become(a, AfterClean(a, FALSE))
  /\ UNCHANGED <<cast, files, litter, acked, broken, faults>>

CleanFails(a) ==
  /\ actor[a].pc = "clean"
  /\ actor[a].temp
  /\ Fault
  /\ Become(a, AfterClean(a, TRUE))
  /\ UNCHANGED <<cast, files, litter, acked, broken>>

(* A temporary file of a left behind. *)
Leave(a) == litter' = IF actor[a].temp THEN litter + 1 ELSE litter

Stores(a) == actor[a].op # "read" /\ actor[a].res = "ok"

Report(a) ==
  /\ actor[a].pc = "report"
  /\ Become(a, Idle)
  /\ Leave(a)
  /\ acked' = IF Stores(a) /\ actor[a].doc.version > acked
                THEN actor[a].doc.version ELSE acked
  /\ UNCHANGED <<cast, files, broken, faults>>

(* The process ends; what is on disk stays. *)
Crash(a) ==
  /\ actor[a].pc # "idle"
  /\ Fault
  /\ Become(a, Idle)
  /\ Leave(a)
  /\ broken' = (broken \/ actor[a].pc \in {"unlink", "rollback"})
  /\ UNCHANGED <<cast, files, acked>>

Reading(a) == Scan(a) \/ ReadRefused(a) \/ ReadFails(a) \/ Read(a) \/ ReadBack(a)

Preparing(a) == \/ ReplaceRefused(a) \/ ReplaceAccepted(a)
                \/ WriteRefused(a) \/ WriteTemporary(a) \/ WriteFails(a)

Publishing(a) == \/ PublishRefused(a) \/ PublishFails(a)
                 \/ PublishCreate(a) \/ PublishInPlace(a) \/ PublishMove(a)

Removing(a) == Unlink(a) \/ UnlinkFails(a) \/ Rollback(a) \/ RollbackFails(a)

Ending(a) == Clean(a) \/ CleanFails(a) \/ Report(a) \/ Crash(a)

Next == \E a \in Actors :
          \/ \E op \in {"create", "read", "replace"} : Begin(a, op)
          \/ Reading(a) \/ Preparing(a) \/ Publishing(a) \/ Removing(a) \/ Ending(a)

Spec == Init /\ [][Next]_vars

-----------------------------------------------------------------------------
(* Moves that have linked their new file and not yet given up either.      *)
Pending == {a \in Actors : actor[a].pc \in {"unlink", "rollback"}}

(* Once on disk a document never leaves it, whatever is moved at the same  *)
(* time and wherever operations fail or end: there is no instant without   *)
(* a file of it (replace links the new file before it unlinks the old).    *)
DocumentNeverVanishes == [][Stored # {} => Stored' # {}]_vars

(* Why: each unfinished move has a file more to its name than the one that *)
(* stays, and takes only one away.                                         *)
MovesKeepACopy == Stored # {} => Cardinality(Stored) >= Cardinality(Pending) + 1

Reported(a, op) == actor[a].pc = "report" /\ actor[a].op = op

(* While nobody else is at work, a replace that reports it stored the      *)
(* document left exactly that, and one that reports it did not left        *)
(* exactly what was there (unless a rollback failed).                      *)
ReplaceIsAllOrNothing ==
  cast.exclusive =>
    \A a \in Actors :
      Reported(a, "replace") /\ actor[a].old # NoDocument /\ ~broken =>
        LET kept == IF actor[a].res \in {"ok", "durability_failed"}
                      THEN {actor[a].doc}
                    ELSE IF actor[a].res = "readback_mismatch"
                      THEN {actor[a].doc, actor[a].old}
                    ELSE {actor[a].old}
        IN  Cardinality(Stored) = 1 /\ \A p \in Stored : files[p] \in kept

(* A read that succeeds while one other process creates, replaces and      *)
(* moves the document returns nothing older than what was acknowledged     *)
(* when the read began.                                                    *)
ReadsAreFresh ==
  Cardinality(cast.creators \cup cast.editors) = 1 =>
    \A a \in Actors :
      Reported(a, "read") /\ actor[a].res = "ok" =>
        actor[a].old.version >= actor[a].floor
=============================================================================
