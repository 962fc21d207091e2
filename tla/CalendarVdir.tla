---------------------------- MODULE CalendarVdir ----------------------------
(***************************************************************************)
(* One calendar collection: a directory of .ics files (adapters/khal), the *)
(* processes that show, list, create, modify and cancel its events, and    *)
(* vdirsyncer, which changes the same files for the other side.  An event  *)
(* is found by reading every file, rewritten from what was read, and       *)
(* renamed over whatever is there by then; nothing takes a lock.           *)
(*                                                                         *)
(* The text of an event stands for its summary, timing, description and    *)
(* location, and is named after who gave it.  Temporary files are hidden   *)
(* from every scan and left out.                                           *)
(***************************************************************************)
EXTENDS Naturals, FiniteSets

CONSTANTS
  Processes, \* processes with a calendar provider
  Outside,   \* the author of what vdirsyncer brings
  Uids,      \* event identifiers; LEA names a file after the identifier
  Others,    \* file names of other origin
  Position,  \* the order of file names
  Foreign,   \* a file that is no single event: recurring, oversized, garbled
  Casts      \* the ways the directory may be used: see cast

Names == Uids \cup Others
Authors == Processes \cup {Outside}
Events == [uid : Uids, text : Authors, cancelled : BOOLEAN]

ASSUME ConstantsAssumption ==
  /\ Outside \notin Processes \cup Names
  /\ Uids \cap Others = {}
  /\ Foreign \notin Events
  /\ Position \in [Names -> Nat]
  /\ Casts \subseteq
       [users : SUBSET Processes, sync : BOOLEAN, exclusive : BOOLEAN, most : Nat]

VARIABLES
  cast,      \* which processes there are, whether vdirsyncer runs, whether one
             \* at a time, and the bound on faults and changes by vdirsyncer
  items,     \* the files of the collection, by name
  proc,      \* what each process is doing
  drawn,     \* identifiers in use, here or outside
  created,   \* events reported as created
  cancelled, \* events reported as cancelled
  touched,   \* events changed or removed by vdirsyncer
  faults,    \* crashes and failed system calls
  syncs      \* changes by vdirsyncer

vars == <<cast, items, proc, drawn, created, cancelled, touched, faults, syncs>>

Stored == DOMAIN items
Contents == Events \cup {Foreign}

NoEvent == [uid |-> Outside, text |-> Outside, cancelled |-> FALSE]

Readings == UNION {[S -> Events] : S \in SUBSET Names}
Outcomes == {"none", "ok", "refused", "not_found", "duplicate", "failed",
             "readback_failed"}

(* A process: where it is, the operation and the event it is about, the    *)
(* files still to be read, the identifiers met so far, what was read in    *)
(* the files that hold its event, the file it changes, what it last read   *)
(* there and what goes into it, the outcome, whether restoring the file    *)
(* failed, and whether the event was reported as created before.           *)
Process == [pc : {"idle", "look", "publish", "readback", "restore", "report"},
            op : {"show", "list", "create", "modify", "cancel"},
            uid : Uids \cup {Outside}, left : SUBSET Names, ids : SUBSET Uids,
            seen : Readings, name : Names \cup {Outside},
            orig : Contents \cup {NoEvent}, new : Events \cup {NoEvent},
            res : Outcomes, spoilt : BOOLEAN, known : BOOLEAN]

Idle == [pc |-> "idle", op |-> "show", uid |-> Outside, left |-> {},
         ids |-> {}, seen |-> [n \in {} |-> NoEvent], name |-> Outside,
         orig |-> NoEvent, new |-> NoEvent, res |-> "none",
         spoilt |-> FALSE, known |-> FALSE]

(* A process that is about to change, has changed or restores a file.      *)
Changer(p) == proc[p].pc \in {"publish", "readback", "restore"}

TypeOK ==
  /\ cast \in Casts
  /\ Stored \subseteq Names
  /\ items \in [Stored -> Contents]
  /\ proc \in [Processes -> Process]
  /\ \A p \in Processes :
       /\ proc[p].pc # "idle" => proc[p].uid \in Uids
       /\ Changer(p) => /\ proc[p].op \in {"create", "modify", "cancel"}
                        /\ proc[p].name \in Names
                        /\ proc[p].new \in Events /\ proc[p].new.uid = proc[p].uid
  /\ drawn \subseteq Uids
  /\ created \subseteq drawn
  /\ cancelled \subseteq drawn
  /\ touched \subseteq drawn
  /\ faults \in Nat /\ syncs \in Nat /\ faults + syncs <= cast.most

Init ==
  /\ cast \in Casts
  /\ items = [n \in {} |-> NoEvent]
  /\ proc = [p \in Processes |-> Idle]
  /\ drawn = {}
  /\ created = {}
  /\ cancelled = {}
  /\ touched = {}
  /\ faults = 0
  /\ syncs = 0

-----------------------------------------------------------------------------
Fault == faults + syncs < cast.most /\ faults' = faults + 1

Quiet == \A p \in Processes : proc[p] = Idle

Become(p, r) == proc' = [proc EXCEPT ![p] = r]
Goto(p, pc) == Become(p, [proc[p] EXCEPT !.pc = pc])
End(p, res) ==
  Become(p, [proc[p] EXCEPT !.pc = "report", !.res = res, !.left = {}, !.ids = {}])

Put(n, e) == [m \in Stored \cup {n} |-> IF m = n THEN e ELSE items[m]]
Drop(n) == [m \in Stored \ {n} |-> items[m]]

Keeps == UNCHANGED <<cast, drawn, created, cancelled, touched, syncs>>

Changes(p) == proc[p].op \in {"modify", "cancel"}

(* show, list, modify and cancel look for their event first (the event     *)
(* given to list is the one a reader of its answer looks for): the         *)
(* directory is listed, and its files are read one after the other.  An    *)
(* identifier never in use would only not be found.                        *)
BeginSearch(p, op, u) ==
  /\ proc[p].pc = "idle"
  /\ p \in cast.users /\ (cast.exclusive => Quiet)
  /\ op \in {"show", "list", "modify", "cancel"} /\ u \in drawn
  /\ Become(p, [Idle EXCEPT !.pc = "look", !.op = op, !.uid = u, !.left = Stored,
                            !.known = op \in {"show", "list"} /\ u \in created])
  /\ UNCHANGED <<items, faults>> /\ Keeps

(* create draws a fresh identifier. *)
BeginCreate(p, u) ==
  /\ proc[p].pc = "idle"
  /\ p \in cast.users /\ (cast.exclusive => Quiet)
  /\ u \notin drawn
  /\ drawn' = drawn \cup {u}
  /\ Become(p, [Idle EXCEPT !.pc = "publish", !.op = "create", !.uid = u, !.name = u,
       !.new = [uid |-> u, text |-> p, cancelled |-> FALSE]])
  /\ UNCHANGED <<cast, items, created, cancelled, touched, faults, syncs>>

-----------------------------------------------------------------------------
(* Finding an event. *)

IsEvent(n) == n \in Stored /\ items[n] # Foreign

Holds(n, u) == IsEvent(n) /\ items[n].uid = u

NextFile(p, n) ==
  /\ proc[p].pc = "look"
  /\ n \in proc[p].left
  /\ \A m \in proc[p].left : Position[n] <= Position[m]

(* A file that is gone since or is no event refuses the whole operation,   *)
(* and so does a collection or a file that cannot be read.                 *)
LookRefused(p) ==
  /\ proc[p].pc = "look"
  /\ \/ Fault
     \/ /\ \E n \in Names : NextFile(p, n) /\ ~IsEvent(n)
        /\ UNCHANGED faults
  /\ End(p, "refused")
  /\ UNCHANGED items /\ Keeps

LookDuplicate(p) ==
  /\ proc[p].op = "list"
  /\ \E n \in Stored : /\ NextFile(p, n)
                       /\ IsEvent(n)
                       /\ items[n].uid \in proc[p].ids
  /\ End(p, "duplicate")
  /\ UNCHANGED <<items, faults>> /\ Keeps

(* Faulty variant: the identifiers are not compared. *)
IsWantedAlways(p, e) == e = e

IsWanted(p, e) == e.uid = proc[p].uid

(* list keeps every identifier, the others the events with theirs.         *)
Look(p) ==
  /\ \E n \in Stored :
       /\ NextFile(p, n)
       /\ IsEvent(n)
       /\ items[n].uid \notin proc[p].ids
       /\ Become(p, [proc[p] EXCEPT
            !.left = @ \ {n},
            !.ids = IF proc[p].op = "list" THEN @ \cup {items[n].uid} ELSE {},
            !.seen = IF IsWanted(p, items[n])
                     THEN [m \in DOMAIN @ \cup {n} |-> IF m = n THEN items[n] ELSE @[m]]
                     ELSE @])
  /\ UNCHANGED <<items, faults>> /\ Keeps

Matches(p) == DOMAIN proc[p].seen
Searched(p) == proc[p].pc = "look" /\ proc[p].left = {}

NotFound(p) ==
  /\ Searched(p)
  /\ proc[p].op # "list"
  /\ Cardinality(Matches(p)) # 1
  /\ End(p, IF Matches(p) = {} THEN "not_found" ELSE "duplicate")
  /\ UNCHANGED <<items, faults>> /\ Keeps

(* show and list are done, and so is cancelling what is cancelled already. *)
Answer(p) ==
  /\ Searched(p)
  /\ \/ proc[p].op = "list"
     \/ \E n \in Matches(p) :
          /\ Matches(p) = {n}
          /\ \/ proc[p].op = "show"
             \/ proc[p].op = "cancel" /\ proc[p].seen[n].cancelled
  /\ End(p, "ok")
  /\ UNCHANGED <<items, faults>> /\ Keeps

-----------------------------------------------------------------------------
(* Changing a file. *)

(* Faulty variant: a modified event starts a new life. *)
UpdatedAfresh(p, e) ==
  IF proc[p].op = "cancel" THEN [e EXCEPT !.cancelled = TRUE]
  ELSE [e EXCEPT !.text = p, !.cancelled = FALSE]

(* The event that will replace e: a new text, or the same cancelled.       *)
Updated(p, e) ==
  IF proc[p].op = "cancel" THEN [e EXCEPT !.cancelled = TRUE]
  ELSE [e EXCEPT !.text = p]

Found(p, n) ==
  /\ Searched(p)
  /\ Changes(p)
  /\ Matches(p) = {n}
  /\ proc[p].op = "cancel" => ~proc[p].seen[n].cancelled

(* The process, with the bytes now in file n, and the new text staged.     *)
Staged(p, n) ==
  [proc[p] EXCEPT !.pc = "publish", !.name = n, !.orig = items[n],
                  !.new = Updated(p, proc[p].seen[n]), !.seen = Idle.seen]

(* The bytes of the file are kept, and its replacement, made from what was *)
(* read before, is written beside it and parsed.                           *)
Stage(p) ==
  /\ \E n \in Stored : Found(p, n) /\ Become(p, Staged(p, n))
  /\ UNCHANGED <<items, faults>> /\ Keeps

(* The file is gone, cannot be read or the replacement not be written; or  *)
(* what was written does not parse as what was meant.                      *)
StageFails(p) ==
  /\ \/ /\ \E n \in Names \ Stored : Found(p, n)
        /\ UNCHANGED faults
        /\ End(p, "failed")
     \/ /\ \E n \in Names : Found(p, n)
        /\ Fault
        /\ \E res \in {"failed", "readback_failed"} : End(p, res)
  /\ UNCHANGED items /\ Keeps

PublishFails(p) ==
  /\ proc[p].pc = "publish"
  /\ Fault
  /\ End(p, "failed")
  /\ UNCHANGED items /\ Keeps

(* os.link for a new event (its name, drawn at random, is free),           *)
(* os.replace for a changed one.                                           *)
Publish(p) ==
  /\ proc[p].pc = "publish"
  /\ items' = Put(proc[p].name, proc[p].new)
  /\ Goto(p, "readback")
  /\ UNCHANGED faults /\ Keeps

(* The directory cannot be synchronised, or before that the temporary file *)
(* of a new event not be unlinked: the operation ends as failed, with its  *)
(* event in place.                                                         *)
SettleFails(p) ==
  /\ proc[p].pc = "readback"
  /\ Fault
  /\ End(p, "failed")
  /\ UNCHANGED items /\ Keeps

(* What is there now against what was meant; a new event only has to       *)
(* parse.                                                                  *)
ReadsBack(p) ==
  /\ proc[p].name \in Stored
  /\ IF proc[p].op = "create" THEN items[proc[p].name] # Foreign
     ELSE items[proc[p].name] = proc[p].new

ReadBack(p) ==
  /\ proc[p].pc = "readback"
  /\ ReadsBack(p)
  /\ End(p, "ok")
  /\ UNCHANGED <<items, faults>> /\ Keeps

ReadBackFails(p) ==
  /\ proc[p].pc = "readback"
  /\ IF ReadsBack(p) THEN Fault ELSE UNCHANGED faults
  /\ Goto(p, "restore")
  /\ UNCHANGED items /\ Keeps

(* Faulty variants: a changed event is removed like a new one; nothing is  *)
(* restored.                                                               *)
RestoreByRemoving(p) ==
  /\ proc[p].pc = "restore"
  /\ items' = Drop(proc[p].name)
  /\ End(p, "readback_failed")
  /\ UNCHANGED faults /\ Keeps

RestoreNothing(p) ==
  /\ proc[p].pc = "restore"
  /\ End(p, "readback_failed")
  /\ UNCHANGED <<items, faults>> /\ Keeps

(* A new event is removed, a changed file gets its bytes back, over        *)
(* whatever is there.                                                      *)
Restore(p) ==
  /\ proc[p].pc = "restore"
  /\ items' = IF proc[p].op = "create" THEN Drop(proc[p].name)
              ELSE Put(proc[p].name, proc[p].orig)
  /\ End(p, "readback_failed")
  /\ UNCHANGED faults /\ Keeps

(* That fails without a word. *)
RestoreFails(p) ==
  /\ proc[p].pc = "restore"
  /\ Fault
  /\ Become(p, [proc[p] EXCEPT !.pc = "report", !.res = "readback_failed",
                               !.spoilt = TRUE])
  /\ UNCHANGED items /\ Keeps

Reports(p, op) == proc[p].op = op /\ proc[p].res = "ok"

Report(p) ==
  /\ proc[p].pc = "report"
  /\ Become(p, Idle)
  /\ created' = IF Reports(p, "create") THEN created \cup {proc[p].uid} ELSE created
  /\ cancelled' = IF Reports(p, "cancel") THEN cancelled \cup {proc[p].uid}
                                          ELSE cancelled
  /\ UNCHANGED <<cast, items, drawn, touched, faults, syncs>>

(* The process ends; the directory stays as it is. *)
Crash(p) ==
  /\ proc[p].pc \notin {"idle", "report"}
  /\ Fault
  /\ Become(p, Idle)
  /\ UNCHANGED items /\ Keeps

-----------------------------------------------------------------------------
(* vdirsyncer: every file it writes or removes appears or goes at once.    *)

Syncs ==
  /\ cast.sync
  /\ cast.exclusive => Quiet
  /\ faults + syncs < cast.most
  /\ syncs' = syncs + 1
  /\ UNCHANGED <<cast, proc, created, cancelled, faults>>

Touch(n) ==
  touched' = touched \cup (IF items[n] = Foreign THEN {} ELSE {items[n].uid})

(* A new event, or one it removed and brings back under whatever name.     *)
SyncAdds(n) ==
  /\ Syncs
  /\ n \notin Stored
  /\ \/ \E u \in (Uids \ drawn) \cup touched, c \in BOOLEAN :
          /\ \A m \in Stored : ~Holds(m, u)
          /\ n \in {u} \cup Others
          /\ items' = Put(n, [uid |-> u, text |-> Outside, cancelled |-> c])
          /\ drawn' = drawn \cup {u}
     \/ n \in Others /\ items' = Put(n, Foreign) /\ UNCHANGED drawn
  /\ UNCHANGED touched

SyncChanges(n) ==
  /\ Syncs
  /\ n \in Stored
  /\ Touch(n)
  /\ \/ /\ items[n] # Foreign
        /\ \E c \in BOOLEAN :
             items' = Put(n, [items[n] EXCEPT !.text = Outside, !.cancelled = c])
     \/ items' = Put(n, Foreign)
  /\ UNCHANGED drawn

SyncRemoves(n) ==
  /\ Syncs
  /\ n \in Stored
  /\ Touch(n)
  /\ items' = Drop(n)
  /\ UNCHANGED drawn

-----------------------------------------------------------------------------
Searching(p) == LookRefused(p) \/ LookDuplicate(p) \/ Look(p) \/ NotFound(p) \/ Answer(p)

Changing(p) == \/ Stage(p) \/ StageFails(p) \/ PublishFails(p) \/ Publish(p)
               \/ SettleFails(p) \/ ReadBack(p) \/ ReadBackFails(p)
               \/ Restore(p) \/ RestoreFails(p)

Beginning(p) == \E u \in Uids :
                  \/ BeginCreate(p, u)
                  \/ \E op \in {"show", "list", "modify", "cancel"} : BeginSearch(p, op, u)

Sync == \E n \in Names : SyncAdds(n) \/ SyncChanges(n) \/ SyncRemoves(n)

Next == Sync \/ \E p \in Processes :
                  Beginning(p) \/ Searching(p) \/ Changing(p) \/ Report(p) \/ Crash(p)

Spec == Init /\ [][Next]_vars

-----------------------------------------------------------------------------
(* An event whose creation was reported stays in the calendar, whatever is *)
(* changed, restored, fails or ends at the same time, until vdirsyncer     *)
(* changes or removes it.                                                  *)
CreatedStays == \A u \in created \ touched : Holds(u, u)

(* With one operation at a time, a cancellation that was reported lasts:   *)
(* no later modification, failed or not, brings the event back, until      *)
(* vdirsyncer changes it.                                                  *)
CancelSticks ==
  cast.exclusive => \A u \in cancelled \ touched, n \in Names :
    Holds(n, u) => items[n].cancelled

(* What a change that ended with res may leave in its file.                *)
Explained(p, res) ==
  CASE res = "ok" -> {proc[p].new}
    [] res = "readback_failed" /\ ~proc[p].spoilt -> {proc[p].orig}
    [] OTHER -> {proc[p].orig, proc[p].new}

(* With one operation at a time, what is reported is what is on disk: on   *)
(* success the event that was asked for, on a failed read-back the file as *)
(* it was, on any other failure the one or the other; so an operation that *)
(* is cut short never leaves a third thing.                                *)
OutcomeMatchesDisk ==
  cast.exclusive => \A p \in Processes :
    proc[p].pc = "report" /\ proc[p].new # NoEvent =>
      (IF proc[p].name \in Stored THEN items[proc[p].name] ELSE NoEvent)
        \in Explained(p, proc[p].res)
=============================================================================
