------------------------- MODULE CalendarVdirProofs -------------------------
(***************************************************************************)
(* For any number of processes, events, failures, crashes and changes by   *)
(* vdirsyncer.  An event whose creation was reported stays in the          *)
(* calendar: a file named after an identifier only ever holds that event,  *)
(* so what is renamed over it or restored into it is the event again; and  *)
(* the one process that may remove it, its creator after a failed          *)
(* read-back, has then reported nothing (IInv).  With one operation at a   *)
(* time a reported cancellation lasts and the outcome tells what is in the *)
(* file: no event is in two files, and a process that works alone knows    *)
(* what is in the one it changes (SoloInv).                                *)
(***************************************************************************)
EXTENDS CalendarVdir, TLAPS

(* What may be in file n: in a file named after an identifier its event,   *)
(* or a foreign file that vdirsyncer made of it.                           *)
Proper(n, c) ==
  IF c = Foreign THEN n \in Uids => n \in touched
  ELSE c.uid \in drawn /\ (n \in Uids => c.uid = n)

Active(r) == r.pc # "idle" => r.uid \in drawn

Reading(r) ==
  \A n \in DOMAIN r.seen : Proper(n, r.seen[n]) /\ r.seen[n].uid = r.uid

Prepared(r) ==
  r.pc \in {"publish", "readback", "restore"} =>
    /\ r.op \in {"create", "modify", "cancel"}
    /\ r.name \in Names
    /\ r.new \in Events /\ r.new.uid = r.uid /\ Proper(r.name, r.new)
    /\ r.op = "create" => r.name = r.uid
    /\ r.op # "create" => r.orig \in Contents /\ Proper(r.name, r.orig)

Creates(r, u) == r.op = "create" /\ r.pc # "idle" /\ r.uid = u

(* A creation is not reported before it ends, and then it is there.        *)
Pledge(r) ==
  /\ \A u \in created : ~Creates(r, u)
  /\ r.op = "create" /\ r.pc = "report" /\ r.res = "ok" =>
       r.uid \in Stored \cup touched

ProcessOK(r) == Active(r) /\ Reading(r) /\ Prepared(r) /\ Pledge(r)

Sets ==
  /\ cast \in Casts
  /\ drawn \subseteq Uids
  /\ created \subseteq drawn
  /\ cancelled \subseteq drawn
  /\ touched \subseteq drawn
  /\ faults \in Nat /\ syncs \in Nat /\ faults + syncs <= cast.most

Disk ==
  /\ Stored \subseteq Names
  /\ items \in [Stored -> Contents]
  /\ \A n \in Stored : Proper(n, items[n])

Procs ==
  /\ proc \in [Processes -> Process]
  /\ \A p \in Processes : ProcessOK(proc[p])

(* No two processes create the same event. *)
Single == \A p, q \in Processes, u \in Uids :
            Creates(proc[p], u) /\ Creates(proc[q], u) => p = q

CreatedThere == created \subseteq Stored \cup touched

IInv == Sets /\ Disk /\ Procs /\ Single /\ CreatedThere

-----------------------------------------------------------------------------
LEMMA IInvImplies ==
  ASSUME IInv
  PROVE  TypeOK /\ CreatedStays
  <1>1. TypeOK
    BY DEF IInv, Sets, Disk, Procs, ProcessOK, Active, Prepared, TypeOK, Changer
  <1>2. CreatedStays
    <2> SUFFICES ASSUME NEW u \in created \ touched
                 PROVE  Holds(u, u)
      BY DEF CreatedStays
    <2>1. u \in Stored /\ u \in Uids
      BY DEF IInv, CreatedThere, Sets
    <2>2. Proper(u, items[u])
      BY <2>1 DEF IInv, Disk
    <2> QED
      BY <2>1, <2>2 DEF Proper, Holds, IsEvent
  <1> QED
    BY <1>1, <1>2

LEMMA IdleOK == Idle \in Process /\ Idle.pc = "idle" /\ DOMAIN Idle.seen = {}
  <1>1. [n \in {} |-> NoEvent] \in Readings
    <2>1. [n \in {} |-> NoEvent] \in [{} -> Events]
      OBVIOUS
    <2> QED
      BY <2>1 DEF Readings
  <1> QED
    BY <1>1 DEF Idle, Process, Outcomes

LEMMA IdleProcessOK == ProcessOK(Idle)
  BY IdleOK DEF ProcessOK, Active, Reading, Prepared, Pledge, Creates, Idle

(* Every step of a process: what it says of itself is sound afterwards,    *)
(* what it creates it was creating before or is new, what is gone from the *)
(* directory vdirsyncer removed or was its own creation, and what is       *)
(* reported is there.                                                      *)
LEMMA ProcessStep ==
  ASSUME IInv, Sets', Disk', NEW p \in Processes, NEW r \in Process, Become(p, r),
         ProcessOK(r)', drawn \subseteq drawn', touched \subseteq touched',
         \A u \in Uids : Creates(r, u) => Creates(proc[p], u) \/ u \notin drawn,
         \A u \in Uids : u \in Stored => u \in Stored' \cup touched' \/ Creates(proc[p], u),
         \A u \in created' : u \in created \/ (Creates(proc[p], u) /\ u \in Stored' \cup touched')
  PROVE  IInv'
  <1>1. /\ proc' \in [Processes -> Process]
        /\ proc'[p] = r
        /\ \A q \in Processes : q # p => proc'[q] = proc[q]
    BY DEF IInv, Procs, Become
  <1>2. ASSUME NEW q \in Processes, q # p
        PROVE  ProcessOK(proc[q])'
    <2>1. proc'[q] = proc[q] /\ ProcessOK(proc[q]) /\ proc[q] \in Process
      BY <1>1, <1>2 DEF IInv, Procs
    <2>2. \A u \in Uids : Creates(proc[q], u) => ~Creates(proc[p], u)
      BY <1>2 DEF IInv, Single
    <2>3. Active(proc[q])'
      BY <2>1 DEF ProcessOK, Active
    <2>4. Reading(proc[q])'
      BY <2>1 DEF ProcessOK, Reading, Proper
    <2>5. Prepared(proc[q])'
      BY <2>1 DEF ProcessOK, Prepared, Proper
    <2>6. \A u \in created' : ~Creates(proc[q]', u)
      BY <2>1, <2>2 DEF ProcessOK, Pledge, Sets
    <2>7. ASSUME proc[q].op = "create", proc[q].pc = "report", proc[q].res = "ok"
          PROVE  proc[q].uid \in Stored' \cup touched'
      <3>1. proc[q].uid \in Uids
        BY <2>1, <2>7 DEF ProcessOK, Active, IInv, Sets
      <3>2. proc[q].uid \in Stored \cup touched
        BY <2>1, <2>7 DEF ProcessOK, Pledge
      <3>3. ~Creates(proc[p], proc[q].uid)
        BY <3>1, <2>2, <2>7 DEF Creates
      <3> QED
        BY <3>1, <3>2, <3>3
    <2>8. Pledge(proc[q])'
      BY <2>1, <2>6, <2>7 DEF Pledge, Creates
    <2> QED
      BY <2>3, <2>4, <2>5, <2>8 DEF ProcessOK
  <1>3. Procs'
    <2>1. ProcessOK(proc[p])'
      BY <1>1 DEF ProcessOK, Active, Reading, Prepared, Pledge, Creates, Proper
    <2> QED
      BY <1>1, <1>2, <2>1 DEF Procs
  <1>4. Single'
    <2> SUFFICES ASSUME NEW q \in Processes, q # p, NEW u \in Uids,
                        Creates(r, u), Creates(proc[q], u)
                 PROVE  FALSE
      BY <1>1 DEF Single, Creates, IInv
    <2>1. u \in drawn
      BY DEF Creates, IInv, Procs, ProcessOK, Active
    <2>2. Creates(proc[p], u)
      BY <2>1
    <2> QED
      BY <2>2 DEF IInv, Single
  <1>5. CreatedThere'
    <2> SUFFICES ASSUME NEW u \in created'
                 PROVE  u \in Stored' \cup touched'
      BY DEF CreatedThere
    <2>1. CASE u \in created
      <3>1. u \in Uids /\ u \in Stored \cup touched /\ ~Creates(proc[p], u)
        BY <2>1 DEF IInv, Sets, CreatedThere, Procs, ProcessOK, Pledge
      <3> QED
        BY <3>1
    <2> QED
      BY <2>1
  <1> QED
    BY <1>3, <1>4, <1>5 DEF IInv

(* A step of an operation in progress, which changes no set.  The disk is  *)
(* left alone in the first case, and changed as told in the second.        *)
LEMMA SetsKept ==
  ASSUME IInv, Keeps, faults' = faults \/ Fault
  PROVE  Sets'
  BY ConstantsAssumption DEF IInv, Sets, Keeps, Fault

LEMMA QuietStep ==
  ASSUME IInv, NEW p \in Processes, NEW r \in Process, Become(p, r),
         UNCHANGED items, Keeps, faults' = faults \/ Fault, ProcessOK(r),
         \A u \in Uids : Creates(r, u) => Creates(proc[p], u)
  PROVE  IInv'
  <1>1. Sets'
    BY SetsKept
  <1>2. Disk'
    BY DEF IInv, Disk, Keeps, Proper, Stored
  <1>3. Stored' = Stored
    BY DEF Stored
  <1>4. ProcessOK(r)'
    BY <1>3 DEF Keeps, ProcessOK, Active, Reading, Prepared, Pledge, Creates, Proper
  <1> QED
    BY <1>1, <1>2, <1>3, <1>4, ProcessStep DEF Keeps

(* An operation ends, having changed nothing with this step. *)
LEMMA EndStep ==
  ASSUME IInv, NEW p \in Processes, NEW res \in Outcomes, End(p, res),
         UNCHANGED items, Keeps, faults' = faults \/ Fault, proc[p].pc # "idle",
         proc[p].op = "create" /\ res = "ok" => proc[p].uid \in Stored
  PROVE  IInv'
  <1> DEFINE r == [proc[p] EXCEPT !.pc = "report", !.res = res, !.left = {}, !.ids = {}]
  <1>1. proc[p] \in Process /\ ProcessOK(proc[p])
    BY DEF IInv, Procs
  <1>2. /\ r \in Process
        /\ r.pc = "report" /\ r.op = proc[p].op /\ r.uid = proc[p].uid
        /\ r.seen = proc[p].seen /\ r.res = res
    BY <1>1 DEF Process
  <1>3. Become(p, r)
    BY DEF End
  <1> HIDE DEF r
  <1>4. ProcessOK(r)
    BY <1>1, <1>2 DEF ProcessOK, Active, Reading, Prepared, Pledge, Creates
  <1>5. \A u \in Uids : Creates(r, u) => Creates(proc[p], u)
    BY <1>2 DEF Creates
  <1> QED
    BY <1>2, <1>3, <1>4, <1>5, QuietStep

(* A process goes on to change or restore what it has prepared. *)
LEMMA GotoStep ==
  ASSUME IInv, NEW p \in Processes, Goto(p, "restore"), proc[p].pc = "readback",
         UNCHANGED items, Keeps, faults' = faults \/ Fault
  PROVE  IInv'
  <1> DEFINE r == [proc[p] EXCEPT !.pc = "restore"]
  <1>1. proc[p] \in Process /\ ProcessOK(proc[p])
    BY DEF IInv, Procs
  <1>2. /\ r \in Process
        /\ r.pc = "restore" /\ r.op = proc[p].op /\ r.uid = proc[p].uid
        /\ r.seen = proc[p].seen /\ r.name = proc[p].name
        /\ r.new = proc[p].new /\ r.orig = proc[p].orig
    BY <1>1 DEF Process
  <1>3. Become(p, r)
    BY DEF Goto
  <1> HIDE DEF r
  <1>4. ProcessOK(r)
    BY <1>1, <1>2 DEF ProcessOK, Active, Reading, Prepared, Pledge, Creates
  <1>5. \A u \in Uids : Creates(r, u) => Creates(proc[p], u)
    BY <1>2 DEF Creates
  <1> QED
    BY <1>2, <1>3, <1>4, <1>5, QuietStep

LEMMA PutDisk ==
  ASSUME IInv, Keeps, NEW n \in Names, NEW c \in Contents, Proper(n, c),
         items' = Put(n, c)
  PROVE  /\ Disk'
         /\ Stored' = Stored \cup {n}
         /\ items'[n] = c
  <1>1. /\ Stored' = Stored \cup {n}
        /\ items' \in [Stored' -> Contents]
        /\ items'[n] = c
        /\ \A m \in Stored : m # n => items'[m] = items[m]
    BY DEF Put, Stored, IInv, Disk
  <1>2. \A m \in Stored' : Proper(m, items'[m])
    BY <1>1 DEF IInv, Disk
  <1>3. \A m \in Stored' : Proper(m, items[m])'
    BY <1>2 DEF Proper, Keeps
  <1> QED
    BY <1>1, <1>3 DEF IInv, Disk

LEMMA DropDisk ==
  ASSUME IInv, drawn' = drawn, touched \subseteq touched', NEW n \in Names,
         items' = Drop(n)
  PROVE  Disk' /\ Stored' = Stored \ {n}
  <1>1. /\ Stored' = Stored \ {n}
        /\ items' \in [Stored' -> Contents]
        /\ \A m \in Stored' : items'[m] = items[m]
    BY DEF Drop, Stored, IInv, Disk
  <1>2. \A m \in Stored' : Proper(m, items[m])'
    BY <1>1 DEF IInv, Disk, Proper
  <1> QED
    BY <1>1, <1>2 DEF IInv, Disk

-----------------------------------------------------------------------------
(* The actions. *)

LEMMA InitStep == Init => IInv
  <1> SUFFICES ASSUME Init PROVE IInv
    OBVIOUS
  <1>1. Sets
    BY ConstantsAssumption DEF Init, Sets
  <1>2. Stored = {}
    BY DEF Init, Stored
  <1>3. Disk
    BY <1>2 DEF Init, Disk, Stored
  <1>4. Procs
    BY IdleOK, IdleProcessOK DEF Init, Procs
  <1>5. Single
    BY IdleOK DEF Init, Single, Creates
  <1>6. CreatedThere
    BY DEF Init, CreatedThere
  <1> QED
    BY <1>1, <1>3, <1>4, <1>5, <1>6 DEF IInv

LEMMA BeginSearchStep ==
  ASSUME IInv, NEW p \in Processes, NEW op, NEW u \in Uids, BeginSearch(p, op, u)
  PROVE  IInv'
  <1> DEFINE known == op \in {"show", "list"} /\ u \in created
             r == [Idle EXCEPT !.pc = "look", !.op = op, !.uid = u, !.left = Stored,
                               !.known = known]
  <1>1. known \in BOOLEAN
    OBVIOUS
  <1>3. Become(p, r) /\ u \in drawn /\ UNCHANGED <<items, faults>> /\ Keeps
    BY DEF BeginSearch
  <1> HIDE DEF known
  <1>2. /\ r \in Process
        /\ r.pc = "look" /\ r.op # "create" /\ r.uid = u /\ r.seen = Idle.seen
    <2>1. op \in {"show", "list", "modify", "cancel"}
      BY DEF BeginSearch
    <2>2. Stored \in SUBSET Names
      BY DEF IInv, Disk
    <2>3. r \in Process
      BY <1>1, <2>1, <2>2, IdleOK DEF Process
    <2>4. r.pc = "look" /\ r.op = op /\ r.uid = u /\ r.seen = Idle.seen
      BY IdleOK DEF Process
    <2> QED
      BY <2>1, <2>3, <2>4
  <1> HIDE DEF r
  <1>4. ProcessOK(r)
    BY <1>2, <1>3, IdleOK DEF ProcessOK, Active, Reading, Prepared, Pledge, Creates
  <1>5. \A v \in Uids : Creates(r, v) => Creates(proc[p], v)
    BY <1>2 DEF Creates
  <1> QED
    BY <1>2, <1>3, <1>4, <1>5, QuietStep

LEMMA BeginCreateStep ==
  ASSUME IInv, NEW p \in Processes, NEW u \in Uids, BeginCreate(p, u)
  PROVE  IInv'
  <1> DEFINE e == [uid |-> u, text |-> p, cancelled |-> FALSE]
             r == [Idle EXCEPT !.pc = "publish", !.op = "create", !.uid = u,
                               !.name = u, !.new = e]
  <1>1. e \in Events /\ e.uid = u /\ e # Foreign
    <2>1. e \in Events /\ e.uid = u
      BY DEF Events, Authors
    <2> QED
      BY <2>1, ConstantsAssumption
  <1>2. /\ Become(p, r) /\ u \notin drawn /\ drawn' = drawn \cup {u}
        /\ UNCHANGED <<cast, items, created, cancelled, touched, faults, syncs>>
    BY DEF BeginCreate
  <1> HIDE DEF e
  <1>3. /\ r \in Process
        /\ r.pc = "publish" /\ r.op = "create" /\ r.uid = u /\ r.name = u
        /\ r.new = e /\ r.seen = Idle.seen
    BY <1>1, IdleOK DEF Process, Names
  <1> HIDE DEF r
  <1>4. Sets'
    BY <1>2 DEF IInv, Sets
  <1>5. Stored' = Stored /\ Disk'
    BY <1>2 DEF IInv, Disk, Proper, Stored
  <1>6. u \notin created
    BY <1>2 DEF IInv, Sets
  <1>7. ProcessOK(r)'
    BY <1>1, <1>2, <1>3, <1>6, IdleOK
       DEF ProcessOK, Active, Reading, Prepared, Pledge, Creates, Proper, Names
  <1>8. \A v \in Uids : Creates(r, v) => v \notin drawn
    BY <1>2, <1>3 DEF Creates
  <1> QED
    BY <1>2, <1>3, <1>4, <1>5, <1>7, <1>8, ProcessStep

LEMMA LookStep ==
  ASSUME IInv, NEW p \in Processes, Look(p)
  PROVE  IInv'
  <1> DEFINE Seen(n) == IF IsWanted(p, items[n])
                        THEN [m \in DOMAIN proc[p].seen \cup {n} |->
                                IF m = n THEN items[n] ELSE proc[p].seen[m]]
                        ELSE proc[p].seen
             Ids(n) == IF proc[p].op = "list" THEN proc[p].ids \cup {items[n].uid} ELSE {}
             r(n) == [proc[p] EXCEPT !.left = proc[p].left \ {n}, !.ids = Ids(n),
                                     !.seen = Seen(n)]
  <1>1. proc[p] \in Process /\ ProcessOK(proc[p])
    BY DEF IInv, Procs
  <1>2. PICK n \in Stored : NextFile(p, n) /\ IsEvent(n) /\ Become(p, r(n))
    BY <1>1 DEF Look, Process
  <1>3. items[n] \in Events /\ items[n] # Foreign /\ Proper(n, items[n]) /\ n \in Names
    BY <1>2 DEF IInv, Disk, IsEvent, Contents
  <1>4. PICK S \in SUBSET Names : proc[p].seen \in [S -> Events]
    BY <1>1 DEF Process, Readings
  <1>5. Seen(n) \in Readings
    <2>1. CASE IsWanted(p, items[n])
      <3>1. Seen(n) \in [S \cup {n} -> Events]
        BY <1>3, <1>4, <2>1
      <3> QED
        BY <1>3, <3>1 DEF Readings
    <2>2. CASE ~IsWanted(p, items[n])
      BY <1>1, <2>2 DEF Process
    <2> QED
      BY <2>1, <2>2
  <1>6. \A m \in DOMAIN Seen(n) : Proper(m, Seen(n)[m]) /\ Seen(n)[m].uid = proc[p].uid
    BY <1>1, <1>3 DEF ProcessOK, Reading, IsWanted
  <1>7. Ids(n) \in SUBSET Uids
    BY <1>1, <1>3 DEF Process, Events
  <1> HIDE DEF Seen, Ids
  <1>8. /\ r(n) \in Process
        /\ r(n).pc = "look" /\ r(n).op = proc[p].op /\ r(n).uid = proc[p].uid
        /\ r(n).seen = Seen(n)
    BY <1>1, <1>2, <1>5, <1>7 DEF Process, NextFile
  <1> HIDE DEF r
  <1>9. ProcessOK(r(n))
    BY <1>1, <1>2, <1>6, <1>8
       DEF ProcessOK, Active, Reading, Prepared, Pledge, Creates, NextFile
  <1>10. \A u \in Uids : Creates(r(n), u) => Creates(proc[p], u)
    BY <1>2, <1>8 DEF Creates, NextFile
  <1>11. UNCHANGED <<items, faults>> /\ Keeps
    BY DEF Look
  <1> QED
    BY <1>2, <1>8, <1>9, <1>10, <1>11, QuietStep

(* The steps of an operation that end it without touching the disk.        *)
LEMMA EndingSteps ==
  ASSUME IInv, NEW p \in Processes,
         \/ LookRefused(p) \/ LookDuplicate(p) \/ NotFound(p) \/ Answer(p)
         \/ StageFails(p) \/ PublishFails(p) \/ SettleFails(p) \/ ReadBack(p)
  PROVE  IInv'
  <1>1. ProcessOK(proc[p])
    BY DEF IInv, Procs
  <1>2. CASE LookRefused(p)
    BY <1>2, EndStep DEF LookRefused, Outcomes
  <1>3. CASE LookDuplicate(p)
    BY <1>3, EndStep DEF LookDuplicate, NextFile, Outcomes
  <1>4. CASE NotFound(p)
    BY <1>4, EndStep DEF NotFound, Searched, Outcomes
  <1>5. CASE Answer(p)
    <2>1. proc[p].op # "create" /\ proc[p].pc # "idle"
      BY <1>5 DEF Answer, Searched
    <2> QED
      BY <1>5, <2>1, EndStep DEF Answer, Outcomes
  <1>6. CASE StageFails(p)
    <2>1. proc[p].pc # "idle"
      BY <1>6 DEF StageFails, Found, Searched
    <2> QED
      BY <1>6, <2>1, EndStep DEF StageFails, Outcomes
  <1>7. CASE PublishFails(p)
    BY <1>7, EndStep DEF PublishFails, Outcomes
  <1>8. CASE SettleFails(p)
    BY <1>8, EndStep DEF SettleFails, Outcomes
  <1>9. CASE ReadBack(p)
    <2>1. proc[p].op = "create" => proc[p].uid \in Stored
      BY <1>1, <1>9 DEF ReadBack, ReadsBack, ProcessOK, Prepared
    <2> QED
      BY <1>9, <2>1, EndStep DEF ReadBack, Outcomes
  <1> QED
    BY <1>2, <1>3, <1>4, <1>5, <1>6, <1>7, <1>8, <1>9

LEMMA UpdatedEvent ==
  ASSUME NEW p \in Processes, NEW e \in Events
  PROVE  Updated(p, e) \in Events /\ Updated(p, e).uid = e.uid
  BY DEF Updated, Events, Authors

LEMMA StageStep ==
  ASSUME IInv, NEW p \in Processes, Stage(p)
  PROVE  IInv'
  <1>1. proc[p] \in Process /\ ProcessOK(proc[p])
    BY DEF IInv, Procs
  <1>2. PICK n \in Stored : Found(p, n) /\ Become(p, Staged(p, n))
    BY DEF Stage
  <1>3. n \in Names /\ items[n] \in Contents /\ Proper(n, items[n])
    BY <1>2 DEF IInv, Disk
  <1> DEFINE e == proc[p].seen[n]
             r == Staged(p, n)
  <1>4. e \in Events /\ e.uid = proc[p].uid /\ Proper(n, e) /\ e # Foreign
    <2>1. PICK S \in SUBSET Names : proc[p].seen \in [S -> Events]
      BY <1>1 DEF Process, Readings
    <2>2. n \in DOMAIN proc[p].seen
      BY <1>2 DEF Found, Matches
    <2> QED
      BY <1>1, <2>1, <2>2, ConstantsAssumption DEF ProcessOK, Reading
  <1>5. /\ Updated(p, e) \in Events
        /\ Updated(p, e).uid = proc[p].uid
        /\ Proper(n, Updated(p, e))
    BY <1>4, UpdatedEvent, ConstantsAssumption DEF Proper
  <1>6. proc[p].pc = "look" /\ proc[p].op \in {"modify", "cancel"}
    BY <1>2 DEF Found, Searched, Changes
  <1>7. /\ r \in Process
        /\ r.pc = "publish" /\ r.op = proc[p].op /\ r.uid = proc[p].uid
        /\ r.name = n /\ r.orig = items[n] /\ r.new = Updated(p, e)
        /\ r.seen = Idle.seen
    BY <1>1, <1>3, <1>5, IdleOK DEF Staged, Process
  <1> HIDE DEF r, e
  <1>8. ProcessOK(r)
    BY <1>1, <1>3, <1>5, <1>6, <1>7, IdleOK
       DEF ProcessOK, Active, Reading, Prepared, Pledge, Creates
  <1>9. \A u \in Uids : Creates(r, u) => Creates(proc[p], u)
    BY <1>6, <1>7 DEF Creates
  <1>10. Become(p, r) /\ UNCHANGED <<items, faults>> /\ Keeps
    BY <1>2 DEF r, Stage
  <1> QED
    BY <1>7, <1>8, <1>9, <1>10, QuietStep

LEMMA PublishStep ==
  ASSUME IInv, NEW p \in Processes, Publish(p)
  PROVE  IInv'
  <1>0. PICK r : r = [proc[p] EXCEPT !.pc = "readback"]
    OBVIOUS
  <1>1. proc[p] \in Process /\ ProcessOK(proc[p]) /\ proc[p].pc = "publish"
    BY DEF IInv, Procs, Publish
  <1>2. /\ r \in Process
        /\ r.pc = "readback" /\ r.op = proc[p].op /\ r.uid = proc[p].uid
        /\ r.seen = proc[p].seen /\ r.name = proc[p].name
        /\ r.new = proc[p].new /\ r.orig = proc[p].orig
    BY <1>0, <1>1 DEF Process
  <1>3. Become(p, r) /\ items' = Put(proc[p].name, proc[p].new) /\ Keeps /\ faults' = faults
    BY <1>0 DEF Publish, Goto
  <1>4. Sets'
    BY <1>3, SetsKept
  <1>5. /\ proc[p].name \in Names /\ proc[p].new \in Contents
        /\ Proper(proc[p].name, proc[p].new)
    BY <1>1 DEF ProcessOK, Prepared, Contents
  <1>6. Disk' /\ Stored \subseteq Stored'
    BY <1>3, <1>5, PutDisk
  <1>7. drawn' = drawn /\ touched' = touched /\ created' = created
    BY <1>3 DEF Keeps
  <1>9. ProcessOK(r)
    BY <1>1, <1>2 DEF ProcessOK, Active, Reading, Prepared, Pledge, Creates
  <1>10. ProcessOK(r)'
    BY <1>2, <1>7, <1>9 DEF ProcessOK, Active, Reading, Prepared, Pledge, Creates, Proper
  <1>8. \A u \in Uids : Creates(r, u) => Creates(proc[p], u)
    BY <1>1, <1>2 DEF Creates
  <1> QED
    BY <1>2, <1>3, <1>4, <1>6, <1>7, <1>8, <1>10, ProcessStep

LEMMA RestoreStep ==
  ASSUME IInv, NEW p \in Processes, Restore(p)
  PROVE  IInv'
  <1>0. PICK r : r = [proc[p] EXCEPT !.pc = "report", !.res = "readback_failed",
                                     !.left = {}, !.ids = {}]
    OBVIOUS
  <1>1. proc[p] \in Process /\ ProcessOK(proc[p]) /\ proc[p].pc = "restore"
    BY DEF IInv, Procs, Restore
  <1>2. /\ r \in Process
        /\ r.pc = "report" /\ r.op = proc[p].op /\ r.uid = proc[p].uid
        /\ r.seen = proc[p].seen /\ r.res # "ok"
    BY <1>0, <1>1 DEF Process, Outcomes
  <1>3. Become(p, r) /\ Keeps /\ faults' = faults
    BY <1>0 DEF Restore, End
  <1>4. Sets'
    BY <1>3, SetsKept
  <1>5. drawn' = drawn /\ touched' = touched /\ created' = created
    BY <1>3 DEF Keeps
  <1>6. ProcessOK(r)
    BY <1>1, <1>2 DEF ProcessOK, Active, Reading, Prepared, Pledge, Creates
  <1>7. ProcessOK(r)'
    BY <1>2, <1>5, <1>6 DEF ProcessOK, Active, Reading, Prepared, Pledge, Creates, Proper
  <1>8. \A u \in Uids : Creates(r, u) => Creates(proc[p], u)
    BY <1>1, <1>2 DEF Creates
  <1>9. proc[p].name \in Names
    BY <1>1 DEF ProcessOK, Prepared
  <1>10. Disk' /\ \A u \in Uids : u \in Stored => u \in Stored' \/ Creates(proc[p], u)
    <2>1. CASE proc[p].op = "create"
      <3>1. items' = Drop(proc[p].name)
        BY <2>1 DEF Restore
      <3>2. Disk' /\ Stored' = Stored \ {proc[p].name}
        BY <1>5, <1>9, <3>1, DropDisk
      <3>3. Creates(proc[p], proc[p].name)
        BY <1>1, <2>1 DEF ProcessOK, Prepared, Creates
      <3> QED
        BY <3>2, <3>3
    <2>2. CASE proc[p].op # "create"
      <3>1. items' = Put(proc[p].name, proc[p].orig)
        BY <2>2 DEF Restore
      <3>2. proc[p].orig \in Contents /\ Proper(proc[p].name, proc[p].orig)
        BY <1>1, <2>2 DEF ProcessOK, Prepared
      <3> QED
        BY <1>3, <1>9, <3>1, <3>2, PutDisk
    <2> QED
      BY <2>1, <2>2
  <1> QED
    BY <1>2, <1>3, <1>4, <1>5, <1>7, <1>8, <1>10, ProcessStep

LEMMA RestoreFailsStep ==
  ASSUME IInv, NEW p \in Processes, RestoreFails(p)
  PROVE  IInv'
  <1> DEFINE r == [proc[p] EXCEPT !.pc = "report", !.res = "readback_failed",
                                  !.spoilt = TRUE]
  <1>1. proc[p] \in Process /\ ProcessOK(proc[p]) /\ proc[p].pc = "restore"
    BY DEF IInv, Procs, RestoreFails
  <1>2. /\ r \in Process
        /\ r.pc = "report" /\ r.op = proc[p].op /\ r.uid = proc[p].uid
        /\ r.seen = proc[p].seen /\ r.res # "ok"
    <2>1. r \in Process
      BY <1>1 DEF Process, Outcomes
    <2>2. /\ r.pc = "report" /\ r.op = proc[p].op /\ r.uid = proc[p].uid
          /\ r.seen = proc[p].seen /\ r.res = "readback_failed"
      BY <1>1 DEF Process
    <2> QED
      BY <2>1, <2>2
  <1>3. Become(p, r) /\ UNCHANGED items /\ Keeps /\ Fault
    BY DEF RestoreFails
  <1> HIDE DEF r
  <1>4. ProcessOK(r)
    BY <1>1, <1>2 DEF ProcessOK, Active, Reading, Prepared, Pledge, Creates
  <1>5. \A u \in Uids : Creates(r, u) => Creates(proc[p], u)
    BY <1>1, <1>2 DEF Creates
  <1> QED
    BY <1>2, <1>3, <1>4, <1>5, QuietStep

LEMMA ReportStep ==
  ASSUME IInv, NEW p \in Processes, Report(p)
  PROVE  IInv'
  <1>1. ProcessOK(proc[p]) /\ proc[p].pc = "report" /\ proc[p].uid \in drawn
    BY DEF IInv, Procs, Report, ProcessOK, Active
  <1>2. /\ Become(p, Idle)
        /\ created' = IF Reports(p, "create") THEN created \cup {proc[p].uid} ELSE created
        /\ cancelled' = IF Reports(p, "cancel") THEN cancelled \cup {proc[p].uid}
                                                ELSE cancelled
        /\ UNCHANGED <<cast, items, drawn, touched, faults, syncs>>
    BY DEF Report
  <1>3. Sets'
    BY <1>1, <1>2 DEF IInv, Sets
  <1>4. Stored' = Stored /\ Disk'
    BY <1>2 DEF IInv, Disk, Proper, Stored
  <1>5. ProcessOK(Idle)'
    BY IdleOK DEF ProcessOK, Active, Reading, Prepared, Pledge, Creates, Idle
  <1>6. \A u \in Uids : ~Creates(Idle, u)
    BY IdleOK DEF Creates
  <1>7. \A u \in created' :
          u \in created \/ (Creates(proc[p], u) /\ u \in Stored' \cup touched')
    BY <1>1, <1>2, <1>4 DEF Reports, Creates, ProcessOK, Pledge
  <1> QED
    BY <1>2, <1>3, <1>4, <1>5, <1>6, <1>7, IdleOK, ProcessStep

LEMMA CrashStep ==
  ASSUME IInv, NEW p \in Processes, Crash(p)
  PROVE  IInv'
  <1>1. \A u \in Uids : ~Creates(Idle, u)
    BY IdleOK DEF Creates
  <1> QED
    BY <1>1, IdleOK, IdleProcessOK, QuietStep DEF Crash

(* vdirsyncer changes or removes only what it touches. *)
LEMMA SyncStep ==
  ASSUME IInv, Sets', Disk', UNCHANGED proc, created' = created,
         drawn \subseteq drawn', touched \subseteq touched',
         \A u \in Uids : u \in Stored => u \in Stored' \cup touched'
  PROVE  IInv'
  <1>1. Procs'
    <2> SUFFICES ASSUME NEW q \in Processes PROVE ProcessOK(proc[q])'
      BY DEF IInv, Procs
    <2>1. ProcessOK(proc[q])
      BY DEF IInv, Procs
    <2>2. Active(proc[q])'
      BY <2>1 DEF ProcessOK, Active
    <2>3. Reading(proc[q])'
      BY <2>1 DEF ProcessOK, Reading, Proper
    <2>4. Prepared(proc[q])'
      BY <2>1 DEF ProcessOK, Prepared, Proper
    <2>5. Pledge(proc[q])'
      BY <2>1 DEF ProcessOK, Active, Pledge, Creates, IInv, Sets
    <2> QED
      BY <2>2, <2>3, <2>4, <2>5 DEF ProcessOK
  <1>2. Single'
    BY DEF IInv, Single, Creates
  <1>3. CreatedThere'
    BY DEF IInv, CreatedThere, Sets
  <1> QED
    BY <1>1, <1>2, <1>3 DEF IInv

LEMMA SyncSets ==
  ASSUME IInv, Syncs, drawn \subseteq drawn', drawn' \subseteq Uids, touched' \subseteq drawn'
  PROVE  Sets' /\ UNCHANGED proc /\ created' = created
  BY ConstantsAssumption DEF IInv, Sets, Syncs

(* What vdirsyncer touches in file n is the event of that name, if it has one. *)
LEMMA TouchFile ==
  ASSUME IInv, NEW n \in Stored, Touch(n)
  PROVE  /\ touched \subseteq touched' /\ touched' \subseteq drawn
         /\ n \in Uids => n \in touched'
         /\ items[n] # Foreign => items[n].uid \in touched' \cap drawn
  <1>1. Proper(n, items[n])
    BY DEF IInv, Disk
  <1>2. touched \subseteq drawn
    BY DEF IInv, Sets
  <1> QED
    BY <1>1, <1>2 DEF Touch, Proper

(* The disk with file n as c, proper once touched and drawn have grown. *)
LEMMA SyncPut ==
  ASSUME IInv, NEW n \in Names, NEW c \in Contents, items' = Put(n, c),
         drawn \subseteq drawn', touched \subseteq touched',
         IF c = Foreign THEN n \in Uids => n \in touched'
         ELSE c.uid \in drawn' /\ (n \in Uids => c.uid = n)
  PROVE  Disk' /\ Stored \subseteq Stored'
  <1>1. /\ Stored' = Stored \cup {n}
        /\ items' \in [Stored' -> Contents]
        /\ items'[n] = c
        /\ \A m \in Stored : m # n => items'[m] = items[m]
    BY DEF Put, Stored, IInv, Disk
  <1>2. \A m \in Stored : m # n => Proper(m, items[m])'
    BY <1>1 DEF IInv, Disk, Proper
  <1>3. Proper(n, items[n])'
    BY <1>1 DEF Proper
  <1> QED
    BY <1>1, <1>2, <1>3 DEF IInv, Disk

LEMMA SyncAddsStep ==
  ASSUME IInv, NEW n \in Names, SyncAdds(n)
  PROVE  IInv'
  <1>1. Syncs /\ touched' = touched
    BY DEF SyncAdds
  <1>2. touched \subseteq drawn /\ drawn \subseteq Uids
    BY DEF IInv, Sets
  <1>3. CASE \E u \in (Uids \ drawn) \cup touched, c \in BOOLEAN :
               /\ n \in {u} \cup Others
               /\ items' = Put(n, [uid |-> u, text |-> Outside, cancelled |-> c])
               /\ drawn' = drawn \cup {u}
    <2>1. PICK u \in Uids, c \in BOOLEAN :
               /\ n \in {u} \cup Others
               /\ items' = Put(n, [uid |-> u, text |-> Outside, cancelled |-> c])
               /\ drawn' = drawn \cup {u}
      BY <1>2, <1>3
    <2>2. PICK e : e = [uid |-> u, text |-> Outside, cancelled |-> c]
      OBVIOUS
    <2>3. e \in Events /\ e.uid = u
      BY <2>2 DEF Events, Authors
    <2>4. n \in Uids => n = u
      BY <2>1, ConstantsAssumption
    <2>5. e \in Contents /\ e # Foreign
      BY <2>3, ConstantsAssumption DEF Contents
    <2>6. Sets' /\ UNCHANGED proc /\ created' = created
      BY <1>1, <1>2, <2>1, SyncSets
    <2>7. Disk' /\ Stored \subseteq Stored'
      BY <1>1, <2>1, <2>2, <2>3, <2>4, <2>5, SyncPut
    <2> QED
      BY <1>1, <2>1, <2>6, <2>7, SyncStep
  <1>4. CASE n \in Others /\ items' = Put(n, Foreign) /\ UNCHANGED drawn
    <2>1. n \notin Uids /\ Foreign \in Contents
      BY <1>4, ConstantsAssumption DEF Contents
    <2>2. Sets' /\ UNCHANGED proc /\ created' = created
      BY <1>1, <1>2, <1>4, SyncSets
    <2>3. Disk' /\ Stored \subseteq Stored'
      BY <1>1, <1>4, <2>1, SyncPut
    <2> QED
      BY <1>1, <1>4, <2>2, <2>3, SyncStep
  <1> QED
    BY <1>3, <1>4 DEF SyncAdds

LEMMA SyncChangesStep ==
  ASSUME IInv, NEW n \in Names, SyncChanges(n)
  PROVE  IInv'
  <1>1. Syncs /\ n \in Stored /\ Touch(n) /\ drawn' = drawn
    BY DEF SyncChanges
  <1>2. /\ touched \subseteq touched' /\ touched' \subseteq drawn
        /\ n \in Uids => n \in touched'
        /\ items[n] # Foreign => items[n].uid \in drawn
    BY <1>1, TouchFile
  <1>3. Sets' /\ UNCHANGED proc /\ created' = created
    BY <1>1, <1>2, SyncSets DEF IInv, Sets
  <1>4. items[n] \in Contents /\ Proper(n, items[n])
    BY <1>1 DEF IInv, Disk
  <1>5. CASE items[n] # Foreign /\ \E c \in BOOLEAN :
               items' = Put(n, [items[n] EXCEPT !.text = Outside, !.cancelled = c])
    <2>1. PICK c \in BOOLEAN :
               items' = Put(n, [items[n] EXCEPT !.text = Outside, !.cancelled = c])
      BY <1>5
    <2>2. PICK e : e = [items[n] EXCEPT !.text = Outside, !.cancelled = c]
      OBVIOUS
    <2>3. e \in Events /\ e.uid = items[n].uid
      BY <1>4, <1>5, <2>2 DEF Contents, Events, Authors
    <2>4. e \in Contents /\ e # Foreign
      BY <2>3, ConstantsAssumption DEF Contents
    <2>5. e.uid \in drawn /\ (n \in Uids => e.uid = n)
      BY <1>4, <1>5, <2>3 DEF Proper
    <2>6. Disk' /\ Stored \subseteq Stored'
      BY <1>1, <1>2, <2>1, <2>2, <2>4, <2>5, SyncPut
    <2> QED
      BY <1>1, <1>2, <1>3, <2>6, SyncStep
  <1>6. CASE items' = Put(n, Foreign)
    <2>1. Foreign \in Contents
      BY DEF Contents
    <2>2. Disk' /\ Stored \subseteq Stored'
      BY <1>1, <1>2, <1>6, <2>1, SyncPut
    <2> QED
      BY <1>1, <1>2, <1>3, <2>2, SyncStep
  <1> QED
    BY <1>5, <1>6 DEF SyncChanges

LEMMA SyncRemovesStep ==
  ASSUME IInv, NEW n \in Names, SyncRemoves(n)
  PROVE  IInv'
  <1>1. Syncs /\ n \in Stored /\ Touch(n) /\ drawn' = drawn /\ items' = Drop(n)
    BY DEF SyncRemoves
  <1>2. /\ touched \subseteq touched' /\ touched' \subseteq drawn
        /\ n \in Uids => n \in touched'
    BY <1>1, TouchFile
  <1>3. Sets' /\ UNCHANGED proc /\ created' = created
    BY <1>1, <1>2, SyncSets DEF IInv, Sets
  <1>4. Disk' /\ Stored' = Stored \ {n}
    BY <1>1, <1>2, DropDisk
  <1> QED
    BY <1>1, <1>2, <1>3, <1>4, SyncStep

LEMMA NextStep ==
  ASSUME IInv, [Next]_vars
  PROVE  IInv'
  <1>1. CASE UNCHANGED vars
    <2>1. Sets' /\ Disk' /\ Stored' = Stored
      BY <1>1 DEF vars, IInv, Sets, Disk, Proper, Stored
    <2> QED
      BY <1>1, <2>1, SyncStep DEF vars
  <1>2. CASE Sync
    BY <1>2, SyncAddsStep, SyncChangesStep, SyncRemovesStep DEF Sync
  <1>3. ASSUME NEW p \in Processes,
               Beginning(p) \/ Searching(p) \/ Changing(p) \/ Report(p) \/ Crash(p)
        PROVE  IInv'
    <2>1. CASE Beginning(p)
      BY <2>1, BeginCreateStep, BeginSearchStep DEF Beginning
    <2>2. CASE Searching(p)
      BY <2>2, EndingSteps, LookStep DEF Searching
    <2>3. CASE Changing(p)
      <3>1. CASE ReadBackFails(p)
        BY <3>1, GotoStep DEF ReadBackFails
      <3> QED
        BY <2>3, <3>1, EndingSteps, StageStep, PublishStep, RestoreStep, RestoreFailsStep
           DEF Changing
    <2>4. CASE Report(p)
      BY <2>4, ReportStep
    <2>5. CASE Crash(p)
      BY <2>5, CrashStep
    <2> QED
      BY <1>3, <2>1, <2>2, <2>3, <2>4, <2>5
  <1> QED
    BY <1>1, <1>2, <1>3 DEF Next

LEMMA Invariance == Spec => []IInv
  BY InitStep, NextStep, PTL DEF Spec

-----------------------------------------------------------------------------
(* The directory, the processes and what is known of the events have their *)
(* types, and a file is only ever replaced by the event an operation is    *)
(* about (adapters/khal/mutations.py).                                     *)
THEOREM CalendarTypes == Spec => []TypeOK
  BY Invariance, IInvImplies, PTL

(* Whatever processes of LEA do to the calendar at the same time, an event *)
(* whose creation was reported stays until vdirsyncer changes it           *)
(* (adapters/khal/mutations.py: link, replace, restore, unlink).           *)
THEOREM CreatedEventsStay == Spec => []CreatedStays
  BY Invariance, IInvImplies, PTL

-----------------------------------------------------------------------------
(* With one operation at a time a process knows its file: what is there,   *)
(* what was there, and that nobody else has its event.                     *)
Turns == \A p, q \in Processes :
           proc[p].pc # "idle" /\ proc[q].pc # "idle" => p = q

Unique == \A m, n \in Names, u \in Uids : Holds(m, u) /\ Holds(n, u) => m = n

Marked(u) == \A n \in Names : Holds(n, u) => items[n].cancelled

There(r) == IF r.name \in Stored THEN items[r.name] ELSE NoEvent

(* The event and the bytes behind a changed file: an event that is         *)
(* cancelled stays so in both.                                             *)
Base(r) ==
  /\ r.orig \in Events /\ r.orig.uid = r.uid
  /\ r.orig.cancelled => r.new.cancelled
  /\ r.uid \in cancelled \ touched => r.orig.cancelled

(* Searching: what was read is still there.  Changing: the file is as it   *)
(* was, or as it is meant to be.  Reporting: the outcome tells which.      *)
Searches(r) ==
  r.pc = "look" =>
    /\ r.op # "create" /\ r.new = NoEvent
    /\ \A n \in DOMAIN r.seen : n \in Stored /\ items[n] = r.seen[n]

Rewrites(r) ==
  r.pc \in {"publish", "readback", "restore"} =>
    /\ There(r) = IF r.pc = "publish" THEN r.orig ELSE r.new
    /\ IF r.op = "create" THEN r.orig = NoEvent ELSE Base(r)
    /\ r.op = "create" /\ r.pc = "publish" => \A n \in Names : ~Holds(n, r.uid)
    /\ r.op = "cancel" => r.new.cancelled

Tells(r) ==
  r.pc = "report" =>
    /\ r.new # NoEvent =>
         /\ There(r) \in {r.orig, r.new}
         /\ r.res = "ok" => There(r) = r.new
         /\ r.res = "readback_failed" /\ ~r.spoilt => There(r) = r.orig
    /\ r.op = "cancel" /\ r.res = "ok" => Marked(r.uid)

Fresh(r) == r.op = "create" /\ r.pc # "idle" => r.uid \notin cancelled

Steady(r) == Searches(r) /\ Rewrites(r) /\ Tells(r) /\ Fresh(r)

Sticks == \A u \in cancelled \ touched : Marked(u)

Solo ==
  cast.exclusive =>
    Turns /\ Unique /\ Sticks /\ \A p \in Processes : Steady(proc[p])

SoloInv == IInv /\ Solo

-----------------------------------------------------------------------------
(* What a step of p has to show when operations take turns: the others are *)
(* idle, and of the idle nothing is said.                                  *)
LEMMA SoloStep ==
  ASSUME SoloInv, NEW p \in Processes, NEW r \in Process, Become(p, r),
         cast' = cast, proc[p].pc # "idle" \/ (cast.exclusive => Quiet),
         cast.exclusive => Unique' /\ Sticks' /\ Steady(r)'
  PROVE  Solo'
  <1> SUFFICES ASSUME cast.exclusive PROVE Solo'
    BY DEF Solo
  <1>1. /\ proc'[p] = r
        /\ \A q \in Processes : q # p => proc'[q] = proc[q]
    BY DEF SoloInv, IInv, Procs, Become
  <1>2. \A q \in Processes : q # p => proc[q].pc = "idle"
    BY IdleOK DEF SoloInv, Solo, Turns, Quiet
  <1>3. Turns'
    BY <1>1, <1>2 DEF Turns
  <1>4. Steady(proc[p])'
    BY <1>1 DEF Steady, Searches, Rewrites, Tells, Fresh, Base, There, Marked,
                Holds, IsEvent
  <1>5. ASSUME NEW q \in Processes, q # p PROVE Steady(proc[q])'
    BY <1>1, <1>2, <1>5 DEF Steady, Searches, Rewrites, Tells, Fresh
  <1> QED
    BY <1>3, <1>4, <1>5 DEF Solo

(* A step that leaves the files. *)
LEMMA SoloQuiet ==
  ASSUME SoloInv, NEW p \in Processes, NEW r \in Process, Become(p, r),
         UNCHANGED <<cast, items, cancelled, touched>>,
         proc[p].pc # "idle" \/ (cast.exclusive => Quiet),
         cast.exclusive => Steady(r)
  PROVE  Solo'
  <1>1. Stored' = Stored
    BY DEF Stored
  <1>2. cast.exclusive => Unique' /\ Sticks'
    BY <1>1 DEF SoloInv, Solo, Unique, Sticks, Marked, Holds, IsEvent
  <1>3. cast.exclusive => Steady(r)'
    BY <1>1 DEF Steady, Searches, Rewrites, Tells, Fresh, Base, There, Marked,
                Holds, IsEvent
  <1> QED
    BY <1>2, <1>3, SoloStep

(* What is known of a process at work. *)
LEMMA AtWork ==
  ASSUME SoloInv, NEW p \in Processes
  PROVE  /\ proc[p] \in Process /\ ProcessOK(proc[p])
         /\ proc[p].pc # "idle" => proc[p].uid \in drawn /\ proc[p].uid \in Uids
         /\ cast.exclusive => Unique /\ Sticks /\ Steady(proc[p])
  BY DEF SoloInv, Solo, IInv, Procs, ProcessOK, Active, Sets

(* An operation ends, having changed nothing with this step. *)
LEMMA SoloEnd ==
  ASSUME SoloInv, NEW p \in Processes, NEW res \in Outcomes, End(p, res),
         UNCHANGED items, Keeps, proc[p].pc # "idle",
         cast.exclusive =>
           /\ proc[p].new # NoEvent =>
                /\ There(proc[p]) \in {proc[p].orig, proc[p].new}
                /\ res = "ok" => There(proc[p]) = proc[p].new
                /\ res # "readback_failed"
           /\ proc[p].op = "cancel" /\ res = "ok" => Marked(proc[p].uid)
  PROVE  Solo'
  <1>1. PICK r : r = [proc[p] EXCEPT !.pc = "report", !.res = res, !.left = {},
                                     !.ids = {}]
    OBVIOUS
  <1>2. /\ r \in Process
        /\ r.pc = "report" /\ r.op = proc[p].op /\ r.uid = proc[p].uid
        /\ r.name = proc[p].name /\ r.orig = proc[p].orig /\ r.new = proc[p].new
        /\ r.res = res
    <2>1. proc[p] \in Process
      BY AtWork
    <2>2. r \in Process
      BY <1>1, <2>1 DEF Process
    <2>3. /\ r.pc = "report" /\ r.op = proc[p].op /\ r.uid = proc[p].uid
          /\ r.name = proc[p].name /\ r.orig = proc[p].orig
          /\ r.new = proc[p].new /\ r.res = res
      BY <1>1, <2>1 DEF Process
    <2> QED
      BY <2>2, <2>3
  <1>3. Become(p, r)
    BY <1>1 DEF End
  <1>4. cast.exclusive => Steady(r)
    BY <1>2, AtWork DEF Steady, Searches, Rewrites, Tells, Fresh, There
  <1> QED
    BY <1>2, <1>3, <1>4, SoloQuiet DEF Keeps

LEMMA SoloBeginSearch ==
  ASSUME SoloInv, NEW p \in Processes, NEW op, NEW u \in Uids, BeginSearch(p, op, u)
  PROVE  Solo'
  <1>1. PICK known : known = (op \in {"show", "list"} /\ u \in created)
    OBVIOUS
  <1>2. known \in BOOLEAN
    BY <1>1
  <1>3. PICK r : r = [Idle EXCEPT !.pc = "look", !.op = op, !.uid = u, !.left = Stored,
                                  !.known = known]
    OBVIOUS
  <1>4. Become(p, r) /\ op \in {"show", "list", "modify", "cancel"}
    BY <1>1, <1>3 DEF BeginSearch
  <1>5. Stored \in SUBSET Names
    BY DEF SoloInv, IInv, Disk
  <1>6. r \in Process
    BY <1>2, <1>3, <1>4, <1>5, IdleOK DEF Process
  <1>7. r.pc = "look" /\ r.op = op /\ r.seen = Idle.seen /\ r.new = Idle.new
    BY <1>3, IdleOK DEF Process
  <1>8. r.new = NoEvent
    BY <1>7 DEF Idle
  <1>9. Steady(r)
    BY <1>4, <1>7, <1>8, IdleOK DEF Steady, Searches, Rewrites, Tells, Fresh
  <1> QED
    BY <1>4, <1>6, <1>9, SoloQuiet DEF BeginSearch, Keeps

LEMMA SoloBeginCreate ==
  ASSUME SoloInv, NEW p \in Processes, NEW u \in Uids, BeginCreate(p, u)
  PROVE  Solo'
  <1>1. PICK e : e = [uid |-> u, text |-> p, cancelled |-> FALSE]
    OBVIOUS
  <1>2. PICK r : r = [Idle EXCEPT !.pc = "publish", !.op = "create", !.uid = u,
                                  !.name = u, !.new = e]
    OBVIOUS
  <1>3. e \in Events
    BY <1>1 DEF Events, Authors
  <1>4. Become(p, r) /\ u \notin drawn
    BY <1>1, <1>2 DEF BeginCreate
  <1>5. /\ r \in Process
        /\ r.pc = "publish" /\ r.op = "create" /\ r.uid = u /\ r.name = u
        /\ r.new = e /\ r.orig = Idle.orig
    BY <1>2, <1>3, IdleOK DEF Process, Names
  <1>6. r.orig = NoEvent
    BY <1>5 DEF Idle
  <1>7. u \notin Stored /\ \A n \in Names : ~Holds(n, u)
    BY <1>4 DEF SoloInv, IInv, Disk, Sets, Proper, Holds, IsEvent
  <1>8. u \notin cancelled
    BY <1>4 DEF SoloInv, IInv, Sets
  <1>9. Steady(r)
    BY <1>5, <1>6, <1>7, <1>8 DEF Steady, Searches, Rewrites, Tells, Fresh, There
  <1> QED
    BY <1>4, <1>5, <1>9, SoloQuiet DEF BeginCreate

LEMMA SoloLook ==
  ASSUME SoloInv, NEW p \in Processes, Look(p)
  PROVE  Solo'
  <1>1. proc[p] \in Process
    BY AtWork
  <1>2. PICK n \in Stored :
          /\ NextFile(p, n) /\ IsEvent(n)
          /\ Become(p, [proc[p] EXCEPT
               !.left = @ \ {n},
               !.ids = IF proc[p].op = "list" THEN @ \cup {items[n].uid} ELSE {},
               !.seen = IF IsWanted(p, items[n])
                        THEN [m \in DOMAIN @ \cup {n} |->
                                IF m = n THEN items[n] ELSE @[m]]
                        ELSE @])
    BY DEF Look
  <1>3. PICK seen : seen = IF IsWanted(p, items[n])
                           THEN [m \in DOMAIN proc[p].seen \cup {n} |->
                                   IF m = n THEN items[n] ELSE proc[p].seen[m]]
                           ELSE proc[p].seen
    OBVIOUS
  <1>4. PICK ids : ids = IF proc[p].op = "list" THEN proc[p].ids \cup {items[n].uid}
                         ELSE {}
    OBVIOUS
  <1>5. PICK r : r = [proc[p] EXCEPT !.left = proc[p].left \ {n}, !.ids = ids,
                                     !.seen = seen]
    OBVIOUS
  <1>6. Become(p, r) /\ proc[p].pc = "look"
    BY <1>1, <1>2, <1>3, <1>4, <1>5 DEF Process, NextFile
  <1>7. items[n] \in Events /\ n \in Names
    BY <1>2 DEF SoloInv, IInv, Disk, IsEvent, Contents
  <1>8. PICK S \in SUBSET Names : proc[p].seen \in [S -> Events]
    BY <1>1 DEF Process, Readings
  <1>9. seen \in Readings
    <2>1. CASE IsWanted(p, items[n])
      <3>1. seen \in [S \cup {n} -> Events]
        BY <1>3, <1>7, <1>8, <2>1
      <3> QED
        BY <1>7, <3>1 DEF Readings
    <2> QED
      BY <1>1, <1>3, <2>1 DEF Process
  <1>10. ids \in SUBSET Uids
    BY <1>1, <1>4, <1>7 DEF Process, Events
  <1>11. /\ r \in Process
         /\ r.pc = "look" /\ r.op = proc[p].op /\ r.seen = seen
         /\ r.new = proc[p].new
    BY <1>1, <1>5, <1>6, <1>9, <1>10 DEF Process
  <1>12. cast.exclusive => Steady(r)
    <2>1. SUFFICES ASSUME cast.exclusive PROVE Steady(r)
      OBVIOUS
    <2>2. /\ proc[p].op # "create" /\ proc[p].new = NoEvent
          /\ \A m \in DOMAIN proc[p].seen : m \in Stored /\ items[m] = proc[p].seen[m]
      BY <1>6, <2>1, AtWork DEF Steady, Searches
    <2>3. \A m \in DOMAIN seen : m \in Stored /\ items[m] = seen[m]
      BY <1>2, <1>3, <2>2
    <2> QED
      BY <1>11, <2>2, <2>3 DEF Steady, Searches, Rewrites, Tells, Fresh
  <1> QED
    BY <1>6, <1>11, <1>12, SoloQuiet DEF Look, Keeps

(* The event that was found is the event of its file, and the only one.    *)
LEMMA FoundFile ==
  ASSUME SoloInv, NEW p \in Processes, Searched(p), NEW n, Matches(p) = {n},
         cast.exclusive
  PROVE  /\ n \in Stored /\ n \in Names /\ items[n] = proc[p].seen[n]
         /\ items[n] \in Events /\ items[n] # Foreign /\ items[n].uid = proc[p].uid
         /\ Holds(n, proc[p].uid)
         /\ \A m \in Names : Holds(m, proc[p].uid) => m = n
  <1>1. proc[p].pc = "look" /\ n \in DOMAIN proc[p].seen
    BY DEF Searched, Matches
  <1>2. n \in Stored /\ items[n] = proc[p].seen[n]
    BY <1>1, AtWork DEF Steady, Searches
  <1>3. PICK S \in SUBSET Names : proc[p].seen \in [S -> Events]
    BY AtWork DEF Process, Readings
  <1>4. items[n] \in Events /\ items[n] # Foreign
    BY <1>1, <1>2, <1>3, ConstantsAssumption
  <1>5. items[n].uid = proc[p].uid /\ n \in Names
    BY <1>1, <1>2, AtWork DEF ProcessOK, Reading, SoloInv, IInv, Disk
  <1>6. Holds(n, proc[p].uid)
    BY <1>2, <1>4, <1>5 DEF Holds, IsEvent
  <1>7. \A m \in Names : Holds(m, proc[p].uid) => m = n
    BY <1>1, <1>5, <1>6, AtWork DEF Unique
  <1> QED
    BY <1>2, <1>4, <1>5, <1>6, <1>7

LEMMA SoloEndings ==
  ASSUME SoloInv, NEW p \in Processes,
         \/ LookRefused(p) \/ LookDuplicate(p) \/ NotFound(p) \/ Answer(p)
         \/ StageFails(p) \/ PublishFails(p) \/ SettleFails(p) \/ ReadBack(p)
  PROVE  Solo'
  <1>1. proc[p].pc = "look" /\ cast.exclusive => proc[p].new = NoEvent
    BY AtWork DEF Steady, Searches
  <1>2. CASE LookRefused(p)
    BY <1>1, <1>2, SoloEnd DEF LookRefused, Outcomes
  <1>3. CASE LookDuplicate(p)
    BY <1>1, <1>3, SoloEnd DEF LookDuplicate, NextFile, Outcomes
  <1>4. CASE NotFound(p)
    BY <1>1, <1>4, SoloEnd DEF NotFound, Searched, Outcomes
  <1>5. CASE Answer(p)
    <2>1. /\ Searched(p) /\ proc[p].pc = "look" /\ End(p, "ok")
          /\ UNCHANGED items /\ Keeps
      BY <1>5 DEF Answer, Searched
    <2>2. cast.exclusive /\ proc[p].op = "cancel" => Marked(proc[p].uid)
      <3>1. SUFFICES ASSUME cast.exclusive, proc[p].op = "cancel"
                     PROVE  Marked(proc[p].uid)
        OBVIOUS
      <3>2. PICK n \in Matches(p) : Matches(p) = {n} /\ proc[p].seen[n].cancelled
        BY <1>5, <3>1 DEF Answer
      <3> QED
        BY <2>1, <3>1, <3>2, FoundFile DEF Marked
    <2> QED
      BY <1>1, <2>1, <2>2, SoloEnd DEF Outcomes
  <1>6. CASE StageFails(p)
    <2>1. proc[p].pc = "look" /\ UNCHANGED items /\ Keeps
      BY <1>6 DEF StageFails, Found, Searched
    <2>2. PICK res \in {"failed", "readback_failed"} : End(p, res)
      BY <1>6 DEF StageFails
    <2> QED
      BY <1>1, <2>1, <2>2, SoloEnd DEF Outcomes
  <1>7. CASE PublishFails(p)
    <2>1. proc[p].pc = "publish" /\ End(p, "failed") /\ UNCHANGED items /\ Keeps
      BY <1>7 DEF PublishFails
    <2>2. cast.exclusive => There(proc[p]) = proc[p].orig
      BY <2>1, AtWork DEF Steady, Rewrites
    <2> QED
      BY <2>1, <2>2, SoloEnd DEF Outcomes
  <1>8. CASE SettleFails(p)
    <2>1. proc[p].pc = "readback" /\ End(p, "failed") /\ UNCHANGED items /\ Keeps
      BY <1>8 DEF SettleFails
    <2>2. cast.exclusive => There(proc[p]) = proc[p].new
      BY <2>1, AtWork DEF Steady, Rewrites
    <2> QED
      BY <2>1, <2>2, SoloEnd DEF Outcomes
  <1>9. CASE ReadBack(p)
    <2>1. /\ proc[p].pc = "readback" /\ ReadsBack(p) /\ End(p, "ok")
          /\ UNCHANGED items /\ Keeps
      BY <1>9 DEF ReadBack
    <2>2. cast.exclusive => There(proc[p]) = proc[p].new
      BY <2>1, AtWork DEF Steady, Rewrites
    <2>3. cast.exclusive /\ proc[p].op = "cancel" => Marked(proc[p].uid)
      <3>1. SUFFICES ASSUME cast.exclusive, proc[p].op = "cancel",
                            NEW n \in Names, Holds(n, proc[p].uid)
                     PROVE  items[n].cancelled
        BY DEF Marked
      <3>2. /\ proc[p].new.cancelled /\ proc[p].new.uid = proc[p].uid
            /\ proc[p].new \in Events /\ proc[p].uid \in Uids /\ proc[p].name \in Names
        BY <2>1, <3>1, AtWork DEF Steady, Rewrites, ProcessOK, Prepared
      <3>3. proc[p].name \in Stored /\ items[proc[p].name] = proc[p].new
        BY <2>1, <3>1 DEF ReadsBack
      <3>4. Holds(proc[p].name, proc[p].uid)
        BY <3>2, <3>3, ConstantsAssumption DEF Holds, IsEvent
      <3>5. n = proc[p].name
        BY <3>1, <3>2, <3>4, AtWork DEF Unique
      <3> QED
        BY <3>2, <3>3, <3>5
    <2> QED
      BY <2>1, <2>2, <2>3, SoloEnd DEF Outcomes
  <1> QED
    BY <1>2, <1>3, <1>4, <1>5, <1>6, <1>7, <1>8, <1>9

LEMMA SoloStage ==
  ASSUME SoloInv, NEW p \in Processes, Stage(p)
  PROVE  Solo'
  <1>1. PICK n \in Stored : Found(p, n) /\ Become(p, Staged(p, n))
    BY DEF Stage
  <1>2. PICK r : r = Staged(p, n)
    OBVIOUS
  <1>3. /\ Searched(p) /\ Matches(p) = {n} /\ proc[p].pc = "look"
        /\ proc[p].op \in {"modify", "cancel"} /\ proc[p] \in Process
        /\ n \in Names /\ items[n] \in Contents
    BY <1>1, AtWork DEF Found, Searched, Changes, SoloInv, IInv, Disk
  <1>4. PICK e : e = Updated(p, proc[p].seen[n])
    OBVIOUS
  <1>5. e \in Events
    <2>1. PICK S \in SUBSET Names : proc[p].seen \in [S -> Events]
      BY <1>3 DEF Process, Readings
    <2>2. proc[p].seen[n] \in Events
      BY <1>3, <2>1 DEF Matches
    <2> QED
      BY <1>4, <2>2, UpdatedEvent
  <1>6. /\ r \in Process
        /\ r.pc = "publish" /\ r.op = proc[p].op /\ r.uid = proc[p].uid
        /\ r.name = n /\ r.orig = items[n] /\ r.new = e
    BY <1>2, <1>3, <1>4, <1>5, IdleOK DEF Staged, Process
  <1>7. cast.exclusive => Steady(r)
    <2>1. SUFFICES ASSUME cast.exclusive PROVE Steady(r)
      OBVIOUS
    <2>2. /\ items[n] = proc[p].seen[n] /\ items[n] \in Events
          /\ items[n].uid = proc[p].uid /\ Holds(n, proc[p].uid)
      BY <1>1, <1>3, <2>1, FoundFile
    <2>3. /\ proc[p].op = "cancel" => e.cancelled
          /\ items[n].cancelled => e.cancelled
      BY <1>4, <2>2 DEF Updated, Events
    <2>4. r.uid \in cancelled \ touched => items[n].cancelled
      BY <1>3, <1>6, <2>1, <2>2, AtWork DEF Sticks, Marked
    <2> QED
      BY <1>1, <1>3, <1>6, <2>2, <2>3, <2>4
         DEF Steady, Searches, Rewrites, Tells, Fresh, Base, There
  <1> QED
    BY <1>1, <1>2, <1>3, <1>6, <1>7, SoloQuiet DEF Stage, Keeps

(* An event goes into a file over the same event, or where it has none.    *)
LEMMA SoloPut ==
  ASSUME SoloInv, cast.exclusive, NEW n \in Names, NEW e \in Events, items' = Put(n, e),
         cancelled' = cancelled, touched' = touched,
         \A m \in Names : Holds(m, e.uid) => m = n,
         e.uid \in cancelled \ touched => e.cancelled
  PROVE  Unique' /\ Sticks'
  <1>1. /\ n \in Stored' /\ items'[n] = e /\ e # Foreign
        /\ \A m \in Names : m # n => /\ m \in Stored' <=> m \in Stored
                                     /\ m \in Stored => items'[m] = items[m]
    BY ConstantsAssumption DEF Put, Stored
  <1>2. \A m \in Names, u \in Uids : m # n => (Holds(m, u)' <=> Holds(m, u))
    BY <1>1 DEF Holds, IsEvent
  <1>3. \A u \in Uids : Holds(n, u)' <=> u = e.uid
    BY <1>1 DEF Holds, IsEvent
  <1>4. Unique'
    BY <1>2, <1>3 DEF SoloInv, Solo, Unique
  <1>5. ASSUME NEW u \in cancelled \ touched, NEW m \in Names, Holds(m, u)'
        PROVE  items'[m].cancelled
    <2>1. u \in Uids
      BY <1>5 DEF SoloInv, IInv, Sets
    <2>2. CASE m = n
      BY <1>1, <1>3, <1>5, <2>1, <2>2
    <2>3. CASE m # n
      <3>1. Holds(m, u) /\ m \in Stored
        BY <1>2, <1>5, <2>1, <2>3 DEF Holds, IsEvent
      <3> QED
        BY <1>1, <1>5, <2>3, <3>1 DEF SoloInv, Solo, Sticks, Marked
    <2> QED
      BY <2>2, <2>3
  <1> QED
    BY <1>4, <1>5 DEF Sticks, Marked

(* A file goes. *)
LEMMA SoloDrop ==
  ASSUME SoloInv, cast.exclusive, NEW n \in Names, items' = Drop(n),
         cancelled' = cancelled, touched \subseteq touched'
  PROVE  Unique' /\ Sticks'
  <1>1. \A m \in Names : m \in Stored' => m \in Stored /\ items'[m] = items[m]
    BY DEF Drop, Stored
  <1>2. \A m \in Names, u \in Uids : Holds(m, u)' => Holds(m, u)
    BY <1>1 DEF Holds, IsEvent
  <1>3. Unique'
    BY <1>2 DEF SoloInv, Solo, Unique
  <1>4. Sticks'
    <2>1. SUFFICES ASSUME NEW u \in cancelled \ touched, NEW m \in Names, Holds(m, u)'
                   PROVE  items'[m].cancelled
      BY DEF Sticks, Marked
    <2>2. u \in Uids
      BY <2>1 DEF SoloInv, IInv, Sets
    <2>3. Holds(m, u) /\ items'[m] = items[m]
      BY <1>1, <1>2, <2>1, <2>2 DEF Holds, IsEvent
    <2> QED
      BY <2>1, <2>3 DEF SoloInv, Solo, Sticks, Marked
  <1> QED
    BY <1>3, <1>4

LEMMA SoloPublish ==
  ASSUME SoloInv, NEW p \in Processes, Publish(p)
  PROVE  Solo'
  <1>1. PICK r : r = [proc[p] EXCEPT !.pc = "readback"]
    OBVIOUS
  <1>2. /\ proc[p].pc = "publish" /\ proc[p] \in Process
        /\ Become(p, r) /\ items' = Put(proc[p].name, proc[p].new) /\ Keeps
    BY <1>1, AtWork DEF Publish, Goto
  <1>3. /\ r \in Process
        /\ r.pc = "readback" /\ r.op = proc[p].op /\ r.uid = proc[p].uid
        /\ r.name = proc[p].name /\ r.orig = proc[p].orig /\ r.new = proc[p].new
    BY <1>1, <1>2 DEF Process
  <1>4. /\ proc[p].name \in Names /\ proc[p].new \in Events
        /\ proc[p].new.uid = proc[p].uid /\ proc[p].uid \in Uids
        /\ proc[p].op \in {"create", "modify", "cancel"}
    BY <1>2, AtWork DEF ProcessOK, Prepared
  <1>5. cast.exclusive => Unique' /\ Sticks' /\ Steady(r)'
    <2>1. SUFFICES ASSUME cast.exclusive PROVE Unique' /\ Sticks' /\ Steady(r)'
      OBVIOUS
    <2>2. Rewrites(proc[p]) /\ Fresh(proc[p]) /\ Unique /\ Sticks
      BY <2>1, AtWork DEF Steady
    <2>3. \A m \in Names : Holds(m, proc[p].uid) => m = proc[p].name
      <3>1. CASE proc[p].op = "create"
        BY <1>2, <2>2, <3>1 DEF Rewrites
      <3>2. CASE proc[p].op # "create"
        <4>1. There(proc[p]) = proc[p].orig /\ Base(proc[p])
          BY <1>2, <2>2, <3>2 DEF Rewrites
        <4>2. NoEvent \notin Events
          BY ConstantsAssumption DEF NoEvent, Events, Names
        <4>3. Holds(proc[p].name, proc[p].uid)
          BY <4>1, <4>2, ConstantsAssumption DEF There, Base, Holds, IsEvent
        <4> QED
          BY <1>4, <2>2, <4>3 DEF Unique
      <3> QED
        BY <3>1, <3>2
    <2>4. proc[p].uid \in cancelled \ touched => proc[p].new.cancelled
      BY <1>2, <2>2 DEF Rewrites, Fresh, Base
    <2>5. Unique' /\ Sticks'
      BY <1>2, <1>4, <2>1, <2>3, <2>4, SoloPut DEF Keeps
    <2>6. There(r)' = r.new
      BY <1>2, <1>3 DEF There, Put, Stored
    <2>7. cancelled' = cancelled /\ touched' = touched
      BY <1>2 DEF Keeps
    <2>8. Rewrites(r)'
      BY <1>2, <1>3, <2>2, <2>6, <2>7 DEF Rewrites, Base
    <2>9. Fresh(r)'
      BY <1>2, <1>3, <2>2, <2>7 DEF Fresh
    <2> QED
      BY <1>3, <2>5, <2>8, <2>9 DEF Steady, Searches, Tells
  <1> QED
    BY <1>2, <1>3, <1>5, SoloStep DEF Keeps

LEMMA SoloReadBackFails ==
  ASSUME SoloInv, NEW p \in Processes, ReadBackFails(p)
  PROVE  Solo'
  <1>1. PICK r : r = [proc[p] EXCEPT !.pc = "restore"]
    OBVIOUS
  <1>2. /\ proc[p].pc = "readback" /\ proc[p] \in Process
        /\ Become(p, r) /\ UNCHANGED items /\ Keeps
    BY <1>1, AtWork DEF ReadBackFails, Goto
  <1>3. /\ r \in Process
        /\ r.pc = "restore" /\ r.op = proc[p].op /\ r.uid = proc[p].uid
        /\ r.name = proc[p].name /\ r.orig = proc[p].orig /\ r.new = proc[p].new
    BY <1>1, <1>2 DEF Process
  <1>4. cast.exclusive => Steady(r)
    BY <1>2, <1>3, AtWork
       DEF Steady, Searches, Rewrites, Tells, Fresh, Base, There
  <1> QED
    BY <1>2, <1>3, <1>4, SoloQuiet DEF Keeps

LEMMA SoloRestoreFails ==
  ASSUME SoloInv, NEW p \in Processes, RestoreFails(p)
  PROVE  Solo'
  <1>1. PICK r : r = [proc[p] EXCEPT !.pc = "report", !.res = "readback_failed",
                                     !.spoilt = TRUE]
    OBVIOUS
  <1>2. /\ proc[p].pc = "restore" /\ proc[p] \in Process
        /\ Become(p, r) /\ UNCHANGED items /\ Keeps
    BY <1>1, AtWork DEF RestoreFails
  <1>3. /\ r.pc = "report" /\ r.op = proc[p].op /\ r.uid = proc[p].uid
        /\ r.name = proc[p].name /\ r.orig = proc[p].orig /\ r.new = proc[p].new
        /\ r.res = "readback_failed" /\ r.spoilt = TRUE
    BY <1>1, <1>2 DEF Process
  <1>4. r \in Process
    BY <1>1, <1>2 DEF Process, Outcomes
  <1>5. cast.exclusive => Steady(r)
    <2>1. SUFFICES ASSUME cast.exclusive PROVE Steady(r)
      OBVIOUS
    <2>2. There(proc[p]) = proc[p].new /\ Fresh(proc[p])
      BY <1>2, <2>1, AtWork DEF Steady, Rewrites
    <2>3. There(r) = r.new
      BY <1>3, <2>2 DEF There
    <2>4. Tells(r)
      BY <1>3, <2>3 DEF Tells
    <2> QED
      BY <1>2, <1>3, <2>2, <2>4 DEF Steady, Searches, Rewrites, Fresh
  <1> QED
    BY <1>2, <1>4, <1>5, SoloQuiet DEF Keeps

LEMMA SoloRestore ==
  ASSUME SoloInv, NEW p \in Processes, Restore(p)
  PROVE  Solo'
  <1>1. PICK r : r = [proc[p] EXCEPT !.pc = "report", !.res = "readback_failed",
                                     !.left = {}, !.ids = {}]
    OBVIOUS
  <1>2. /\ proc[p].pc = "restore" /\ proc[p] \in Process /\ Become(p, r) /\ Keeps
    BY <1>1, AtWork DEF Restore, End
  <1>3. /\ r \in Process
        /\ r.pc = "report" /\ r.op = proc[p].op /\ r.uid = proc[p].uid
        /\ r.name = proc[p].name /\ r.orig = proc[p].orig /\ r.new = proc[p].new
        /\ r.res = "readback_failed"
    BY <1>1, <1>2 DEF Process, Outcomes
  <1>4. /\ proc[p].name \in Names /\ proc[p].new \in Events
        /\ proc[p].new.uid = proc[p].uid /\ proc[p].uid \in Uids
    BY <1>2, AtWork DEF ProcessOK, Prepared
  <1>5. cast.exclusive => Unique' /\ Sticks' /\ Steady(r)'
    <2>1. SUFFICES ASSUME cast.exclusive PROVE Unique' /\ Sticks' /\ Steady(r)'
      OBVIOUS
    <2>2. Rewrites(proc[p]) /\ Fresh(proc[p]) /\ Unique /\ Sticks
      BY <2>1, AtWork DEF Steady
    <2>3. cancelled' = cancelled /\ touched' = touched
      BY <1>2 DEF Keeps
    <2>4. Unique' /\ Sticks' /\ There(r)' = r.orig
      <3>1. CASE proc[p].op = "create"
        <4>1. items' = Drop(proc[p].name) /\ proc[p].orig = NoEvent
          BY <1>2, <2>2, <3>1 DEF Restore, Rewrites
        <4>2. Unique' /\ Sticks'
          BY <1>4, <2>1, <2>3, <4>1, SoloDrop
        <4> QED
          BY <1>3, <4>1, <4>2 DEF There, Drop, Stored
      <3>2. CASE proc[p].op # "create"
        <4>1. /\ items' = Put(proc[p].name, proc[p].orig)
              /\ Base(proc[p]) /\ There(proc[p]) = proc[p].new
          BY <1>2, <2>2, <3>2 DEF Restore, Rewrites
        <4>2. NoEvent \notin Events
          BY ConstantsAssumption DEF NoEvent, Events, Names
        <4>3. Holds(proc[p].name, proc[p].uid)
          BY <1>4, <4>1, <4>2, ConstantsAssumption DEF There, Holds, IsEvent
        <4>4. \A m \in Names : Holds(m, proc[p].uid) => m = proc[p].name
          BY <1>4, <2>2, <4>3 DEF Unique
        <4>5. Unique' /\ Sticks'
          BY <1>4, <2>1, <2>3, <4>1, <4>4, SoloPut DEF Base
        <4> QED
          BY <1>3, <4>1, <4>5 DEF There, Put, Stored
      <3> QED
        BY <3>1, <3>2
    <2>5. Tells(r)'
      BY <1>3, <2>4 DEF Tells
    <2>6. Fresh(r)'
      BY <1>2, <1>3, <2>2, <2>3 DEF Fresh
    <2> QED
      BY <1>3, <2>4, <2>5, <2>6 DEF Steady, Searches, Rewrites
  <1> QED
    BY <1>2, <1>3, <1>5, SoloStep DEF Keeps

LEMMA SoloIdle ==
  Idle \in Process /\ Idle.pc = "idle" /\ Steady(Idle)
  BY IdleOK DEF Steady, Searches, Rewrites, Tells, Fresh

LEMMA SoloCrash ==
  ASSUME SoloInv, NEW p \in Processes, Crash(p)
  PROVE  Solo'
  BY SoloIdle, SoloQuiet DEF Crash, Keeps

(* A reported cancellation is what the files say. *)
LEMMA SoloReport ==
  ASSUME SoloInv, NEW p \in Processes, Report(p)
  PROVE  Solo'
  <1>1. /\ proc[p].pc = "report" /\ Become(p, Idle)
        /\ cancelled' = IF Reports(p, "cancel") THEN cancelled \cup {proc[p].uid}
                                                ELSE cancelled
        /\ cast' = cast /\ items' = items /\ touched' = touched
    BY DEF Report
  <1>2. Stored' = Stored
    BY <1>1 DEF Stored
  <1>3. cast.exclusive => Unique' /\ Sticks' /\ Steady(Idle)'
    <2>1. SUFFICES ASSUME cast.exclusive PROVE Unique' /\ Sticks' /\ Steady(Idle)'
      OBVIOUS
    <2>2. Unique /\ Sticks /\ Tells(proc[p])
      BY <2>1, AtWork DEF Steady
    <2>3. Unique'
      BY <1>1, <1>2, <2>2 DEF Unique, Holds, IsEvent
    <2>4. \A u \in cancelled' \ touched' : Marked(u)
      BY <1>1, <2>2 DEF Sticks, Reports, Tells
    <2>5. Sticks'
      BY <1>1, <1>2, <2>4 DEF Sticks, Marked, Holds, IsEvent
    <2>6. Steady(Idle)'
      BY IdleOK DEF Steady, Searches, Rewrites, Tells, Fresh
    <2> QED
      BY <2>3, <2>5, <2>6
  <1> QED
    BY <1>1, <1>3, SoloIdle, SoloStep

(* vdirsyncer finds everybody idle. *)
LEMMA SoloSync ==
  ASSUME SoloInv, Syncs, cast.exclusive => Unique' /\ Sticks'
  PROVE  Solo'
  <1>1. cast' = cast /\ proc' = proc
    BY DEF Syncs
  <1>2. SUFFICES ASSUME cast.exclusive PROVE Solo'
    BY <1>1 DEF Solo
  <1>3. \A p \in Processes : proc[p].pc = "idle"
    BY <1>2, IdleOK DEF Syncs, Quiet
  <1>4. Turns'
    BY <1>1, <1>3 DEF Turns
  <1>5. ASSUME NEW p \in Processes PROVE Steady(proc[p])'
    BY <1>1, <1>3 DEF Steady, Searches, Rewrites, Tells, Fresh
  <1> QED
    BY <1>1, <1>2, <1>4, <1>5 DEF Solo

LEMMA SoloForeign ==
  ASSUME SoloInv, cast.exclusive, NEW n \in Names, items' = Put(n, Foreign),
         cancelled' = cancelled, touched \subseteq touched'
  PROVE  Unique' /\ Sticks'
  <1>1. /\ items'[n] = Foreign
        /\ \A m \in Names : m # n => /\ m \in Stored' <=> m \in Stored
                                     /\ m \in Stored => items'[m] = items[m]
    BY DEF Put, Stored
  <1>2. \A m \in Names, u \in Uids :
          Holds(m, u)' => Holds(m, u) /\ items'[m] = items[m]
    BY <1>1 DEF Holds, IsEvent
  <1>3. Unique'
    BY <1>2 DEF SoloInv, Solo, Unique
  <1>4. Sticks'
    <2>1. SUFFICES ASSUME NEW u \in cancelled \ touched, NEW m \in Names, Holds(m, u)'
                   PROVE  items'[m].cancelled
      BY DEF Sticks, Marked
    <2>2. Holds(m, u) /\ items'[m] = items[m]
      BY <1>2, <2>1 DEF SoloInv, IInv, Sets
    <2> QED
      BY <2>1, <2>2 DEF SoloInv, Solo, Sticks, Marked
  <1> QED
    BY <1>3, <1>4

(* What is brought or changed is an event nobody else holds, and touched. *)
LEMMA SoloForeignPut ==
  ASSUME SoloInv, cast.exclusive, NEW n \in Names, NEW e \in Events, items' = Put(n, e),
         cancelled' = cancelled, touched \subseteq touched',
         \A m \in Names : Holds(m, e.uid) => m = n,
         e.uid \notin cancelled \ touched'
  PROVE  Unique' /\ Sticks'
  <1>1. /\ n \in Stored' /\ items'[n] = e /\ e # Foreign
        /\ \A m \in Names : m # n => /\ m \in Stored' <=> m \in Stored
                                     /\ m \in Stored => items'[m] = items[m]
    BY ConstantsAssumption DEF Put, Stored
  <1>2. \A m \in Names, u \in Uids : m # n => (Holds(m, u)' <=> Holds(m, u))
    BY <1>1 DEF Holds, IsEvent
  <1>3. \A u \in Uids : Holds(n, u)' <=> u = e.uid
    BY <1>1 DEF Holds, IsEvent
  <1>4. Unique'
    BY <1>2, <1>3 DEF SoloInv, Solo, Unique
  <1>5. Sticks'
    <2>1. SUFFICES ASSUME NEW u \in cancelled \ touched', NEW m \in Names, Holds(m, u)'
                   PROVE  items'[m].cancelled
      BY DEF Sticks, Marked
    <2>2. u \in Uids /\ u \in cancelled \ touched
      BY <2>1 DEF SoloInv, IInv, Sets
    <2>3. m # n
      BY <1>3, <2>1, <2>2
    <2>4. Holds(m, u) /\ items'[m] = items[m]
      BY <1>1, <1>2, <2>1, <2>2, <2>3 DEF Holds, IsEvent
    <2> QED
      BY <2>1, <2>2, <2>4 DEF SoloInv, Solo, Sticks, Marked
  <1> QED
    BY <1>4, <1>5

LEMMA SoloSyncAdds ==
  ASSUME SoloInv, NEW n \in Names, SyncAdds(n)
  PROVE  Solo'
  <1>1. Syncs /\ n \notin Stored /\ touched' = touched /\ cancelled' = cancelled
    BY DEF SyncAdds, Syncs
  <1>2. cast.exclusive => Unique' /\ Sticks'
    <2>1. SUFFICES ASSUME cast.exclusive PROVE Unique' /\ Sticks'
      OBVIOUS
    <2>2. CASE items' = Put(n, Foreign)
      BY <1>1, <2>1, <2>2, SoloForeign
    <2>3. ASSUME NEW u \in (Uids \ drawn) \cup touched, NEW c \in BOOLEAN,
                 \A m \in Stored : ~Holds(m, u),
                 items' = Put(n, [uid |-> u, text |-> Outside, cancelled |-> c])
          PROVE  Unique' /\ Sticks'
      <3>1. PICK e : e = [uid |-> u, text |-> Outside, cancelled |-> c]
        OBVIOUS
      <3>2. u \in Uids /\ u \notin cancelled \ touched'
        BY <1>1 DEF SoloInv, IInv, Sets
      <3>3. e \in Events /\ e.uid = u
        BY <3>1, <3>2 DEF Events, Authors
      <3>4. \A m \in Names : ~Holds(m, u)
        BY <2>3 DEF Holds, IsEvent
      <3> QED
        BY <1>1, <2>1, <2>3, <3>1, <3>2, <3>3, <3>4, SoloForeignPut
    <2> QED
      BY <2>2, <2>3 DEF SyncAdds
  <1> QED
    BY <1>1, <1>2, SoloSync

LEMMA SoloSyncChanges ==
  ASSUME SoloInv, NEW n \in Names, SyncChanges(n)
  PROVE  Solo'
  <1>1. Syncs /\ n \in Stored /\ Touch(n) /\ cancelled' = cancelled
    BY DEF SyncChanges, Syncs
  <1>2. /\ touched \subseteq touched'
        /\ items[n] # Foreign => items[n].uid \in touched'
    BY <1>1, TouchFile DEF SoloInv
  <1>3. cast.exclusive => Unique' /\ Sticks'
    <2>1. SUFFICES ASSUME cast.exclusive PROVE Unique' /\ Sticks'
      OBVIOUS
    <2>2. CASE items' = Put(n, Foreign)
      BY <1>1, <1>2, <2>1, <2>2, SoloForeign
    <2>3. ASSUME items[n] # Foreign, NEW c \in BOOLEAN,
                 items' = Put(n, [items[n] EXCEPT !.text = Outside, !.cancelled = c])
          PROVE  Unique' /\ Sticks'
      <3>1. PICK e : e = [items[n] EXCEPT !.text = Outside, !.cancelled = c]
        OBVIOUS
      <3>2. items[n] \in Events
        BY <1>1, <2>3 DEF SoloInv, IInv, Disk, Contents
      <3>3. e \in Events /\ e.uid = items[n].uid
        BY <3>1, <3>2 DEF Events, Authors
      <3>4. Holds(n, e.uid) /\ e.uid \in Uids
        BY <1>1, <2>3, <3>2, <3>3 DEF Holds, IsEvent, Events
      <3>5. \A m \in Names : Holds(m, e.uid) => m = n
        BY <2>1, <3>4 DEF SoloInv, Solo, Unique
      <3> QED
        BY <1>1, <1>2, <2>1, <2>3, <3>1, <3>3, <3>5, SoloForeignPut
    <2> QED
      BY <2>2, <2>3 DEF SyncChanges
  <1> QED
    BY <1>1, <1>3, SoloSync

LEMMA SoloSyncRemoves ==
  ASSUME SoloInv, NEW n \in Names, SyncRemoves(n)
  PROVE  Solo'
  <1>1. /\ Syncs /\ n \in Stored /\ Touch(n) /\ cancelled' = cancelled
        /\ items' = Drop(n)
    BY DEF SyncRemoves, Syncs
  <1>2. touched \subseteq touched'
    BY <1>1, TouchFile DEF SoloInv
  <1> QED
    BY <1>1, <1>2, SoloDrop, SoloSync

LEMMA SoloNext ==
  ASSUME SoloInv, [Next]_vars
  PROVE  SoloInv'
  <1>1. IInv'
    BY NextStep DEF SoloInv
  <1>2. CASE UNCHANGED vars
    <2>1. Solo'
      BY <1>2 DEF SoloInv, vars, Solo, Turns, Unique, Sticks, Marked, Holds, IsEvent,
         Stored, Steady, Searches, Rewrites, Tells, Fresh, Base, There
    <2> QED
      BY <1>1, <2>1 DEF SoloInv
  <1>3. CASE Sync
    <2>1. Solo'
      BY <1>3, SoloSyncAdds, SoloSyncChanges, SoloSyncRemoves DEF Sync
    <2> QED
      BY <1>1, <2>1 DEF SoloInv
  <1>4. ASSUME NEW p \in Processes,
               Beginning(p) \/ Searching(p) \/ Changing(p) \/ Report(p) \/ Crash(p)
        PROVE  SoloInv'
    <2>1. CASE Beginning(p)
      BY <1>1, <2>1, SoloBeginCreate, SoloBeginSearch DEF Beginning, SoloInv
    <2>2. CASE Searching(p)
      BY <1>1, <2>2, SoloEndings, SoloLook DEF Searching, SoloInv
    <2>3. CASE Changing(p)
      <3>1. Solo'
        BY <2>3, SoloEndings, SoloStage, SoloPublish, SoloReadBackFails, SoloRestore,
           SoloRestoreFails DEF Changing
      <3> QED
        BY <1>1, <3>1 DEF SoloInv
    <2>4. CASE Report(p)
      BY <1>1, <2>4, SoloReport DEF SoloInv
    <2>5. CASE Crash(p)
      BY <1>1, <2>5, SoloCrash DEF SoloInv
    <2> QED
      BY <1>4, <2>1, <2>2, <2>3, <2>4, <2>5
  <1> QED
    BY <1>2, <1>3, <1>4 DEF Next

LEMMA SoloInit == Init => SoloInv
  <1>1. SUFFICES ASSUME Init PROVE Solo
    BY InitStep DEF SoloInv
  <1>2. Stored = {} /\ cancelled = {} /\ \A p \in Processes : proc[p] = Idle
    BY <1>1 DEF Init, Stored
  <1>3. Turns /\ \A p \in Processes : Steady(proc[p])
    BY <1>2, SoloIdle DEF Turns
  <1>4. Unique /\ Sticks
    BY <1>2 DEF Unique, Sticks, Holds, IsEvent
  <1> QED
    BY <1>3, <1>4 DEF Solo

(* The inductive invariant for operations that take turns. *)
THEOREM SoloInvariant == Spec => []SoloInv
  BY SoloInit, SoloNext, PTL DEF Spec

(* With one operation at a time a reported cancellation lasts, whatever is *)
(* modified, restored, fails or ends later (adapters/khal/mutations.py,    *)
(* until vdirsyncer changes the event).                                    *)
THEOREM CancellationsStick == Spec => []CancelSticks
  <1>1. SoloInv => CancelSticks
    BY DEF SoloInv, Solo, Sticks, Marked, CancelSticks
  <1> QED
    BY <1>1, SoloInvariant, PTL

(* With one operation at a time the outcome tells what is in the file: the *)
(* event asked for, the file as it was, or, where the outcome says no      *)
(* more, the one or the other (adapters/khal/mutations.py).                *)
THEOREM OutcomesMatchTheDisk == Spec => []OutcomeMatchesDisk
  <1>1. ASSUME SoloInv PROVE OutcomeMatchesDisk
    <2>1. SUFFICES ASSUME cast.exclusive, NEW p \in Processes,
                          proc[p].pc = "report", proc[p].new # NoEvent
                   PROVE  There(proc[p]) \in Explained(p, proc[p].res)
      BY DEF OutcomeMatchesDisk, There
    <2>2. Tells(proc[p])
      BY <1>1, <2>1, AtWork DEF Steady
    <2>3. CASE proc[p].res = "ok"
      BY <2>1, <2>2, <2>3 DEF Tells, Explained
    <2>4. CASE proc[p].res = "readback_failed" /\ ~proc[p].spoilt
      BY <2>1, <2>2, <2>4 DEF Tells, Explained
    <2>5. CASE proc[p].res # "ok" /\ ~(proc[p].res = "readback_failed" /\ ~proc[p].spoilt)
      <3>1. Explained(p, proc[p].res) = {proc[p].orig, proc[p].new}
        BY <2>5 DEF Explained
      <3> QED
        BY <2>1, <2>2, <3>1 DEF Tells
    <2> QED
      BY <2>3, <2>4, <2>5
  <1> QED
    BY <1>1, SoloInvariant, PTL
=============================================================================
