----------------------------- MODULE AuditChain -----------------------------
(***************************************************************************)
(* The hash-chained audit file (audit/integrity_store.py, integrity.py,    *)
(* verification.py) as a sequence of lines, written by processes that each *)
(* read and verify the whole file and then append one envelope, with no    *)
(* lock between the two; beside the plain store of the first release       *)
(* (audit/store.py), which appends without looking, and hands that edit    *)
(* the file.                                                               *)
(*                                                                         *)
(* SHA-256 is taken to be collision free: the hash of an event chained to  *)
(* a previous hash is the sequence of the events it stands for, and the    *)
(* null previous hash is the empty sequence.                               *)
(***************************************************************************)
EXTENDS Naturals, Sequences, FiniteSets, SequencesExt

CONSTANTS
  Writers,         \* processes with an IntegrityJsonlAuditStore on the file
  Events,          \* audit events
  NoEvent,         \* no event: an unreadable line, an idle writer
  Casts,           \* the ways the file may be used: see cast
  MaxLines,        \* bound: lines in the file
  MaxWriteFaults,  \* bound: writes that fail or are torn
  MaxEdits         \* bound: edits by hand

ASSUME ChainAssumption ==
  /\ NoEvent \notin Events
  /\ Casts \subseteq [writers : SUBSET Writers, exclusive : BOOLEAN, plain : BOOLEAN,
                      faults : 0..MaxWriteFaults, edits : 0..MaxEdits]
  /\ MaxLines \in Nat /\ MaxWriteFaults \in Nat /\ MaxEdits \in Nat

VARIABLES
  cast,         \* who writes, whether one at a time (hands included), whether the
                \* plain store is used too, and the bounds on faults and edits; fixed
  file,         \* the lines of the audit file
  writer,       \* per process: what its append has verified
  attested,     \* every hash an envelope was ever given
  writeFaults,  \* writes failed or torn so far
  edits         \* edits by hand so far

chainVars == <<cast, file, writer, attested, writeFaults, edits>>

(* A line is an envelope, a plain event, or text that does not parse       *)
(* ("broken", or "partial" while its newline is missing).                  *)
Lines == [form  : {"envelope", "plain", "broken", "partial"},
          event : Events \cup {NoEvent},
          prev  : Seq(Events),
          hash  : Seq(Events)]

EventHash(e, prev) == Append(prev, e)

(* Faulty variant: the payload is stored where its hash belongs. *)
EnvelopeUnhashed(e, prev) ==
  [form |-> "envelope", event |-> e, prev |-> prev, hash |-> e]

Envelope(e, prev) ==
  [form |-> "envelope", event |-> e, prev |-> prev, hash |-> EventHash(e, prev)]
Plain(e) == [form |-> "plain", event |-> e, prev |-> <<>>, hash |-> <<>>]
Text(form) == [form |-> form, event |-> NoEvent, prev |-> <<>>, hash |-> <<>>]

IdleWriter == [pc |-> "idle", event |-> NoEvent, tail |-> <<>>]

ChainTypeOK ==
  /\ cast \in Casts
  /\ file \in Seq(Lines)
  /\ writer \in [Writers -> [pc : {"idle", "write"},
                             event : Events \cup {NoEvent},
                             tail : Seq(Events)]]
  /\ attested \subseteq Seq(Events)
  /\ writeFaults \in 0..MaxWriteFaults
  /\ edits \in 0..MaxEdits

-----------------------------------------------------------------------------
(* Reading and verifying. *)

(* The line where reading stops: text that does not parse raises, and a    *)
(* format other than the first line's is "mixed".                          *)
Stops(f) == {i \in DOMAIN f : \/ f[i].form \in {"broken", "partial"}
                              \/ f[i].form # f[1].form}

FileFormat(f) ==
  IF f = <<>> THEN "empty"
  ELSE IF Stops(f) = {} THEN (IF f[1].form = "plain" THEN "legacy" ELSE "integrity")
  ELSE LET i == CHOOSE i \in Stops(f) : \A j \in Stops(f) : i <= j
       IN  IF f[i].form \in {"broken", "partial"} THEN "unreadable" ELSE "mixed"

(* _verify_envelope with its link to the line before taken on trust. *)
SealedUnlinked(f, i) == f[i].hash = EventHash(f[i].event, f[i].prev)

(* _verify_envelope: the link to the line before (null for the first), and *)
(* the hash of the event.                                                  *)
Sealed(f, i) ==
  /\ f[i].prev = IF i = 1 THEN <<>> ELSE f[i - 1].hash
  /\ f[i].hash = EventHash(f[i].event, f[i].prev)

(* checked_events: verification stops at the first envelope that fails. *)
CheckedEvents(f) ==
  IF FileFormat(f) = "integrity"
    THEN CHOOSE n \in 0..Len(f) :
           /\ \A i \in 1..n : Sealed(f, i)
           /\ n < Len(f) => ~Sealed(f, n + 1)
    ELSE 0

Valid(f) == \/ FileFormat(f) = "empty"
            \/ FileFormat(f) = "integrity" /\ CheckedEvents(f) = Len(f)

TailHash(f) == IF f = <<>> THEN <<>> ELSE f[Len(f)].hash

ReadNothing == [raised |-> FALSE, events |-> <<>>]

(* Faulty variant: the events before the first line that does not parse    *)
(* are returned.                                                           *)
ReadAllLenient ==
  LET bad == {i \in DOMAIN file : file[i].form \in {"broken", "partial"}}
  IN  [raised |-> FALSE,
       events |-> [i \in {n \in DOMAIN file : \A b \in bad : n < b} |->
                     file[i].event]]

(* read_all: the events of all lines, in file order.  One line that does   *)
(* not parse or has another format, or a file of plain lines, raises an    *)
(* AuditStoreError, and nothing is returned.  Links and hashes are not     *)
(* verified.                                                               *)
ReadAll ==
  IF FileFormat(file) \in {"empty", "integrity"}
    THEN [raised |-> FALSE, events |-> [i \in DOMAIN file |-> file[i].event]]
    ELSE [raised |-> TRUE, events |-> <<>>]

-----------------------------------------------------------------------------
ChainInit ==
  /\ cast \in Casts
  /\ file \in {<<>>} \cup (IF cast.plain THEN {<<Plain(e)>> : e \in Events} ELSE {})
  /\ writer = [w \in Writers |-> IdleWriter]
  /\ attested = {}
  /\ writeFaults = 0
  /\ edits = 0

Quiet == \A w \in Writers : writer[w] = IdleWriter

(* Faulty variant: a partial last line is overwritten. *)
WrittenOverPartial(f, line) ==
  IF f # <<>> /\ f[Len(f)].form = "partial"
    THEN [f EXCEPT ![Len(f)] = line]
    ELSE Append(f, line)

(* Opening in append mode: text after a missing newline continues the last *)
(* line, which then never parses.                                          *)
Written(f, line) ==
  IF f # <<>> /\ f[Len(f)].form = "partial"
    THEN [f EXCEPT ![Len(f)] = IF line.form = "partial" THEN line
                                                        ELSE Text("broken")]
    ELSE Append(f, line)

(* append, first half: the file is read, its format and chain verified.    *)
(* A file that is legacy, mixed, unreadable or invalid is refused with an  *)
(* AuditStoreError and nothing changes.                                    *)
Inspect(w, e) ==
  /\ writer[w] = IdleWriter
  /\ cast.exclusive => Quiet
  /\ Valid(file)
  /\ Len(file) < MaxLines
  /\ writer' = [writer EXCEPT
       ![w] = [pc |-> "write", event |-> e, tail |-> TailHash(file)]]
  /\ UNCHANGED <<cast, file, attested, writeFaults, edits>>

(* append, second half: the envelope is linked to the tail that was        *)
(* verified, and written to whatever the file is by now.  A flush or fsync *)
(* that fails after the line is complete changes what the append reports,  *)
(* not the file.                                                           *)
Write(w) ==
  /\ writer[w].pc = "write"
  /\ LET line == Envelope(writer[w].event, writer[w].tail)
     IN  /\ file' = Written(file, line)
         /\ attested' = attested \cup {line.hash}
  /\ writer' = [writer EXCEPT ![w] = IdleWriter]
  /\ UNCHANGED <<cast, writeFaults, edits>>

(* The write stops inside the line, by an error or the end of the process. *)
Tear(w) ==
  /\ writer[w].pc = "write"
  /\ writeFaults < cast.faults
  /\ file' = Written(file, Text("partial"))
  /\ writer' = [writer EXCEPT ![w] = IdleWriter]
  /\ writeFaults' = writeFaults + 1
  /\ UNCHANGED <<cast, attested, edits>>

(* It fails, or the process ends, before anything is written. *)
WriteFails(w) ==
  /\ writer[w].pc = "write"
  /\ writeFaults < cast.faults
  /\ writer' = [writer EXCEPT ![w] = IdleWriter]
  /\ writeFaults' = writeFaults + 1
  /\ UNCHANGED <<cast, file, attested, edits>>

(* JsonlAuditStore.append: one plain line, without reading the file. *)
PlainAppend(e) ==
  /\ cast.plain
  /\ cast.exclusive => Quiet
  /\ Len(file) < MaxLines
  /\ file' = Written(file, Plain(e))
  /\ UNCHANGED <<cast, writer, attested, writeFaults, edits>>

(* Its line can be torn as well. *)
PlainTear ==
  /\ cast.plain
  /\ cast.exclusive => Quiet
  /\ writeFaults < cast.faults
  /\ Len(file) < MaxLines
  /\ file' = Written(file, Text("partial"))
  /\ writeFaults' = writeFaults + 1
  /\ UNCHANGED <<cast, writer, attested, edits>>

-----------------------------------------------------------------------------
(* Edits by hand.  Whoever edits can move, drop and copy what is there and *)
(* change one field at a time, but does not compute hashes.                *)

Edit(f) ==
  /\ edits < cast.edits
  /\ cast.exclusive => Quiet
  /\ edits' = edits + 1
  /\ file' = f
  /\ UNCHANGED <<cast, writer, attested, writeFaults>>

ChangeEvent == \E i \in DOMAIN file, e \in Events :
  file[i].form = "envelope" /\ Edit([file EXCEPT ![i].event = e])

ChangeHash == \E i \in DOMAIN file, h \in attested :
  file[i].form = "envelope" /\ Edit([file EXCEPT ![i].hash = h])

ChangeLink == \E i \in DOMAIN file, h \in attested \cup {<<>>} :
  file[i].form = "envelope" /\ Edit([file EXCEPT ![i].prev = h])

DropLine == \E i \in DOMAIN file : Edit(RemoveAt(file, i))

SwapLines == \E i, j \in DOMAIN file :
  i < j /\ Edit([file EXCEPT ![i] = file[j], ![j] = file[i]])

CopyLine == \E i \in DOMAIN file, j \in 1..(Len(file) + 1) :
  Len(file) < MaxLines /\ Edit(InsertAt(file, j, file[i]))

-----------------------------------------------------------------------------
WriterStep(w) ==
  \/ \E e \in Events : Inspect(w, e)
  \/ Write(w)
  \/ Tear(w)
  \/ WriteFails(w)

HandEdit ==
  ChangeEvent \/ ChangeHash \/ ChangeLink \/ DropLine \/ SwapLines \/ CopyLine

ChainNext ==
  \/ \E w \in cast.writers : WriterStep(w)
  \/ \E e \in Events : PlainAppend(e)
  \/ PlainTear
  \/ HandEdit

ChainSpec == ChainInit /\ [][ChainNext]_chainVars

-----------------------------------------------------------------------------
(* Properties. *)

(* What verification vouches for was written: the events it checked, up to *)
(* the first failure, are in the order some writer gave them, whatever was *)
(* edited, dropped, moved or copied since.                                 *)
VouchesForHistory ==
  \A n \in 1..CheckedEvents(file) : [i \in 1..n |-> file[i].event] \in attested

(* The events of the whole lines before the first that does not parse:     *)
(* what the file still records, whether or not it can be read.             *)
EventsRecorded ==
  LET bad == {i \in DOMAIN file : file[i].form \in {"broken", "partial"}}
      n   == IF bad = {} THEN Len(file)
             ELSE (CHOOSE i \in bad : \A j \in bad : i <= j) - 1
  IN  [i \in 1..n |-> file[i].event]

Health == IF Valid(file) THEN "sound"
          ELSE IF FileFormat(file) = "integrity" THEN "forked" ELSE "torn"

(* The log promises nothing about hands and plain lines. *)
Promised == ~cast.plain /\ cast.edits = 0

ChainLog == INSTANCE AuditLog WITH Entries <- Events,
              log    <- IF Promised THEN EventsRecorded ELSE <<>>,
              health <- IF Promised THEN Health ELSE "sound",
              answer <- IF Promised THEN ReadAll ELSE ReadNothing

(* Without hands and plain lines the file is the log its writers and       *)
(* readers rely on: however appends race and fail, no event recorded is    *)
(* lost or reordered, a forked chain stays forked, and read_all returns    *)
(* every event recorded until the file is torn; from then on it raises,    *)
(* and the file takes nothing more.                                        *)
ChainImplementsLog == ChainLog!Spec
=============================================================================
