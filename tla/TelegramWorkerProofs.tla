------------------------ MODULE TelegramWorkerProofs ------------------------
(***************************************************************************)
(* The worker's safety for any number of updates, batches, faults and      *)
(* stops.  The inductive invariant says where the head of the batch stands *)
(* relative to the checkpoint: never beyond it, and exactly at it between  *)
(* applying and checkpointing.                                             *)
(***************************************************************************)
EXTENDS TelegramWorker, TLAPS, SequenceTheorems

(* The first update that is not checkpointed. *)
Frontier == IF disk = 0 THEN 1 ELSE disk

Busy == worker.pc \in {"update", "checkpoint", "deliver"}

(* A batch is a run of consecutive identifiers, and not empty while one of *)
(* its updates is being handled.                                           *)
Consecutive(batch) ==
  \A i \in 1..(Len(batch) - 1) : batch[i + 1] = batch[i] + 1

BatchOK ==
  /\ Consecutive(worker.batch)
  /\ Busy => worker.batch # <<>>

(* Where the server and the head of the batch stand. *)
PositionOK ==
  /\ confirmed <= Frontier
  /\ worker.pc = "update" => Head(worker.batch) <= Frontier
  /\ worker.pc = "checkpoint" => Head(worker.batch) = Frontier
  /\ worker.pc = "deliver" => Head(worker.batch) + 1 = disk

(* The update being checkpointed has been applied. *)
InHand(u) == worker.pc = "checkpoint" /\ u = Head(worker.batch)

AppliedOK ==
  \A u \in routed :
    /\ u < disk \/ InHand(u) => applied[u] > 0
    /\ applied[u] <= lost[u] + (IF u < disk \/ InHand(u) THEN 1 ELSE 0)

AnsweredOK ==
  /\ AnswersAreFinal
  /\ worker.pc = "deliver" => answered[Head(worker.batch)] = 0

UnroutedOK == \A u \in Updates \ routed : applied[u] = 0

IInv ==
  /\ TypeOK
  /\ MemoryMatchesDisk
  /\ BatchOK
  /\ PositionOK
  /\ AppliedOK
  /\ UnroutedOK
  /\ AnsweredOK

-----------------------------------------------------------------------------
(* Facts about batches. *)

(* What remains of a batch is a batch, and starts at the next identifier. *)
LEMMA TailOfBatch ==
  ASSUME NEW batch \in Seq(Updates), batch # <<>>, Consecutive(batch)
  PROVE  /\ Head(batch) \in Updates
         /\ Tail(batch) \in Seq(Updates)
         /\ Consecutive(Tail(batch))
         /\ Len(batch) = 1 <=> Tail(batch) = <<>>
         /\ Tail(batch) # <<>> => Head(Tail(batch)) = Head(batch) + 1
  <1>1. /\ Head(batch) = batch[1]
        /\ Head(batch) \in Updates
        /\ Tail(batch) \in Seq(Updates)
        /\ Len(Tail(batch)) = Len(batch) - 1
        /\ \A i \in 1..Len(Tail(batch)) : Tail(batch)[i] = batch[i + 1]
    BY HeadTailProperties
  <1>2. Len(batch) \in Nat /\ Len(batch) > 0
    BY EmptySeq, LenProperties
  <1>3. Consecutive(Tail(batch))
    BY <1>1, <1>2 DEF Consecutive
  <1>4. Len(batch) = 1 <=> Tail(batch) = <<>>
    BY <1>1, <1>2, EmptySeq
  <1>5. ASSUME Tail(batch) # <<>>
        PROVE  Head(Tail(batch)) = Head(batch) + 1
    <2>1. Len(batch) > 1
      BY <1>2, <1>4, <1>5
    <2>2. Head(Tail(batch)) = Tail(batch)[1]
      BY <1>1, <1>5, HeadTailProperties
    <2>3. Tail(batch)[1] = batch[2] /\ batch[2] = batch[1] + 1
      BY <1>1, <1>2, <2>1 DEF Consecutive
    <2> QED
      BY <1>1, <2>2, <2>3
  <1> QED
    BY <1>1, <1>3, <1>4, <1>5

(* A fetched batch is consecutive and starts where the server was asked to.*)
LEMMA BatchProperties ==
  ASSUME TypeOK, NEW first \in Nat \ {0}
  PROVE  /\ Batch(first) \in Seq(Updates)
         /\ Consecutive(Batch(first))
         /\ Batch(first) # <<>> => Head(Batch(first)) = first
  <1>1. /\ BatchSize(first) \in Nat
        /\ BatchSize(first) > 0 => first + BatchSize(first) - 1 <= MaxUpdates
    BY ConstantsAssumption DEF BatchSize, TypeOK
  <1>2. PICK n \in Nat : n = BatchSize(first)
    BY <1>1
  <1>3. Batch(first) = [i \in 1..n |-> first + i - 1]
    BY <1>2 DEF Batch
  <1>4. \A i \in 1..n : first + i - 1 \in Updates
    BY <1>1, <1>2, ConstantsAssumption DEF Updates
  <1>5. Batch(first) \in Seq(Updates) /\ Len(Batch(first)) = n
    BY <1>3, <1>4
  <1>6. Consecutive(Batch(first))
    BY <1>3, <1>5 DEF Consecutive
  <1>7. Batch(first) # <<>> => Head(Batch(first)) = first
    BY <1>3, <1>5, EmptySeq, HeadTailProperties
  <1> QED
    BY <1>5, <1>6, <1>7

-----------------------------------------------------------------------------
LEMMA InitIInv == Init => IInv
  <1>1. SUFFICES ASSUME Init PROVE IInv
    OBVIOUS
  <1>2. \A u \in routed : u \in Updates
    BY <1>1 DEF Init
  <1>3. TypeOK
    BY <1>1, ConstantsAssumption DEF Init, TypeOK, Down, Updates
  <1> QED
    BY <1>1, <1>2, <1>3 DEF Init, IInv, Down, Busy, MemoryMatchesDisk, BatchOK,
       PositionOK, AppliedOK, AnsweredOK, UnroutedOK, AnswersAreFinal,
       Consecutive, Frontier, InHand, Updates

-----------------------------------------------------------------------------
(* Steps after which no update is in hand: the run ends, starts, or        *)
(* fetches nothing.                                                        *)
LEMMA NoBatchStep ==
  ASSUME IInv, TypeOK', NEW pc \in {"down", "stopped", "fetch"},
         worker'.pc = pc, worker'.batch = <<>>,
         pc = "fetch" => worker'.state = disk',
         confirmed' = confirmed, routed' = routed, answered' = answered,
         disk' >= disk,
         \A u \in routed :
           /\ u < disk' => applied'[u] > 0
           /\ applied'[u] <= lost'[u] + (IF u < disk' THEN 1 ELSE 0),
         \A u \in Updates \ routed : applied'[u] = 0
  PROVE  IInv'
  <1>1. MemoryMatchesDisk' /\ BatchOK'
    BY EmptySeq DEF MemoryMatchesDisk, BatchOK, Consecutive, Busy
  <1>2. PositionOK'
    BY SMTT(30) DEF IInv, PositionOK, Frontier, TypeOK
  <1>3. AppliedOK' /\ UnroutedOK'
    BY DEF AppliedOK, UnroutedOK, InHand, Updates
  <1>4. AnsweredOK'
    BY SMTT(30) DEF IInv, AnsweredOK, AnswersAreFinal, TypeOK, Updates
  <1> QED
    BY <1>1, <1>2, <1>3, <1>4 DEF IInv

(* What IInv says of the applied counts when nothing is in hand. *)
LEMMA NothingInHand ==
  ASSUME IInv, worker.pc # "checkpoint"
  PROVE  /\ \A u \in routed :
              /\ u < disk => applied[u] > 0
              /\ applied[u] <= lost[u] + (IF u < disk THEN 1 ELSE 0)
         /\ \A u \in Updates \ routed : applied[u] = 0
  BY DEF IInv, AppliedOK, UnroutedOK, InHand, Updates

(* What it says of the current update. *)
LEMMA CurrentFacts ==
  ASSUME IInv, Busy
  PROVE  /\ worker.batch \in Seq(Updates) /\ worker.batch # <<>>
         /\ Consecutive(worker.batch)
         /\ Current \in Updates
         /\ worker.state = disk
         /\ disk \in Nat
  <1>1. worker.batch \in Seq(Updates) /\ worker.batch # <<>>
        /\ Consecutive(worker.batch)
    BY DEF IInv, TypeOK, BatchOK
  <1> QED
    BY <1>1, TailOfBatch DEF IInv, TypeOK, MemoryMatchesDisk, Busy, Current

LEMMA SendStep ==
  ASSUME IInv, Send
  PROVE  IInv'
  <1>1. TypeOK'
    BY ConstantsAssumption DEF IInv, Send, TypeOK, Updates
  <1> QED
    BY <1>1 DEF IInv, Send, MemoryMatchesDisk, BatchOK, Busy, PositionOK,
       Frontier, AppliedOK, InHand, AnsweredOK, AnswersAreFinal, UnroutedOK, Updates

LEMMA LoadStep ==
  ASSUME IInv, Restart \/ StartAgain
  PROVE  IInv'
  <1>1. /\ worker.pc \in {"down", "stopped"}
        /\ worker' = [pc |-> "fetch", state |-> disk, batch |-> <<>>, failures |-> 0]
        /\ UNCHANGED <<sent, confirmed, routed, disk, applied, answered, lost,
                       faults, stops>>
    BY DEF Restart, StartAgain, Load, Down
  <1>2. TypeOK'
    BY SMTT(30), <1>1, ConstantsAssumption DEF IInv, TypeOK, Updates
  <1>3. disk' >= disk
    BY <1>1 DEF IInv, TypeOK, Updates
  <1> QED
    BY <1>1, <1>2, <1>3, NothingInHand, NoBatchStep

(* Both kinds of fetch: a batch that starts at or before the frontier. *)
LEMMA FetchedStep ==
  ASSUME IInv, worker.pc = "fetch", NEW first \in 1..Confirmed,
         Fetched(Batch(first)), faults' \in 0..MaxFaults,
         UNCHANGED <<sent, routed, disk, applied, answered, lost, stops>>
  PROVE  IInv'
  <1>1. /\ Confirmed \in 1..(MaxUpdates + 1)
        /\ Confirmed <= Frontier
        /\ worker.state = disk
    BY ConstantsAssumption DEF IInv, TypeOK, Confirmed, MemoryMatchesDisk,
       PositionOK, Frontier
  <1>2. first \in Nat \ {0} /\ first <= Frontier
    BY <1>1 DEF IInv, TypeOK, Frontier
  <1>3. PICK b : b = Batch(first)
    OBVIOUS
  <1>4. /\ b \in Seq(Updates)
        /\ Consecutive(b)
        /\ b # <<>> => Head(b) = first
    BY <1>2, <1>3, BatchProperties DEF IInv
  <1>5. /\ worker' = [worker EXCEPT !.pc = IF b = <<>> THEN "fetch" ELSE "update",
                                    !.batch = b, !.failures = 0]
        /\ confirmed' = Confirmed
    BY <1>3 DEF Fetched
  <1>6. 0 \in 0..(MaxFetchFailures - 1)
    BY ConstantsAssumption
  <1>7. worker' = [pc |-> IF b = <<>> THEN "fetch" ELSE "update",
                   state |-> disk, batch |-> b, failures |-> 0]
    BY <1>1, <1>5 DEF IInv, TypeOK
  <1>8. /\ worker'.pc = IF b = <<>> THEN "fetch" ELSE "update"
        /\ worker'.batch = b
        /\ worker'.state = disk
        /\ worker' \in [pc : {"down", "stopped", "fetch", "update", "checkpoint", "deliver"},
                 state : 0..(MaxUpdates + 1),
                 batch : Seq(Updates),
                 failures : 0..(MaxFetchFailures - 1)]
    BY <1>1, <1>4, <1>6, <1>7 DEF IInv, TypeOK, Updates
  <1>9. TypeOK'
    BY <1>1, <1>5, <1>8 DEF IInv, TypeOK, Updates
  <1>10. MemoryMatchesDisk' /\ BatchOK'
    BY <1>4, <1>8 DEF MemoryMatchesDisk, BatchOK, Busy
  <1>11. PositionOK'
    BY <1>1, <1>2, <1>4, <1>5, <1>8 DEF PositionOK, Frontier
  <1>12. AppliedOK' /\ UnroutedOK' /\ AnsweredOK'
    BY <1>8 DEF IInv, AppliedOK, InHand, UnroutedOK, AnsweredOK, AnswersAreFinal
  <1> QED
    BY <1>9, <1>10, <1>11, <1>12 DEF IInv

LEMMA FetchStep ==
  ASSUME IInv, Fetch \/ Redeliver
  PROVE  IInv'
  <1>1. Confirmed \in Nat \ {0}
    BY DEF IInv, TypeOK, Confirmed
  <1>2. CASE Fetch
    <2>1. faults' \in 0..MaxFaults
      BY <1>2 DEF Fetch, IInv, TypeOK
    <2> QED
      BY <1>1, <1>2, <2>1, FetchedStep DEF Fetch
  <1>3. CASE Redeliver
    <2>1. faults' \in 0..MaxFaults
      BY <1>3, ConstantsAssumption DEF Redeliver, Fault, IInv, TypeOK
    <2> QED
      BY <1>3, <2>1, FetchedStep DEF Redeliver
  <1> QED
    BY <1>2, <1>3

LEMMA FetchFailsStep ==
  ASSUME IInv, FetchFails
  PROVE  IInv'
  <1>1. faults' \in 0..MaxFaults
    BY SMTT(30), ConstantsAssumption DEF FetchFails, Fault, IInv, TypeOK
  <1>2. /\ worker.pc = "fetch"
        /\ UNCHANGED <<sent, confirmed, routed, disk, applied, answered, lost,
                       stops>>
    BY DEF FetchFails
  <1>3. CASE worker.failures + 1 >= MaxFetchFailures
    <2>1. worker' = [pc |-> "down", state |-> 0, batch |-> <<>>, failures |-> 0]
      BY <1>3 DEF FetchFails, Down
    <2>2. 0 \in 0..(MaxFetchFailures - 1) /\ 0 \in 0..(MaxUpdates + 1)
      BY ConstantsAssumption
    <2>3. TypeOK'
      BY <1>1, <1>2, <2>1, <2>2 DEF IInv, TypeOK, Updates
    <2>4. disk' >= disk
      BY <1>2 DEF IInv, TypeOK
    <2> QED
      BY <1>2, <2>1, <2>3, <2>4, NothingInHand, NoBatchStep
  <1>4. CASE ~(worker.failures + 1 >= MaxFetchFailures)
    <2>1. worker' = [worker EXCEPT !.failures = @ + 1]
      BY <1>4 DEF FetchFails
    <2>2. /\ worker'.pc = "fetch" /\ worker'.batch = worker.batch
          /\ worker'.state = worker.state
          /\ worker'.failures = worker.failures + 1
      BY <1>2, <2>1 DEF IInv, TypeOK
    <2>3. worker.failures + 1 \in 0..(MaxFetchFailures - 1)
      BY <1>4, ConstantsAssumption DEF IInv, TypeOK
    <2>4. worker' = [pc |-> worker.pc, state |-> worker.state,
                     batch |-> worker.batch, failures |-> worker.failures + 1]
      BY <2>1 DEF IInv, TypeOK
    <2>5. TypeOK'
      BY <1>1, <1>2, <2>3, <2>4 DEF IInv, TypeOK, Updates
    <2> QED
      BY <1>2, <2>2, <2>5 DEF IInv, MemoryMatchesDisk, BatchOK, Busy,
         PositionOK, Frontier, AppliedOK, InHand, AnsweredOK, AnswersAreFinal,
         UnroutedOK, Updates
  <1> QED
    BY <1>3, <1>4

-----------------------------------------------------------------------------
(* Steps on the current update. *)

(* Moving on to the rest of the batch. *)
LEMMA NextUpdateStep ==
  ASSUME IInv, Busy, worker.pc # "checkpoint",
         Current < disk,
         worker' = NextUpdate(worker),
         UNCHANGED <<sent, confirmed, routed, disk, applied, lost, faults, stops>>,
         AnsweredOK', answered' \in [Updates -> Nat]
  PROVE  IInv'
  <1>1. /\ Current \in Updates
        /\ Tail(worker.batch) \in Seq(Updates)
        /\ Consecutive(Tail(worker.batch))
        /\ Len(worker.batch) = 1 <=> Tail(worker.batch) = <<>>
        /\ Tail(worker.batch) # <<>> => Head(Tail(worker.batch)) = Current + 1
        /\ worker.state = disk
    BY CurrentFacts, TailOfBatch DEF Current
  <1>2. PICK t \in Seq(Updates) : t = Tail(worker.batch)
    BY <1>1
  <1>3. PICK n \in {"fetch", "update"} :
          n = IF Len(worker.batch) = 1 THEN "fetch" ELSE "update"
    OBVIOUS
  <1>4. worker' = [pc |-> n, state |-> disk, batch |-> t,
                   failures |-> worker.failures]
    BY <1>1, <1>2, <1>3 DEF IInv, TypeOK, NextUpdate
  <1>5. TypeOK'
    BY <1>4 DEF IInv, TypeOK, Updates
  <1>6. MemoryMatchesDisk' /\ BatchOK'
    BY <1>1, <1>2, <1>3, <1>4 DEF MemoryMatchesDisk, BatchOK, Busy
  <1>7. disk \in Nat /\ Current \in Nat
    BY <1>1 DEF IInv, TypeOK, Updates
  <1>8. PositionOK'
    BY <1>1, <1>2, <1>3, <1>4, <1>7 DEF IInv, PositionOK, Frontier
  <1>9. AppliedOK' /\ UnroutedOK'
    BY <1>3, <1>4, NothingInHand DEF AppliedOK, InHand, UnroutedOK, Updates
  <1> QED
    BY <1>5, <1>6, <1>8, <1>9 DEF IInv

LEMMA SkipStaleStep ==
  ASSUME IInv, SkipStale
  PROVE  IInv'
  <1>1. Busy /\ worker.pc = "update"
    BY DEF SkipStale, Busy
  <1>2. Current < disk
    BY <1>1, CurrentFacts DEF SkipStale, IsStale
  <1>3. worker'.pc # "deliver"
    BY <1>1 DEF SkipStale, NextUpdate, IInv, TypeOK
  <1>4. AnsweredOK' /\ answered' \in [Updates -> Nat]
    BY <1>3 DEF SkipStale, IInv, TypeOK, AnsweredOK, AnswersAreFinal, Updates
  <1> QED
    BY <1>1, <1>2, <1>4, NextUpdateStep DEF SkipStale

LEMMA DeliverStep ==
  ASSUME IInv, Deliver
  PROVE  IInv'
  <1>1. Busy /\ worker.pc = "deliver"
    BY DEF Deliver, Busy
  <1>2. /\ Current \in Updates /\ disk \in Nat
        /\ Current + 1 = disk
        /\ answered[Current] = 0
    BY <1>1, CurrentFacts DEF IInv, PositionOK, AnsweredOK, Current
  <1>3. Current < disk
    BY <1>2 DEF Updates
  <1>4. worker'.pc # "deliver"
    BY <1>1 DEF Deliver, NextUpdate, IInv, TypeOK
  <1>5. PICK c \in Updates : c = Current
    BY <1>2
  <1>6. answered' = answered \/ answered' = [answered EXCEPT ![c] = @ + 1]
    BY <1>5 DEF Deliver
  <1>7. /\ answered \in [Updates -> Nat] /\ answered[c] = 0
        /\ \A u \in Updates : answered[u] > 0 => answered[u] = 1 /\ u < disk
    BY <1>2, <1>5 DEF IInv, TypeOK, AnsweredOK, AnswersAreFinal
  <1>8. answered' \in [Updates -> Nat]
    BY <1>6, <1>7
  <1>9. ASSUME NEW u \in Updates, answered'[u] > 0
        PROVE  answered'[u] = 1 /\ u < disk
    BY <1>3, <1>5, <1>6, <1>7, <1>9
  <1>10. AnsweredOK'
    BY <1>4, <1>9 DEF AnsweredOK, AnswersAreFinal, Deliver, Updates
  <1> QED
    BY <1>1, <1>3, <1>8, <1>10, NextUpdateStep DEF Deliver

(* A fresh update stands at the frontier: nothing before it is missing and *)
(* it has neither been answered nor applied in a checkpointed run.         *)
LEMMA FreshCurrent ==
  ASSUME IInv, worker.pc = "update", ~IsStale(Current)
  PROVE  /\ Current \in Updates
         /\ Current = Frontier
         /\ Current >= disk
         /\ \A u \in Updates : u < disk => u # Current
  <1>1. /\ Current \in Updates /\ worker.state = disk /\ disk \in Nat
        /\ Current <= Frontier
    BY CurrentFacts DEF IInv, PositionOK, Busy, Current
  <1> QED
    BY <1>1 DEF IsStale, Frontier, Updates

(* The applied counts after the current update was applied. *)
LEMMA AppliedFacts ==
  ASSUME IInv, worker.pc = "update", ~IsStale(Current), applied' = Applied
  PROVE  /\ applied' \in [Updates -> Nat]
         /\ \A u \in routed : u < disk \/ u = Current => applied'[u] > 0
         /\ \A u \in routed : applied'[u] <=
              lost[u] + (IF u < disk \/ u = Current THEN 1 ELSE 0)
         /\ \A u \in Updates \ routed : applied'[u] = 0
  <1>1. PICK c \in Updates : c = Current
    BY FreshCurrent
  <1>2. \A u \in Updates : u < disk => u # c
    BY <1>1, FreshCurrent
  <1>3. /\ \A u \in routed :
              /\ u < disk => applied[u] > 0
              /\ applied[u] <= lost[u] + (IF u < disk THEN 1 ELSE 0)
        /\ \A u \in Updates \ routed : applied[u] = 0
    BY NothingInHand
  <1>4. /\ applied \in [Updates -> Nat] /\ lost \in [Updates -> Nat]
        /\ routed \subseteq Updates /\ disk \in Nat
    BY DEF IInv, TypeOK
  <1>5. applied' = IF c \in routed THEN [applied EXCEPT ![c] = @ + 1] ELSE applied
    BY <1>1 DEF Applied
  <1>6. ~(c < disk)
    BY <1>2
  <1>7. applied' \in [Updates -> Nat]
    BY <1>4, <1>5
  <1>8. ASSUME NEW u \in routed
        PROVE  /\ u < disk \/ u = c => applied'[u] > 0
               /\ applied'[u] <= lost[u] + (IF u < disk \/ u = c THEN 1 ELSE 0)
    <2>1. u \in Updates /\ applied[u] \in Nat /\ lost[u] \in Nat
      BY <1>4, <1>8
    <2>2. CASE u = c
      <3>1. applied'[u] = applied[u] + 1
        BY <1>4, <1>5, <1>8, <2>2
      <3> QED
        BY <1>3, <1>6, <1>8, <2>1, <2>2, <3>1
    <2>3. CASE u # c
      <3>1. applied'[u] = applied[u]
        BY <1>4, <1>5, <2>1, <2>3
      <3> QED
        BY <1>3, <1>8, <2>3, <3>1
    <2> QED
      BY <2>2, <2>3
  <1>9. ASSUME NEW u \in Updates \ routed
        PROVE  applied'[u] = 0
    BY <1>3, <1>4, <1>5, <1>9
  <1> QED
    BY <1>1, <1>7, <1>8, <1>9

LEMMA PrepareStep ==
  ASSUME IInv, Prepare
  PROVE  IInv'
  <1>1. /\ worker.pc = "update" /\ ~IsStale(Current) /\ Busy
        /\ applied' = Applied
        /\ worker' = [worker EXCEPT !.pc = "checkpoint"]
        /\ UNCHANGED <<sent, confirmed, routed, disk, answered, lost, faults, stops>>
    BY DEF Prepare, Busy
  <1>2. worker' = [pc |-> "checkpoint", state |-> worker.state,
                   batch |-> worker.batch, failures |-> worker.failures]
    BY <1>1 DEF IInv, TypeOK
  <1>3. TypeOK'
    BY <1>1, <1>2, AppliedFacts DEF IInv, TypeOK, Updates
  <1>4. MemoryMatchesDisk' /\ BatchOK'
    BY <1>1, <1>2 DEF IInv, MemoryMatchesDisk, BatchOK, Busy
  <1>5. PositionOK'
    BY <1>1, <1>2, FreshCurrent DEF IInv, PositionOK, Current, Frontier
  <1>6. AppliedOK' /\ UnroutedOK'
    BY <1>1, <1>2, AppliedFacts DEF AppliedOK, UnroutedOK, InHand, Current, Updates
  <1>7. AnsweredOK'
    BY <1>1, <1>2 DEF IInv, AnsweredOK, AnswersAreFinal, Updates
  <1> QED
    BY <1>3, <1>4, <1>5, <1>6, <1>7 DEF IInv

-----------------------------------------------------------------------------
(* Runs that end. *)

(* A run that ends without a checkpoint for the update it has applied. *)
LEMMA UncheckpointedEnd ==
  ASSUME IInv, Busy, EndUncheckpointed, TypeOK',
         UNCHANGED <<confirmed, routed, disk, answered>>,
         \A u \in routed : u < disk => applied'[u] > 0,
         \A u \in routed : applied'[u] <=
           lost[u] + (IF u < disk \/ u = Current THEN 1 ELSE 0),
         \A u \in routed : u = Current => u >= disk,
         \A u \in Updates \ routed : applied'[u] = 0
  PROVE  IInv'
  <1>1. PICK c \in Updates : c = Current
    BY CurrentFacts
  <1>2. lost' = IF c \in routed THEN [lost EXCEPT ![c] = @ + 1] ELSE lost
    BY <1>1 DEF EndUncheckpointed
  <1>3. /\ lost \in [Updates -> Nat] /\ lost' \in [Updates -> Nat]
        /\ applied' \in [Updates -> Nat]
        /\ routed \subseteq Updates /\ disk \in Nat
    BY SMTT(30) DEF IInv, TypeOK, Updates
  <1>4. ASSUME NEW u \in routed
        PROVE  applied'[u] <= lost'[u] + (IF u < disk THEN 1 ELSE 0)
    <2>1. u \in Updates /\ lost[u] \in Nat /\ applied'[u] \in Nat
      BY <1>3, <1>4
    <2>2. applied'[u] <= lost[u] + (IF u < disk \/ u = c THEN 1 ELSE 0)
      BY <1>1, <1>4
    <2>3. CASE u = c
      <3>1. lost'[u] = lost[u] + 1
        BY <1>2, <1>3, <1>4, <2>3
      <3>2. ~(u < disk)
        BY <1>1, <1>3, <1>4, <2>3 DEF Updates
      <3> QED
        BY <2>1, <2>2, <2>3, <3>1, <3>2
    <2>4. CASE u # c
      <3>1. lost'[u] = lost[u]
        BY <1>2, <1>3, <2>1, <2>4
      <3> QED
        BY <2>2, <2>4, <3>1
    <2> QED
      BY <2>3, <2>4
  <1>5. worker'.pc = "down" /\ worker'.batch = <<>>
    BY DEF EndUncheckpointed, Down
  <1>6. disk' >= disk
    BY <1>3
  <1> QED
    BY <1>4, <1>5, <1>6, NoBatchStep

(* The worker and the lost counts keep their types when a run ends. *)
LEMMA EndTypes ==
  ASSUME IInv, Busy, EndUncheckpointed
  PROVE  /\ worker' \in [pc : {"down", "stopped", "fetch", "update", "checkpoint", "deliver"},
                 state : 0..(MaxUpdates + 1),
                 batch : Seq(Updates),
                 failures : 0..(MaxFetchFailures - 1)]
         /\ lost' \in [Updates -> Nat]
  <1>1. 0 \in 0..(MaxFetchFailures - 1) /\ 0 \in 0..(MaxUpdates + 1)
    BY ConstantsAssumption
  <1>2. worker' = [pc |-> "down", state |-> 0, batch |-> <<>>, failures |-> 0]
    BY DEF EndUncheckpointed, Down
  <1>3. PICK c \in Updates : c = Current
    BY CurrentFacts
  <1>4. lost' = IF c \in routed THEN [lost EXCEPT ![c] = @ + 1] ELSE lost
    BY <1>3 DEF EndUncheckpointed
  <1>5. lost \in [Updates -> Nat]
    BY DEF IInv, TypeOK
  <1> QED
    BY <1>1, <1>2, <1>4, <1>5

LEMMA FaultType ==
  ASSUME IInv, Fault
  PROVE  faults' \in 0..MaxFaults
  BY ConstantsAssumption DEF IInv, TypeOK, Fault

LEMMA PrepareFailsStep ==
  ASSUME IInv, PrepareFails
  PROVE  IInv'
  <1>1. /\ worker.pc = "update" /\ ~IsStale(Current) /\ Busy
        /\ Fault /\ applied' = Applied /\ EndUncheckpointed
        /\ UNCHANGED <<sent, confirmed, routed, disk, answered, stops>>
    BY DEF PrepareFails, Busy
  <1>2. TypeOK'
    BY <1>1, AppliedFacts, EndTypes, FaultType DEF IInv, TypeOK, Updates
  <1>3. Current >= disk
    BY <1>1, FreshCurrent
  <1> QED
    BY <1>1, <1>2, <1>3, AppliedFacts, UncheckpointedEnd

(* At the checkpoint the current update is at the frontier and applied. *)
LEMMA AtCheckpoint ==
  ASSUME IInv, worker.pc = "checkpoint"
  PROVE  /\ Current \in Updates /\ Current = Frontier
         /\ disk \in Nat
         /\ Current >= disk
         /\ \A u \in Updates : u < Current + 1 <=> u < disk \/ u = Current
         /\ \A u \in routed : u < disk \/ u = Current => applied[u] > 0
         /\ \A u \in routed : applied[u] <=
              lost[u] + (IF u < disk \/ u = Current THEN 1 ELSE 0)
         /\ \A u \in Updates \ routed : applied[u] = 0
  <1>1. Current \in Updates /\ Current = Frontier /\ disk \in Nat
    BY CurrentFacts DEF IInv, PositionOK, Busy, Current
  <1>2. \A u \in routed :
          /\ u < disk \/ u = Current => applied[u] > 0
          /\ applied[u] <= lost[u] + (IF u < disk \/ u = Current THEN 1 ELSE 0)
    BY DEF IInv, AppliedOK, InHand, Current
  <1>3. \A u \in Updates \ routed : applied[u] = 0
    BY DEF IInv, UnroutedOK
  <1>4. Current >= disk
        /\ \A u \in Updates : u < Current + 1 <=> u < disk \/ u = Current
    BY <1>1 DEF Frontier, Updates
  <1> QED
    BY <1>1, <1>2, <1>3, <1>4

LEMMA AdvanceFailsStep ==
  ASSUME IInv, AdvanceFails \/ (Crash /\ worker.pc = "checkpoint")
  PROVE  IInv'
  <1>1. /\ worker.pc = "checkpoint" /\ Busy /\ Fault /\ EndUncheckpointed
        /\ UNCHANGED <<sent, confirmed, routed, disk, applied, answered, stops>>
    BY DEF AdvanceFails, Crash, Busy
  <1>2. TypeOK'
    BY <1>1, EndTypes, FaultType DEF IInv, TypeOK, Updates
  <1> QED
    BY <1>1, <1>2, AtCheckpoint, UncheckpointedEnd

LEMMA AdvanceStep ==
  ASSUME IInv, Advance
  PROVE  IInv'
  <1>1. /\ worker.pc = "checkpoint"
        /\ UNCHANGED <<sent, confirmed, routed, applied, answered, faults, stops>>
    BY DEF Advance
  <1>2. PICK c \in Updates : c = Current
    BY <1>1, AtCheckpoint
  <1>3. /\ disk \in Nat /\ c >= disk /\ c = Frontier /\ c + 1 \in 0..(MaxUpdates + 1)
    BY <1>1, <1>2, AtCheckpoint, ConstantsAssumption DEF Updates
  <1>4. /\ disk' = c + 1
        /\ worker' = [worker EXCEPT !.pc = "deliver", !.state = c + 1]
        /\ UNCHANGED lost
    BY <1>2, <1>3 DEF Advance, Updates
  <1>5. worker' = [pc |-> "deliver", state |-> c + 1,
                   batch |-> worker.batch, failures |-> worker.failures]
    BY <1>4 DEF IInv, TypeOK
  <1>6. TypeOK'
    BY <1>1, <1>3, <1>4, <1>5 DEF IInv, TypeOK, Updates
  <1>7. MemoryMatchesDisk' /\ BatchOK'
    BY <1>1, <1>4, <1>5 DEF IInv, MemoryMatchesDisk, BatchOK, Busy
  <1>8. Head(worker.batch) = c
    BY <1>2 DEF Current
  <1>9. PositionOK'
    BY <1>1, <1>3, <1>4, <1>5, <1>8 DEF IInv, TypeOK, PositionOK, Frontier
  <1>10. AppliedOK' /\ UnroutedOK'
    BY <1>1, <1>2, <1>4, <1>5, AtCheckpoint
    DEF IInv, TypeOK, AppliedOK, UnroutedOK, InHand, Updates
  <1>11. AnsweredOK'
    <2>1. ~(c < disk) /\ answered[c] \in Nat
      BY SMTT(30), <1>3 DEF IInv, TypeOK, Updates
    <2>2. answered[c] = 0
      BY <2>1 DEF IInv, AnsweredOK, AnswersAreFinal
    <2>3. AnswersAreFinal'
      BY SMTT(30), <1>1, <1>3, <1>4 DEF IInv, TypeOK, AnsweredOK, AnswersAreFinal, Updates
    <2> QED
      BY <1>1, <1>5, <1>8, <2>2, <2>3 DEF AnsweredOK
  <1> QED
    BY <1>6, <1>7, <1>9, <1>10, <1>11 DEF IInv

LEMMA AdvanceUnreportedStep ==
  ASSUME IInv, AdvanceUnreported
  PROVE  IInv'
  <1>1. /\ worker.pc = "checkpoint" /\ Fault
        /\ UNCHANGED <<sent, confirmed, routed, applied, answered, lost, stops>>
        /\ disk' = Current + 1
        /\ worker' = [pc |-> "down", state |-> 0, batch |-> <<>>, failures |-> 0]
    BY DEF AdvanceUnreported, Down
  <1>2. 0 \in 0..(MaxFetchFailures - 1) /\ 0 \in 0..(MaxUpdates + 1)
    BY ConstantsAssumption
  <1>3. disk' \in 0..(MaxUpdates + 1) /\ disk' >= disk
    BY <1>1, AtCheckpoint, ConstantsAssumption DEF Updates
  <1>4. TypeOK'
    BY <1>1, <1>2, <1>3, FaultType DEF IInv, TypeOK, Updates
  <1>5. \A u \in routed : u \in Updates
    BY DEF IInv, TypeOK
  <1>6. \A u \in routed :
          /\ u < disk' => applied'[u] > 0
          /\ applied'[u] <= lost'[u] + (IF u < disk' THEN 1 ELSE 0)
    BY <1>1, <1>5, AtCheckpoint
  <1>7. \A u \in Updates \ routed : applied'[u] = 0
    BY <1>1, AtCheckpoint
  <1> QED
    BY <1>1, <1>3, <1>4, <1>6, <1>7, NoBatchStep

LEMMA EndStep ==
  ASSUME IInv, Stop \/ (Crash /\ worker.pc # "checkpoint")
  PROVE  IInv'
  <1>1. /\ worker.pc # "checkpoint"
        /\ UNCHANGED <<sent, confirmed, routed, disk, applied, answered, lost>>
    BY DEF Stop, Crash
  <1>2. PICK pc \in {"down", "stopped"} :
          worker' = [pc |-> pc, state |-> 0, batch |-> <<>>, failures |-> 0]
    BY DEF Stop, Crash, Down
  <1>3. 0 \in 0..(MaxFetchFailures - 1) /\ 0 \in 0..(MaxUpdates + 1)
    BY ConstantsAssumption
  <1>4. faults' \in 0..MaxFaults /\ stops' \in 0..MaxStops
    BY SMTT(30), ConstantsAssumption DEF Stop, Crash, Fault, IInv, TypeOK
  <1>5. TypeOK' /\ disk' >= disk
    BY <1>1, <1>2, <1>3, <1>4 DEF IInv, TypeOK, Updates
  <1> QED
    BY <1>1, <1>2, <1>5, NothingInHand, NoBatchStep

-----------------------------------------------------------------------------
LEMMA NextIInv ==
  ASSUME IInv, [Next]_vars
  PROVE  IInv'
  <1>1. CASE UNCHANGED vars
    BY <1>1 DEF vars, IInv, TypeOK, Updates, MemoryMatchesDisk, BatchOK, Busy,
       PositionOK, Frontier, AppliedOK, InHand, UnroutedOK, AnsweredOK,
       AnswersAreFinal
  <1>2. CASE Send \/ StartAgain \/ Stop
    BY <1>2, SendStep, LoadStep, EndStep
  <1>3. CASE Run
    BY <1>3, LoadStep, FetchStep, SkipStaleStep, PrepareStep, AdvanceStep,
       DeliverStep DEF Run
  <1>4. CASE Fail
    BY <1>4, FetchStep, FetchFailsStep, PrepareFailsStep, AdvanceFailsStep,
       AdvanceUnreportedStep, EndStep DEF Fail
  <1> QED
    BY <1>1, <1>2, <1>3, <1>4 DEF Next

(* The inductive invariant of the worker. *)
THEOREM InductiveInvariant == Spec => []IInv
  BY InitIInv, NextIInv, PTL DEF Spec

(* Types, among them the bound on fetch failures in a row. *)
THEOREM WorkerTypes == Spec => []TypeOK
  BY InductiveInvariant, PTL DEF IInv

(* No update the checkpoint has passed was left unapplied. *)
THEOREM NoUpdateIsLost == Spec => []CheckpointedIsApplied
  <1>1. IInv => CheckpointedIsApplied
    BY DEF IInv, AppliedOK, CheckpointedIsApplied
  <1> QED
    BY <1>1, InductiveInvariant, PTL

(* An update is repeated only for runs that ended before its checkpoint. *)
THEOREM RepeatsNeedACutRun == Spec => []RepeatsAreAccounted
  <1>1. ASSUME IInv, NEW u \in Updates
        PROVE  applied[u] <= lost[u] + 1
    <2>1. applied[u] \in Nat /\ lost[u] \in Nat
      BY <1>1 DEF IInv, TypeOK
    <2>2. CASE u \in routed
      BY <1>1, <2>1, <2>2 DEF IInv, AppliedOK
    <2>3. CASE u \notin routed
      BY <1>1, <2>1, <2>3 DEF IInv, UnroutedOK
    <2> QED
      BY <2>2, <2>3
  <1>2. IInv => RepeatsAreAccounted
    BY <1>1 DEF RepeatsAreAccounted
  <1> QED
    BY <1>2, InductiveInvariant, PTL

(* At most one answer per update, never before its checkpoint. *)
THEOREM AnswersComeOnce == Spec => []AnswersAreFinal
  <1>1. IInv => AnswersAreFinal
    BY DEF IInv, AnsweredOK
  <1> QED
    BY <1>1, InductiveInvariant, PTL

(* The checkpoint in memory is never stale. *)
THEOREM MemoryIsCurrent == Spec => []MemoryMatchesDisk
  <1>1. IInv => MemoryMatchesDisk
    BY DEF IInv
  <1> QED
    BY <1>1, InductiveInvariant, PTL

-----------------------------------------------------------------------------
(* What the server may forget, and what the checkpoint may pass.           *)

(* The server drops an update once a poll names an identifier above it, and*)
(* never hands it out again by itself.                                     *)
DroppedIsApplied ==
  \A u \in routed : u < confirmed => applied[u] > 0

(* A poll never makes the server drop an update that was not applied, with *)
(* a checkpoint or, on a first start, without one.                         *)
THEOREM NothingDroppedUnapplied == Spec => []DroppedIsApplied
  <1>1. ASSUME IInv, NEW u \in routed, u < confirmed
        PROVE  applied[u] > 0
    <2>1. /\ u \in Nat /\ u >= 1 /\ disk \in Nat /\ confirmed \in Nat
          /\ confirmed <= Frontier
      BY <1>1 DEF IInv, TypeOK, PositionOK, Updates
    <2>2. u < disk
      BY <1>1, <2>1 DEF Frontier
    <2> QED
      BY <1>1, <2>2 DEF IInv, AppliedOK
  <1>2. IInv => DroppedIsApplied
    BY <1>1 DEF DroppedIsApplied
  <1> QED
    BY <1>2, InductiveInvariant, PTL

(* The checkpoint only moves past the first update that it has not passed, *)
(* and only once that was applied or found not to be for the bot.          *)
PassesOneUpdate ==
  disk' # disk => /\ disk' = Frontier + 1
                  /\ Frontier \in routed => applied[Frontier] > 0
CheckpointSkipsNothing == [][PassesOneUpdate]_vars

(* What is done with a batch, of the server's own order or redelivered,    *)
(* moves the file over one update at a time: no update is passed together  *)
(* with the one before it, none twice.                                     *)
THEOREM CheckpointGoesOneByOne == Spec => CheckpointSkipsNothing
  <1>1. ASSUME IInv, [Next]_vars
        PROVE  PassesOneUpdate
    <2>1. CASE Advance \/ AdvanceUnreported
      <3>1. worker.pc = "checkpoint"
        BY <2>1 DEF Advance, AdvanceUnreported
      <3>2. disk' = disk \/ disk' = Current + 1
        BY <2>1 DEF Advance, AdvanceUnreported
      <3> QED
        BY <1>1, <3>1, <3>2, AtCheckpoint DEF PassesOneUpdate
    <2>2. CASE UNCHANGED vars
      BY <2>2 DEF vars, PassesOneUpdate
    <2>3. CASE Send \/ StartAgain \/ Stop \/ Restart
      BY <2>3 DEF Send, StartAgain, Stop, Restart, PassesOneUpdate
    <2>4. CASE Fetch \/ Redeliver \/ FetchFails \/ SkipStale \/ Prepare
      BY <2>4 DEF Fetch, Redeliver, FetchFails, SkipStale, Prepare, PassesOneUpdate
    <2>5. CASE Deliver \/ PrepareFails \/ AdvanceFails \/ Crash
      BY <2>5 DEF Deliver, PrepareFails, AdvanceFails, Crash, PassesOneUpdate
    <2> QED
      BY <1>1, <2>1, <2>2, <2>3, <2>4, <2>5 DEF Next, Run, Fail
  <1> QED
    BY <1>1, InductiveInvariant, PTL DEF Spec, CheckpointSkipsNothing
=============================================================================
