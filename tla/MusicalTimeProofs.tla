-------------------------- MODULE MusicalTimeProofs --------------------------
(***************************************************************************)
(* Proofs about what happens in time: the queue of utility/spsc_queue.hpp  *)
(* and the tempo worker that produces for one, the beat grid and the grid  *)
(* taken over from Rekordbox, the deck's control quantizer and transport   *)
(* follower, rates and loops of the varispeed renderer, and the envelope   *)
(* of a note.                                                              *)
(*                                                                         *)
(* With one producer and one consumer the queue hands on what was pushed,  *)
(* whole, in order and without a gap, for every capacity (QueueIsFifo):    *)
(* the slots from tail on hold what is owed to the consumer (Held), and    *)
(* the slot being written is never one of them (Ring).  The tempo worker   *)
(* is such a producer until it finds the queue full and pops itself        *)
(* (TempoResultsInOrder).                                                  *)
(*                                                                         *)
(* The others are functions of their inputs, and what is proved of them    *)
(* holds for all inputs: a frame's beat is at that frame again             *)
(* (BeatsMapBack), an imported grid is one the deck can play               *)
(* (ImportedGridsFit), an event is published in the frame it waited for    *)
(* (EventsKeepTime), a following deck stays in its range (FollowerInRange),*)
(* a loop never runs dry (LoopPlaysOn) and needs no chunk below the        *)
(* retention floor (FloorSuffices), and a released voice is free in time   *)
(* (NoteEnds).  Where the code runs over a sequence the model folds over   *)
(* it; the ...InOrder and ...InTurn lemmas take such a fold apart,         *)
(* by the smallest prefix that would contradict it (SmallestNumber).       *)
(***************************************************************************)
EXTENDS TempoAnalysis, RekordboxImport, DeckControls,
        VarispeedLoop, Envelope, SequenceTheorems, WellFoundedInduction, TLAPS

(* The slot k places behind i, for k < Capacity. *)
Place(i, k) == IF i + k < Capacity THEN i + k ELSE i + k - Capacity

Popped == Len(popped)
Count == pushed - Popped

QueueTypeOK ==
  /\ head \in SlotsOf /\ tail \in SlotsOf
  /\ values \in [SlotsOf -> Int]
  /\ pusher \in [pc : {"idle", "copy", "copied", "store"}, at : SlotsOf]
  /\ popper \in [pc : {"idle", "copy", "copied", "store"}, at : SlotsOf, value : Int]
  /\ pushed \in Nat /\ popped \in Seq(Int)

(* The indices say how many elements are in the queue; one slot is free,   *)
(* and the producer is in it.                                              *)
Ring ==
  /\ Count \in 0 .. Capacity - 1
  /\ head = Place(tail, Count)
  /\ pusher.pc # "idle" => pusher.at = head /\ Count < Capacity - 1
  /\ popper.pc # "idle" => popper.at = tail /\ Count > 0

(* What is in the queue, and what the two threads carry. *)
Held ==
  /\ \A k \in 0 .. Count - 1 : values[Place(tail, k)] = Popped + k + 1
  /\ pusher.pc = "store" => values[head] = pushed + 1
  /\ popper.pc \in {"copied", "store"} => popper.value = Popped + 1

PoppedInOrder == \A i \in 1 .. Popped : popped[i] = i

QueueInv == QueueTypeOK /\ Ring /\ Held /\ PoppedInOrder

-----------------------------------------------------------------------------
(* The ring                                                                *)

(* The slot after the last is the first. *)
LEMMA NextSlot ==
  ASSUME NEW i \in SlotsOf
  PROVE  After(i) = (IF i = Capacity - 1 THEN 0 ELSE i + 1) /\ After(i) \in SlotsOf
<1>1. Capacity \in Nat /\ Capacity > 1 /\ i \in Nat /\ i < Capacity
  BY QueueAssumption DEF SlotsOf
<1>2. CASE i = Capacity - 1
  <2>1. Capacity % Capacity = 0
    BY <1>1
  <2> QED
    BY <1>1, <1>2, <2>1 DEF After, SlotsOf
<1>3. CASE i # Capacity - 1
  <2>1. (i + 1) % Capacity = i + 1
    BY <1>1, <1>3
  <2> QED
    BY <1>1, <1>3, <2>1 DEF After, SlotsOf
<1> QED
  BY <1>2, <1>3

(* The slots in use are distinct, and the free one is none of them. *)
LEMMA Places ==
  ASSUME NEW i \in SlotsOf, NEW k \in 0 .. Capacity - 1
  PROVE  /\ Place(i, k) \in SlotsOf
         /\ Place(i, 0) = i
         /\ k + 1 < Capacity => After(Place(i, k)) = Place(i, k + 1)
         /\ k > 0 => Place(After(i), k - 1) = Place(i, k)
         /\ \A j \in 0 .. Capacity - 1 : j # k => Place(i, j) # Place(i, k)
<1>1. Capacity \in Nat /\ Capacity > 1 /\ i \in Nat /\ i < Capacity /\ k \in Nat /\ k < Capacity
  BY QueueAssumption DEF SlotsOf
<1>2. Place(i, k) \in SlotsOf /\ Place(i, 0) = i
  BY <1>1 DEF Place, SlotsOf
<1>3. k + 1 < Capacity => After(Place(i, k)) = Place(i, k + 1)
  BY <1>1, <1>2, NextSlot DEF Place
<1>4. k > 0 => Place(After(i), k - 1) = Place(i, k)
  BY <1>1, NextSlot DEF Place
<1>5. \A j \in 0 .. Capacity - 1 : j # k => Place(i, j) # Place(i, k)
  BY <1>1 DEF Place
<1> QED
  BY <1>2, <1>3, <1>4, <1>5

(* The index of the producer finds the queue full exactly when it holds    *)
(* one element less than it has slots, and the one of the consumer finds   *)
(* it empty exactly when it holds none.                                    *)
LEMMA FullAndEmpty ==
  ASSUME QueueInv
  PROVE  /\ Full <=> Count = Capacity - 1
         /\ tail = head <=> Count = 0
<1>1. /\ Capacity \in Nat /\ Capacity > 1 /\ tail \in Nat /\ tail < Capacity
      /\ Count \in Nat /\ Count < Capacity /\ head = Place(tail, Count) /\ head \in SlotsOf
  BY QueueAssumption DEF QueueInv, QueueTypeOK, Ring, SlotsOf
<1> HIDE DEF Count
<1> QED
  BY <1>1, NextSlot DEF Full, Place

-----------------------------------------------------------------------------
(* The two threads                                                         *)

(* A push loads the index when a slot is free. *)
LEMMA PushLoadKeeps == QueueInv /\ PushLoad => QueueInv'
<1> SUFFICES ASSUME QueueInv, PushLoad PROVE QueueInv'
  OBVIOUS
<1>1. CASE Full
  BY <1>1 DEF PushLoad, QueueInv, QueueTypeOK, Ring, Held, PoppedInOrder, Count, Popped
<1>2. CASE ~ Full
  <2>1. pusher' = [pc |-> "copy", at |-> head] /\ Count < Capacity - 1
    BY <1>2, FullAndEmpty, QueueAssumption DEF PushLoad, QueueInv, Ring
  <2>2. QueueTypeOK'
    BY <2>1 DEF PushLoad, QueueInv, QueueTypeOK
  <2>3. Ring' /\ Held' /\ PoppedInOrder'
    BY <2>1 DEF PushLoad, QueueInv, Ring, Held, PoppedInOrder, Count, Popped
  <2> QED
    BY <2>2, <2>3 DEF QueueInv
<1> QED
  BY <1>1, <1>2

(* While it copies, it writes to the free slot. *)
LEMMA PushWrites ==
  ASSUME QueueInv, NEW v \in Int, NEW pc \in {"copied", "store"},
         pusher.pc # "idle", pusher' = [pusher EXCEPT !.pc = pc], pc = "store" => v = pushed + 1,
         values' = [values EXCEPT ![pusher.at] = v],
         UNCHANGED <<head, tail, popper, pushed, popped>>
  PROVE  QueueInv'
<1>1. /\ pusher.at = head /\ head = Place(tail, Count) /\ Count \in 0 .. Capacity - 1
      /\ head \in SlotsOf /\ tail \in SlotsOf /\ Count' = Count /\ Popped' = Popped
  BY DEF QueueInv, QueueTypeOK, Ring, Count, Popped
<1>2. QueueTypeOK'
  BY DEF QueueInv, QueueTypeOK
<1>3. pusher'.pc = pc /\ pusher'.at = pusher.at
  BY DEF QueueInv, QueueTypeOK
<1>4. Ring'
  BY <1>1, <1>3 DEF QueueInv, Ring
<1>5. values'[head] = v
  BY <1>1 DEF QueueInv, QueueTypeOK
<1>6. ASSUME NEW k \in 0 .. Count - 1
      PROVE  values'[Place(tail, k)] = values[Place(tail, k)]
  <2>1. k \in 0 .. Capacity - 1 /\ k # Count
    BY <1>1, QueueAssumption
  <2>2. Place(tail, k) \in SlotsOf /\ Place(tail, k) # head
    BY <1>1, <2>1, Places
  <2> QED
    BY <1>1, <2>2 DEF QueueInv, QueueTypeOK
<1>7. Held'
  BY <1>1, <1>3, <1>5, <1>6 DEF QueueInv, Held
<1>8. PoppedInOrder'
  BY DEF QueueInv, PoppedInOrder, Popped
<1> QED
  BY <1>2, <1>4, <1>7, <1>8 DEF QueueInv

(* Then the index is stored: the element is the last in the queue. *)
LEMMA PushStoreKeeps == QueueInv /\ PushStore => QueueInv'
<1> SUFFICES ASSUME QueueInv, PushStore PROVE QueueInv'
  OBVIOUS
<1>1. /\ pusher.at = head /\ head = Place(tail, Count) /\ Count \in Nat /\ Count + 1 < Capacity
      /\ head \in SlotsOf /\ tail \in SlotsOf /\ values[head] = pushed + 1
      /\ pushed \in Nat /\ Popped \in Nat /\ pushed = Popped + Count
  BY QueueAssumption, LenProperties
     DEF PushStore, QueueInv, QueueTypeOK, Ring, Held, Count, Popped
<1>2. /\ head' = After(head) /\ tail' = tail /\ values' = values /\ popper' = popper
      /\ pushed' = pushed + 1 /\ popped' = popped
  BY <1>1 DEF PushStore
<1>9. Count' = Count + 1 /\ Popped' = Popped
  BY <1>1, <1>2 DEF Count, Popped
<1>10. head' = Place(tail, Count + 1) /\ head' \in SlotsOf
  <2>1. Count \in 0 .. Capacity - 1 /\ Count + 1 < Capacity
    BY <1>1, QueueAssumption
  <2>2. After(Place(tail, Count)) = Place(tail, Count + 1)
    BY <1>1, <2>1, Places
  <2> QED
    BY <1>1, <1>2, <2>2, NextSlot
<1>3. pusher' = [pusher EXCEPT !.pc = "idle"] /\ pusher'.pc = "idle"
  BY DEF PushStore, QueueInv, QueueTypeOK
<1>4. QueueTypeOK'
  <2>1. pusher' \in [pc : {"idle", "copy", "copied", "store"}, at : SlotsOf]
    BY <1>3 DEF QueueInv, QueueTypeOK
  <2> QED
    BY <1>2, <1>10, <2>1 DEF QueueInv, QueueTypeOK
<1>5. Ring'
  BY <1>1, <1>2, <1>3, <1>9, <1>10, QueueAssumption DEF QueueInv, Ring
<1>6. Held'
  BY <1>1, <1>2, <1>3, <1>9 DEF QueueInv, Held
<1>7. PoppedInOrder'
  BY DEF PushStore, QueueInv, PoppedInOrder, Popped
<1> QED
  BY <1>4, <1>5, <1>6, <1>7 DEF QueueInv

(* A pop loads the index when there is an element. *)
LEMMA PopLoadKeeps == QueueInv /\ PopLoad => QueueInv'
<1> SUFFICES ASSUME QueueInv, PopLoad PROVE QueueInv'
  OBVIOUS
<1>1. popper' = [pc |-> "copy", at |-> tail, value |-> 0] /\ Count > 0
  BY FullAndEmpty, QueueAssumption DEF PopLoad, QueueInv, Ring
<1>2. QueueTypeOK'
  BY <1>1 DEF PopLoad, QueueInv, QueueTypeOK
<1>3. Ring' /\ Held' /\ PoppedInOrder'
  BY <1>1 DEF PopLoad, QueueInv, Ring, Held, PoppedInOrder, Count, Popped
<1> QED
  BY <1>2, <1>3 DEF QueueInv

(* It copies the first element, which nobody writes to. *)
LEMMA PopReads ==
  ASSUME QueueInv, PopCopy \/ PopCopied
  PROVE  QueueInv'
<1>1. /\ popper.pc # "idle" /\ popper.at = tail /\ Count > 0 /\ Count \in Nat
      /\ tail \in SlotsOf /\ Count' = Count /\ Popped' = Popped
      /\ UNCHANGED <<head, tail, values, pusher, pushed, popped>>
  BY QueueAssumption DEF PopCopy, PopCopied, QueueInv, QueueTypeOK, Ring, Count, Popped
<1>2. values[tail] = Popped + 1
  <2>1. 0 \in 0 .. Count - 1 /\ 0 \in 0 .. Capacity - 1 /\ Popped \in Nat
    BY <1>1, QueueAssumption, LenProperties DEF QueueInv, QueueTypeOK, Popped
  <2>2. Place(tail, 0) = tail
    BY <1>1, <2>1, Places
  <2> QED
    BY <2>1, <2>2 DEF QueueInv, Held
<1>3. /\ popper' \in [pc : {"idle", "copy", "copied", "store"}, at : SlotsOf, value : Int]
      /\ popper'.pc \in {"copied", "store"} /\ popper'.at = tail /\ popper'.value = Popped + 1
  <2>1. CASE PopCopy
    BY <1>1, <1>2, <2>1 DEF PopCopy, QueueInv, QueueTypeOK
  <2>2. CASE PopCopied
    <3>1. popper.value = Popped + 1
      BY <2>2 DEF PopCopied, QueueInv, Held
    <3>2. popper' = [popper EXCEPT !.pc = "store", !.value = popper.value]
      BY <1>1, <1>2, <2>2, <3>1 DEF PopCopied
    <3> QED
      BY <1>1, <3>1, <3>2 DEF QueueInv, QueueTypeOK
  <2> QED
    BY <2>1, <2>2
<1>4. QueueTypeOK'
  BY <1>1, <1>3 DEF QueueInv, QueueTypeOK
<1>5. Ring' /\ Held' /\ PoppedInOrder'
  BY <1>1, <1>3 DEF QueueInv, Ring, Held, PoppedInOrder
<1> QED
  BY <1>4, <1>5 DEF QueueInv

(* Then the index is stored: the element leaves the queue. *)
LEMMA PopStoreKeeps == QueueInv /\ PopStore => QueueInv'
<1> SUFFICES ASSUME QueueInv, PopStore PROVE QueueInv'
  OBVIOUS
<1>1. /\ popper.at = tail /\ head = Place(tail, Count) /\ Count \in Nat /\ Count > 0
      /\ Count < Capacity /\ head \in SlotsOf /\ tail \in SlotsOf /\ popper.value = Popped + 1
      /\ pushed \in Nat /\ Popped \in Nat /\ pushed = Popped + Count /\ popped \in Seq(Int)
      /\ Capacity \in Nat
  <2>1. Popped \in Nat /\ popped \in Seq(Int) /\ pushed \in Nat
    BY LenProperties DEF QueueInv, QueueTypeOK, Popped
  <2>2. popper.at = tail /\ head = Place(tail, Count) /\ Count \in 0 .. Capacity - 1 /\ Count > 0
    BY DEF PopStore, QueueInv, Ring
  <2>3. head \in SlotsOf /\ tail \in SlotsOf /\ popper.value = Popped + 1
    BY DEF PopStore, QueueInv, QueueTypeOK, Held
  <2>4. pushed = Popped + Count
    BY <2>1 DEF Count
  <2> QED
    BY <2>1, <2>2, <2>3, <2>4, QueueAssumption
<1>2. /\ tail' = After(tail) /\ tail' \in SlotsOf /\ head' = head /\ values' = values
      /\ pusher' = pusher /\ pushed' = pushed /\ popped' = Append(popped, Popped + 1)
      /\ popper' = [popper EXCEPT !.pc = "idle"] /\ popper'.pc = "idle"
  BY <1>1, NextSlot DEF PopStore, QueueInv, QueueTypeOK
<1>3. /\ popped' \in Seq(Int) /\ Popped' = Popped + 1
      /\ \A i \in 1 .. Popped : popped'[i] = popped[i]
      /\ popped'[Popped + 1] = Popped + 1
  BY <1>1, <1>2, AppendProperties DEF Popped
<1>4. Count' = Count - 1
  BY <1>1, <1>2, <1>3 DEF Count
<1>5. QueueTypeOK'
  BY <1>2, <1>3 DEF QueueInv, QueueTypeOK
<1>6. \A k \in 1 .. Capacity - 1 : Place(tail', k - 1) = Place(tail, k)
  BY <1>1, <1>2, Places
<1>7. Ring'
  <2>1. Count \in 1 .. Capacity - 1
    BY <1>1
  <2>2. head' = Place(tail', Count - 1)
    BY <1>1, <1>2, <1>6, <2>1
  <2>3. pusher.pc # "idle" => pusher.at = head
    BY DEF QueueInv, Ring
  <2> QED
    BY <1>1, <1>2, <1>4, <2>1, <2>2, <2>3 DEF Ring
<1>8. Held'
  <2>1. ASSUME NEW k \in 0 .. Count - 2 PROVE values'[Place(tail', k)] = Popped' + k + 1
    <3>1. k + 1 \in 1 .. Capacity - 1 /\ k + 1 \in 0 .. Count - 1 /\ (k + 1) - 1 = k
      <4>1. Count \in Int /\ Capacity \in Int
        BY <1>1
      <4> QED
        BY <1>1, <2>1, <4>1
    <3>2. Place(tail', k) = Place(tail, k + 1)
      BY <1>6, <3>1
    <3>3. values[Place(tail, k + 1)] = Popped + (k + 1) + 1
      BY <3>1 DEF QueueInv, Held
    <3> QED
      BY <1>1, <1>2, <1>3, <3>2, <3>3
  <2>2. Count' - 1 = Count - 2
    BY <1>1, <1>4
  <2> QED
    BY <1>2, <1>4, <2>1, <2>2 DEF QueueInv, Held
<1>9. PoppedInOrder'
  <2>1. ASSUME NEW i \in 1 .. Popped + 1 PROVE popped'[i] = i
    <3>1. i = Popped + 1 \/ i \in 1 .. Popped
      BY <1>1, <2>1
    <3> QED
      BY <1>3, <3>1 DEF QueueInv, PoppedInOrder
  <2> QED
    BY <1>3, <2>1 DEF PoppedInOrder
<1> QED
  BY <1>5, <1>7, <1>8, <1>9 DEF QueueInv

-----------------------------------------------------------------------------
(* The queue *)

(* At first the queue is empty. *)
LEMMA QueueStarts == QueueInit => QueueInv
<1> SUFFICES ASSUME QueueInit PROVE QueueInv
  OBVIOUS
<1>1. /\ 0 \in SlotsOf /\ popped = <<>> /\ Popped = 0 /\ pushed = 0 /\ Count = 0
      /\ 0 \in 0 .. Capacity - 1 /\ popped \in Seq(Int)
  <2>1. 0 \in SlotsOf /\ 0 \in 0 .. Capacity - 1
    BY QueueAssumption DEF SlotsOf
  <2>2. popped = <<>> /\ pushed = 0
    BY DEF QueueInit
  <2>3. Popped = 0 /\ popped \in Seq(Int)
    BY <2>2, EmptySeq DEF Popped
  <2> QED
    BY <2>1, <2>2, <2>3 DEF Count
<1>2. QueueTypeOK
  BY <1>1 DEF QueueInit, QueueTypeOK
<1>3. Place(0, 0) = 0
  BY <1>1, Places
<1>4. Ring /\ Held /\ PoppedInOrder
  BY <1>1, <1>3 DEF QueueInit, Ring, Held, PoppedInOrder
<1> QED
  BY <1>2, <1>4 DEF QueueInv

(* Every step of either thread keeps the invariant. *)
LEMMA QueueStep == QueueInv /\ (Push \/ Pop) => QueueInv'
<1> SUFFICES ASSUME QueueInv, Push \/ Pop PROVE QueueInv'
  OBVIOUS
<1>1. CASE PushLoad
  BY <1>1, PushLoadKeeps
<1>2. CASE PushCopy
  <2>1. pusher.pc # "idle" /\ "copied" # "store" /\ Torn \in Int
    BY <1>2 DEF PushCopy, Torn
  <2> QED
    BY <1>2, <2>1, PushWrites DEF PushCopy
<1>3. CASE PushCopied
  <2>1. pushed + 1 \in Int
    BY DEF QueueInv, QueueTypeOK
  <2> QED
    BY <1>3, <2>1, PushWrites DEF PushCopied
<1>4. CASE PushStore
  BY <1>4, PushStoreKeeps
<1>5. CASE PopLoad
  BY <1>5, PopLoadKeeps
<1>6. CASE PopCopy \/ PopCopied
  BY <1>6, PopReads
<1>7. CASE PopStore
  BY <1>7, PopStoreKeeps
<1> QED
  BY <1>1, <1>2, <1>3, <1>4, <1>5, <1>6, <1>7 DEF Push, Pop

(* A step that leaves the queue alone does, too. *)
LEMMA QueueRests == QueueInv /\ UNCHANGED queueVars => QueueInv'
BY DEF queueVars, QueueInv, QueueTypeOK, Ring, Held, PoppedInOrder, Count, Popped

(* With one producer and one consumer, the queue (spsc_queue.hpp, push and *)
(* pop) hands on the first elements pushed, in their order, none torn,     *)
(* none twice and none left out, for every capacity.                       *)
THEOREM QueueIsFifo == QueueSpec => [](\A i \in 1 .. Len(popped) : popped[i] = i)
<1>1. QueueInv /\ [QueueNext]_queueVars => QueueInv'
  BY QueueStep, QueueRests DEF QueueNext
<1>2. QueueInv => \A i \in 1 .. Len(popped) : popped[i] = i
  BY DEF QueueInv, PoppedInOrder, Popped
<1> QED
  BY QueueStarts, <1>1, <1>2, PTL DEF QueueSpec

-----------------------------------------------------------------------------
(* The tempo worker *)

(* Until it finds the queue full, the analysis thread only pushes. *)
TempoInv ==
  /\ fullOnce \in BOOLEAN
  /\ ~ fullOnce => QueueInv /\ analyst \notin {"make room", "room"}

(* Every step of the worker and of its deck keeps the invariant.           *)
LEMMA TempoStep == TempoInv /\ [TempoNext]_tempoVars => TempoInv'
<1> SUFFICES ASSUME TempoInv, [TempoNext]_tempoVars PROVE TempoInv'
  OBVIOUS
<1> USE DEF TempoInv
<1>1. CASE SubmitTempo \/ StopTempo
  BY <1>1, QueueRests DEF SubmitTempo, StopTempo, QueueAlone
<1>2. CASE TempoWait \/ TempoSleep
  BY <1>2, QueueRests DEF TempoWait, TempoSleep, QueueAlone
<1>3. CASE Analyze
  BY <1>3, QueueRests DEF Analyze, QueueAlone
<1>4. CASE TempoPush
  BY <1>4, QueueStep DEF TempoPush
<1>5. CASE MakeRoom
  BY <1>5 DEF MakeRoom
<1>6. CASE MadeRoom
  BY <1>6 DEF MadeRoom
<1>7. CASE PollTempo
  BY <1>7, QueueStep DEF PollTempo
<1>8. CASE UNCHANGED tempoVars
  BY <1>8, QueueRests DEF tempoVars
<1> QED
  BY <1>1, <1>2, <1>3, <1>4, <1>5, <1>6, <1>7, <1>8 DEF TempoNext

(* What the audio thread takes is whole, and later than what it took       *)
(* before, until the analysis thread has found the queue full              *)
(* (tempo_grid_analysis.cpp, run) -- for every capacity of the queue.      *)
THEOREM TempoResultsInOrder == TempoSpec => []ResultsInOrderUnlessFull
<1>1. TempoInit => TempoInv
  BY QueueStarts DEF TempoInit, TempoInv
<1>2. TempoInv => ResultsInOrderUnlessFull
  <2> SUFFICES ASSUME QueueInv PROVE ResultsInOrderUnlessFull
    BY DEF TempoInv, ResultsInOrderUnlessFull
  <2>1. \A i \in 1 .. Len(popped) : popped[i] = i /\ i \in Nat /\ popped[i] # Torn
    BY DEF QueueInv, PoppedInOrder, Popped, Torn
  <2>2. Len(popped) \in Nat
    BY LenProperties DEF QueueInv, QueueTypeOK
  <2> QED
    BY <2>1, <2>2 DEF ResultsInOrderUnlessFull
<1> QED
  BY <1>1, <1>2, TempoStep, PTL DEF TempoSpec

-----------------------------------------------------------------------------
(* The beat grid.  Between the first frames of two segments a frame and    *)
(* its beat lie in the same segment, because each segment begins at the    *)
(* beat where the one before it has led.                                   *)

(* A segment of the grid; its first frame is in the track's frames.        *)
Segments == [frame : Nat, beat : Int, tempo : Int]

(* Every set of naturals has a smallest element. *)
LEMMA SmallestNumber ==
  ASSUME NEW T, T \subseteq Nat, T # {}
  PROVE  \E n \in T : \A m \in T : n <= m
<1> DEFINE R == OpToRel(<, Nat)
<1>1. IsWellFoundedOn(R, Nat)
  BY NatLessThanWellFounded
<1>2. \A m, n \in Nat : m < n => <<m, n>> \in R
  BY DEF OpToRel
<1> HIDE DEF R
<1>3. PICK n \in T : \A m \in T : ~ (<<m, n>> \in R)
  BY <1>1, WFMin
<1>4. \A m \in T : ~ (m < n)
  BY <1>2, <1>3
<1> QED
  BY <1>4

(* A set of numbers with a bound has a largest one. *)
LEMMA LargestNumber ==
  ASSUME NEW n \in Nat, NEW S \in SUBSET (0 .. n), S # {}
  PROVE  Max(S) \in S /\ \A y \in S : y <= Max(S)
<1> DEFINE T == {n - y : y \in S}
<1>1. T \subseteq Nat /\ T # {}
  <2>1. \A y \in S : y \in 0 .. n /\ n - y \in Nat
    OBVIOUS
  <2> QED
    BY <2>1
<1> HIDE DEF T
<1>2. PICK k \in T : \A m \in T : k <= m
  BY <1>1, SmallestNumber
<1>3. PICK x \in S : k = n - x
  BY <1>2 DEF T
<1>4. \A y \in S : x >= y
  <2> TAKE y \in S
  <2>1. n - y \in T
    BY DEF T
  <2>2. n - x <= n - y
    BY <1>2, <1>3, <2>1
  <2> QED
    BY <2>2
<1> QED
  BY <1>3, <1>4 DEF Max

(* Quotients by a positive number *)
LEMMA Quotient ==
  ASSUME NEW P \in Nat \ {0}, NEW a \in Int
  PROVE  \E q \in Int, r \in 0 .. P - 1 : q = a \div P /\ r = a % P /\ a = P * q + r
<1>1. a % P = a - P * (a \div P)
  BY Z3
<1>2. a \div P \in Int
  OBVIOUS
<1>3. a % P \in 0 .. P - 1
  OBVIOUS
<1>4. PICK q \in Int, r \in 0 .. P - 1 : q = a \div P /\ r = a % P /\ r = a - P * q
  BY <1>1, <1>2, <1>3
<1>5. a = P * q + r
  BY <1>4
<1> QED
  BY <1>4, <1>5

(* The multiples of a number are at least that number apart.               *)
LEMMA Multiples ==
  ASSUME NEW P \in Nat, NEW x \in Int, NEW y \in Int, x < y
  PROVE  P * x + P <= P * y
OBVIOUS

(* A larger number has no smaller quotient. *)
LEMMA QuotientGrows ==
  ASSUME NEW P \in Nat \ {0}, NEW a \in Int, NEW b \in Int, a <= b
  PROVE  a \div P <= b \div P
<1>1. PICK q \in Int, r \in 0 .. P - 1 : q = a \div P /\ a = P * q + r
  BY Quotient
<1>2. PICK k \in Int, l \in 0 .. P - 1 : k = b \div P /\ b = P * k + l
  BY Quotient
<1>3. SUFFICES ASSUME k < q PROVE FALSE
  BY <1>1, <1>2
<1>4. P * k + P <= P * q
  BY <1>3, Multiples
<1>5. P * q \in Int /\ P * k \in Int
  OBVIOUS
<1> QED
  BY <1>1, <1>2, <1>4, <1>5

(* Rounding a whole number of frames changes nothing, and rounding never   *)
(* goes past the next whole number.                                        *)
LEMMA RoundedWhole ==
  ASSUME NEW t \in Nat \ {0}, NEW n \in Int
  PROVE  RoundedDiv(n * t, t) = n
<1> DEFINE P == 2 * t
           a == 2 * (n * t) + t
<1>1. P \in Nat \ {0} /\ a \in Int /\ a = P * n + t /\ t \in 0 .. P - 1
  OBVIOUS
<1>2. RoundedDiv(n * t, t) = a \div P
  BY DEF RoundedDiv
<1> HIDE DEF P, a
<1>3. PICK q \in Int, r \in 0 .. P - 1 : q = a \div P /\ a = P * q + r
  BY <1>1, Quotient
<1>4. P * q \in Int /\ P * n \in Int
  BY <1>1
<1>5. ~ (q < n)
  <2> SUFFICES ASSUME q < n PROVE FALSE
    OBVIOUS
  <2>1. P * q + P <= P * n
    BY <1>1, Multiples
  <2> QED
    BY <1>1, <1>3, <1>4, <2>1
<1>6. ~ (n < q)
  <2> SUFFICES ASSUME n < q PROVE FALSE
    OBVIOUS
  <2>1. P * n + P <= P * q
    BY <1>1, Multiples
  <2> QED
    BY <1>1, <1>3, <1>4, <2>1
<1> QED
  BY <1>2, <1>3, <1>5, <1>6

(* A rounded quotient stays below a bound that its doubled dividend is     *)
(* below.                                                                  *)
LEMMA RoundedBelow ==
  ASSUME NEW t \in Nat \ {0}, NEW a \in Int, NEW d \in Int, a < d * t
  PROVE  RoundedDiv(a, t) \in Int /\ RoundedDiv(a, t) <= d
<1> DEFINE P == 2 * t
           x == 2 * a + t
<1>1. P \in Nat \ {0} /\ x \in Int /\ x < P * d + P
  <2>1. d * t \in Int /\ P * d = 2 * (d * t)
    OBVIOUS
  <2> QED
    BY <2>1
<1>2. RoundedDiv(a, t) = x \div P
  BY DEF RoundedDiv
<1> HIDE DEF P, x
<1>3. PICK q \in Int, r \in 0 .. P - 1 : q = x \div P /\ x = P * q + r
  BY <1>1, Quotient
<1>4. P * q \in Int /\ P * d \in Int
  BY <1>1
<1>5. ~ (d < q)
  <2> SUFFICES ASSUME d < q PROVE FALSE
    OBVIOUS
  <2>1. P * d + P <= P * q
    BY <1>1, Multiples
  <2> QED
    BY <1>1, <1>3, <1>4, <2>1
<1> QED
  BY <1>2, <1>3, <1>5

(* What an accepted grid is made of.                                       *)
LEMMA GridOf ==
  ASSUME NEW grid, ValidGrid(grid), grid.segments \in Seq(Segments), grid.meter \in Nat
  PROVE  LET s == grid.segments IN
         /\ Len(s) \in Nat \ {0} /\ DOMAIN s = 1 .. Len(s) /\ grid.meter \in Nat \ {0}
         /\ \A i \in 1 .. Len(s) : s[i].frame \in Nat /\ s[i].beat \in Nat /\ s[i].tempo \in Nat \ {0}
         /\ s[1].beat = 0
         /\ \A i \in 2 .. Len(s) : /\ s[i].frame > s[i - 1].frame /\ s[i].beat > s[i - 1].beat
                                   /\ s[i].beat = UnitsAt(s[i - 1], s[i].frame)
<1> DEFINE s == grid.segments
<1>1. s \in Seq(Segments) /\ s # <<>>
  BY DEF ValidGrid
<1>2. Len(s) \in Nat \ {0} /\ DOMAIN s = 1 .. Len(s)
  BY <1>1, EmptySeq, LenProperties
<1>3. \A i \in 1 .. Len(s) : s[i] \in Segments
  BY <1>1, ElementOfSeq
<1>4. \A i \in 1 .. Len(s) : s[i].frame \in Nat /\ s[i].beat \in Int /\ s[i].tempo \in Int
  BY <1>3 DEF Segments
<1>5. \A i \in 1 .. Len(s) : s[i].beat >= 0 /\ s[i].tempo > 0
  BY <1>2 DEF ValidGrid
<1>6. /\ s[1].beat = 0 /\ grid.meter # 0
      /\ \A i \in 2 .. Len(s) : /\ s[i].frame > s[i - 1].frame /\ s[i].beat > s[i - 1].beat
                                /\ s[i].beat = UnitsAt(s[i - 1], s[i].frame)
  BY DEF ValidGrid
<1> HIDE DEF s
<1>7. \A i \in 1 .. Len(s) : s[i].frame \in Nat /\ s[i].beat \in Nat /\ s[i].tempo \in Nat \ {0}
  BY <1>4, <1>5
<1> QED
  BY <1>2, <1>6, <1>7 DEF s

(* Later segments begin later, at later beats.                             *)
LEMMA SegmentsAscend ==
  ASSUME NEW grid, ValidGrid(grid), grid.segments \in Seq(Segments), grid.meter \in Nat,
         NEW i \in 1 .. Len(grid.segments), NEW j \in 1 .. i
  PROVE  /\ grid.segments[j].frame <= grid.segments[i].frame
         /\ grid.segments[j].beat <= grid.segments[i].beat
<1> DEFINE s == grid.segments
           n == Len(s)
           Below(k) == s[j].frame <= s[k].frame /\ s[j].beat <= s[k].beat
           bad == {k \in j .. n : ~ Below(k)}
<1>1. /\ n \in Nat \ {0}
      /\ \A k \in 1 .. n : s[k].frame \in Nat /\ s[k].beat \in Nat
      /\ \A k \in 2 .. n : s[k].frame > s[k - 1].frame /\ s[k].beat > s[k - 1].beat
  BY GridOf
<1> HIDE DEF s, n
<1>2. i \in 1 .. n /\ i \in j .. n
  BY <1>1 DEF n, s
<1>3. SUFFICES ASSUME bad # {} PROVE FALSE
  BY <1>2 DEF s
<1>4. bad \subseteq Nat
  BY <1>1
<1>5. PICK k \in bad : \A m \in bad : k <= m
  BY <1>3, <1>4, SmallestNumber
<1>6. k \in j .. n /\ ~ Below(k) /\ k # j
  BY <1>1, <1>2, <1>5
<1>7. k \in 2 .. n /\ k - 1 \in j .. n /\ k - 1 \notin bad /\ k - 1 \in 1 .. n
  BY <1>1, <1>2, <1>5, <1>6
<1>8. Below(k - 1)
  BY <1>7
<1>9. s[k].frame > s[k - 1].frame /\ s[k].beat > s[k - 1].beat
  BY <1>1, <1>7
<1>10. /\ s[k].frame \in Nat /\ s[k].beat \in Nat /\ s[k - 1].frame \in Nat /\ s[k - 1].beat \in Nat
       /\ s[j].frame \in Nat /\ s[j].beat \in Nat
  BY <1>1, <1>2, <1>7
<1>11. Below(k)
  BY <1>8, <1>9, <1>10
<1> QED
  BY <1>6, <1>11

(* The segment of a frame is the one it lies in.                           *)
LEMMA FrameSegment ==
  ASSUME NEW grid, ValidGrid(grid), grid.segments \in Seq(Segments), grid.meter \in Nat, NEW f \in Nat
  PROVE  \E i \in 1 .. Len(grid.segments) :
           /\ SegmentForFrame(grid, f) = grid.segments[i]
           /\ i > 1 => grid.segments[i].frame <= f
           /\ i < Len(grid.segments) => f < grid.segments[i + 1].frame
<1> DEFINE s == grid.segments
           n == Len(s)
           Begun(i) == \A j \in 2 .. i : s[j].frame <= f
           S == {1} \cup {i \in DOMAIN s : Begun(i)}
           i == Max(S)
<1>1. /\ n \in Nat \ {0} /\ DOMAIN s = 1 .. n /\ \A k \in 1 .. n : s[k].frame \in Nat
  BY GridOf
<1>2. SegmentForFrame(grid, f) = s[i]
  BY DEF SegmentForFrame
<1> HIDE DEF s, n
<1>3. S \in SUBSET (0 .. n) /\ S # {} /\ S \subseteq 1 .. n
  BY <1>1
<1>4. i \in S /\ \A k \in S : k <= i
  <2> HIDE DEF S
  <2> QED
    BY <1>1, <1>3, LargestNumber
<1> HIDE DEF i
<1>5. i \in 1 .. n /\ Begun(i)
  <2>1. i \in 1 .. n
    BY <1>3, <1>4
  <2>2. Begun(1)
    OBVIOUS
  <2> QED
    BY <1>4, <2>1, <2>2
<1>6. i > 1 => s[i].frame <= f
  BY <1>5
<1>7. ASSUME i < n
      PROVE  f < s[i + 1].frame
  <2>1. i + 1 \in 1 .. n /\ i + 1 \notin S
    BY <1>1, <1>4, <1>5, <1>7
  <2>2. ~ Begun(i + 1)
    BY <1>1, <2>1
  <2>3. PICK j \in 2 .. i + 1 : ~ (s[j].frame <= f)
    BY <2>2
  <2>4. j = i + 1
    BY <1>5, <2>3
  <2> QED
    BY <1>1, <2>1, <2>3, <2>4
<1> QED
  BY <1>2, <1>5, <1>6, <1>7 DEF s, n

(* A beat between the first beats of two segments is in the first of them. *)
LEMMA BeatSegment ==
  ASSUME NEW grid, ValidGrid(grid), grid.segments \in Seq(Segments), grid.meter \in Nat, NEW units \in Nat,
         NEW i \in 1 .. Len(grid.segments), grid.segments[i].beat <= units,
         i < Len(grid.segments) => units < grid.segments[i + 1].beat
  PROVE  SegmentForBeat(grid, units) = grid.segments[i]
<1> DEFINE s == grid.segments
           n == Len(s)
           Begun(k) == \A j \in 2 .. k : s[j].beat <= units
           S == {1} \cup {k \in DOMAIN s : Begun(k)}
<1>1. /\ n \in Nat \ {0} /\ DOMAIN s = 1 .. n /\ \A k \in 1 .. n : s[k].beat \in Nat
  BY GridOf
<1>2. \A j \in 1 .. i : s[j].beat <= s[i].beat
  BY SegmentsAscend
<1>3. SegmentForBeat(grid, units) = s[Max(S)]
  BY DEF SegmentForBeat
<1> HIDE DEF s, n
<1>4. i \in 1 .. n /\ s[i].beat <= units /\ (i < n => units < s[i + 1].beat)
  BY DEF s, n
<1>5. i \in S
  <2>1. Begun(i)
    <3> TAKE j \in 2 .. i
    <3>1. j \in 1 .. i /\ s[j].beat \in Nat /\ s[i].beat \in Nat
      BY <1>1, <1>4
    <3> QED
      BY <1>2, <1>4, <3>1
  <2> QED
    BY <1>1, <1>4, <2>1
<1>6. \A k \in S : k <= i
  <2> SUFFICES ASSUME NEW k \in S, i < k PROVE FALSE
    BY <1>1, <1>4
  <2>1. k \in 1 .. n /\ Begun(k)
    BY <1>1, <1>4
  <2>2. i + 1 \in 2 .. k /\ i < n /\ i + 1 \in 1 .. n
    BY <1>1, <1>4, <2>1
  <2> QED
    BY <1>1, <1>4, <2>1, <2>2
<1>7. S \in SUBSET (0 .. n) /\ S # {}
  BY <1>1
<1> HIDE DEF S
<1>8. Max(S) \in S /\ \A y \in S : y <= Max(S)
  BY <1>1, <1>7, LargestNumber
<1>9. Max(S) = i
  <2>1. Max(S) \in 0 .. n /\ Max(S) <= i /\ i <= Max(S)
    BY <1>5, <1>6, <1>7, <1>8
  <2> QED
    BY <1>4, <2>1
<1> QED
  BY <1>3, <1>9 DEF s

(* Products by a tempo *)
LEMMA TempoTimes ==
  ASSUME NEW t \in Nat \ {0}, NEW x \in Int
  PROVE  /\ x * t \in Int
         /\ x >= 0 <=> x * t >= 0
         /\ \A y \in Int : x < y => x * t < y * t
<1>1. x * t \in Int
  OBVIOUS
<1>2. x >= 0 => x * t >= 0
  OBVIOUS
<1>3. \A y \in Int : x < y => x * t < y * t
  <2> TAKE y \in Int
  <2> HAVE x < y
  <2>1. t * x + t <= t * y
    BY Multiples
  <2>2. t * x = x * t /\ t * y = y * t /\ x * t \in Int /\ y * t \in Int
    OBVIOUS
  <2> QED
    BY <2>1, <2>2
<1>4. x < 0 => x * t < 0 * t
  BY <1>3
<1>5. 0 * t = 0
  OBVIOUS
<1> QED
  BY <1>1, <1>2, <1>3, <1>4, <1>5

(* A frame at or behind the start of the grid is at a beat of its segment, *)
(* and one before it is at no beat.                                        *)
LEMMA FrameInside ==
  ASSUME NEW grid, ValidGrid(grid), grid.segments \in Seq(Segments), grid.meter \in Nat, NEW f \in Nat,
         UnitsAt(SegmentForFrame(grid, f), f) >= 0
  PROVE  \E i \in 1 .. Len(grid.segments) :
           /\ SegmentForFrame(grid, f) = grid.segments[i] /\ grid.segments[i].frame <= f
           /\ i < Len(grid.segments) => f < grid.segments[i + 1].frame
           /\ UnitsAt(grid.segments[i], f) \in Nat /\ grid.segments[i].beat <= UnitsAt(grid.segments[i], f)
           /\ i < Len(grid.segments) => UnitsAt(grid.segments[i], f) < grid.segments[i + 1].beat
<1> DEFINE s == grid.segments
           n == Len(s)
<1>1. /\ n \in Nat \ {0} /\ s[1].beat = 0
      /\ \A k \in 1 .. n : s[k].frame \in Nat /\ s[k].beat \in Nat /\ s[k].tempo \in Nat \ {0}
      /\ \A k \in 2 .. n : s[k].beat = UnitsAt(s[k - 1], s[k].frame)
  BY GridOf
<1>2. PICK i \in 1 .. n : /\ SegmentForFrame(grid, f) = s[i] /\ (i > 1 => s[i].frame <= f)
                          /\ (i < n => f < s[i + 1].frame)
  BY FrameSegment
<1>3. UnitsAt(SegmentForFrame(grid, f), f) >= 0
  OBVIOUS
<1> HIDE DEF s, n
<1> DEFINE t == s[i].tempo
           b == s[i].beat
           a == s[i].frame
<1>4. t \in Nat \ {0} /\ b \in Nat /\ a \in Nat
  BY <1>1, <1>2
<1>5. UnitsAt(s[i], f) = b + (f - a) * t
  BY DEF UnitsAt
<1>6. b + (f - a) * t >= 0 /\ (i = 1 => b = 0) /\ (i > 1 => a <= f)
  BY <1>1, <1>2, <1>3, <1>5
<1> HIDE DEF t, b, a
<1>7. a <= f
  <2>1. CASE i = 1
    <3>1. f - a \in Int
      BY <1>4
    <3>2. (f - a) * t >= 0 => f - a >= 0
      BY <1>4, <3>1, TempoTimes
    <3>3. (f - a) * t \in Int
      BY <1>4
    <3>4. (f - a) * t >= 0
      BY <1>4, <1>6, <2>1, <3>3
    <3> QED
      BY <1>4, <3>1, <3>2, <3>4
  <2>2. CASE i # 1
    BY <1>2, <1>6, <2>2
  <2> QED
    BY <2>1, <2>2
<1>8. (f - a) * t \in Nat
  BY <1>4, <1>7
<1>9. b + (f - a) * t \in Nat /\ b <= b + (f - a) * t
  BY <1>4, <1>8
<1>10. ASSUME i < n
       PROVE  b + (f - a) * t < s[i + 1].beat
  <2>1. i + 1 \in 2 .. n /\ i + 1 - 1 = i
    BY <1>1, <1>2, <1>10
  <2>2. s[i + 1].beat = UnitsAt(s[i], s[i + 1].frame) /\ s[i + 1].frame \in Nat /\ f < s[i + 1].frame
    BY <1>1, <1>2, <1>10, <2>1
  <2>3. s[i + 1].beat = b + (s[i + 1].frame - a) * t
    BY <2>2 DEF UnitsAt, t, b, a
  <2> DEFINE c == s[i + 1].frame
  <2> HIDE DEF c
  <2>4. f - a \in Int /\ c - a \in Int /\ f - a < c - a
    BY <1>4, <2>2 DEF c
  <2>5. (f - a) * t < (c - a) * t
    BY <1>4, <2>4, TempoTimes
  <2>6. (f - a) * t \in Int /\ (c - a) * t \in Int
    BY <1>4, <2>4
  <2>7. b + (f - a) * t < b + (c - a) * t
    BY <1>4, <2>5, <2>6
  <2> QED
    BY <2>3, <2>7 DEF c
<1> QED
  BY <1>2, <1>5, <1>7, <1>9, <1>10 DEF s, n, a, b, t

(* A later frame is at a later beat, across the segments.                  *)
LEMMA BeatsAscend ==
  ASSUME NEW grid, ValidGrid(grid), grid.segments \in Seq(Segments), grid.meter \in Nat, NEW f \in Nat,
         UnitsAt(SegmentForFrame(grid, f), f) >= 0
  PROVE  /\ UnitsAt(SegmentForFrame(grid, f + 1), f + 1) \in Nat
         /\ UnitsAt(SegmentForFrame(grid, f), f) < UnitsAt(SegmentForFrame(grid, f + 1), f + 1)
<1> DEFINE s == grid.segments
           n == Len(s)
<1>1. /\ n \in Nat \ {0}
      /\ \A k \in 1 .. n : s[k].frame \in Nat /\ s[k].beat \in Nat /\ s[k].tempo \in Nat \ {0}
  BY GridOf
<1>2. PICK i \in 1 .. n : /\ SegmentForFrame(grid, f) = s[i] /\ s[i].frame <= f
                          /\ i < n => f < s[i + 1].frame
                          /\ UnitsAt(s[i], f) \in Nat /\ s[i].beat <= UnitsAt(s[i], f)
                          /\ i < n => UnitsAt(s[i], f) < s[i + 1].beat
  BY FrameInside
<1>3. PICK k \in 1 .. n : /\ SegmentForFrame(grid, f + 1) = s[k] /\ (k > 1 => s[k].frame <= f + 1)
                          /\ (k < n => f + 1 < s[k + 1].frame)
  <2>1. f + 1 \in Nat
    OBVIOUS
  <2> QED
    BY <2>1, FrameSegment
<1>4. \A l \in 1 .. n : \A m \in 1 .. l : s[m].frame <= s[l].frame /\ s[m].beat <= s[l].beat
  BY SegmentsAscend
<1> HIDE DEF s, n
<1> DEFINE t == s[k].tempo
           b == s[k].beat
           a == s[k].frame
<1>5. t \in Nat \ {0} /\ b \in Nat /\ a \in Nat
  BY <1>1, <1>3
<1>6. UnitsAt(s[k], f + 1) = b + ((f + 1) - a) * t
  BY DEF UnitsAt
<1>7. ~ (k < i)
  <2> SUFFICES ASSUME k < i PROVE FALSE
    OBVIOUS
  <2>1. k + 1 \in 1 .. i /\ k < n /\ k + 1 \in 1 .. n
    BY <1>1, <1>2, <1>3
  <2>2. s[k + 1].frame <= s[i].frame /\ f + 1 < s[k + 1].frame /\ s[k + 1].frame \in Nat /\ s[i].frame \in Nat
    BY <1>1, <1>2, <1>3, <1>4, <2>1
  <2> QED
    BY <1>2, <2>2
<1>8. CASE k = i
  <2>1. f - a \in Int /\ (f + 1) - a \in Int /\ f - a < (f + 1) - a
    BY <1>5
  <2>2. (f - a) * t < ((f + 1) - a) * t /\ (f - a) * t \in Int /\ ((f + 1) - a) * t \in Int
    BY <1>5, <2>1, TempoTimes
  <2>3. UnitsAt(s[i], f) = b + (f - a) * t
    BY <1>8 DEF UnitsAt
  <2> DEFINE u == UnitsAt(s[i], f)
             v == UnitsAt(s[k], f + 1)
  <2>4. u \in Nat /\ u = b + (f - a) * t /\ v = b + ((f + 1) - a) * t
    BY <1>2, <1>6, <2>3
  <2> HIDE DEF u, v, t, b, a
  <2>5. v \in Nat /\ u < v
    BY <1>5, <2>2, <2>4
  <2> QED
    BY <1>2, <1>3, <2>5 DEF u, v
<1>9. CASE i < k
  <2>1. i + 1 \in 1 .. k /\ i < n /\ k > 1
    BY <1>1, <1>2, <1>3, <1>9
  <2>2. s[i + 1].beat <= b /\ UnitsAt(s[i], f) < s[i + 1].beat /\ s[i + 1].beat \in Nat
    BY <1>1, <1>2, <1>3, <1>4, <2>1
  <2>3. (f + 1) - a \in Nat
    BY <1>3, <1>5, <2>1
  <2>4. ((f + 1) - a) * t \in Nat
    BY <1>5, <2>3
  <2> DEFINE u == UnitsAt(s[i], f)
             v == UnitsAt(s[k], f + 1)
             p == ((f + 1) - a) * t
  <2>5. u \in Nat /\ v = b + p /\ p \in Nat /\ u < s[i + 1].beat
    BY <1>2, <1>6, <2>2, <2>4
  <2> HIDE DEF u, v, p, t, b, a
  <2>6. v \in Nat /\ u < v
    BY <1>5, <2>2, <2>5
  <2> QED
    BY <1>2, <1>3, <2>6 DEF u, v
<1>10. i \in 1 .. n /\ k \in 1 .. n
  BY <1>2, <1>3
<1> QED
  BY <1>1, <1>7, <1>8, <1>9, <1>10

(* The mapper gives back the frame it is given, for every grid it accepts: *)
(* any number of segments and tempi, and any bar.  A later frame is at a   *)
(* later beat, in the same bar or a later one.                             *)
THEOREM BeatsMapBack ==
  ASSUME NEW grid, ValidGrid(grid), grid.segments \in Seq(Segments), grid.meter \in Nat
  PROVE  MapsBack(grid, Nat)
<1> SUFFICES ASSUME NEW f \in Nat, PositionAtFrame(grid, f).valid
             PROVE  LET here == PositionAtFrame(grid, f)
                        next == PositionAtFrame(grid, f + 1)
                    IN /\ FrameAtBeat(grid, here.units) = f
                       /\ next.valid /\ next.units > here.units
                       /\ next.bar * grid.meter + next.beatInBar >= here.bar * grid.meter + here.beatInBar
  BY DEF MapsBack
<1> DEFINE s == grid.segments
           n == Len(s)
           u == UnitsAt(SegmentForFrame(grid, f), f)
           v == UnitsAt(SegmentForFrame(grid, f + 1), f + 1)
           here == PositionAtFrame(grid, f)
           next == PositionAtFrame(grid, f + 1)
           Bar(x) == x \div BeatUnits
<1>1. u >= 0
  <2>1. PICK i \in 1 .. n : SegmentForFrame(grid, f) = s[i]
    BY FrameSegment
  <2>2. s[i].frame \in Nat /\ s[i].beat \in Nat /\ s[i].tempo \in Nat
    BY <2>1, GridOf
  <2>3. (f - s[i].frame) * s[i].tempo \in Int
    BY <2>2
  <2>4. u = s[i].beat + (f - s[i].frame) * s[i].tempo
    BY <2>1 DEF UnitsAt
  <2>5. u \in Int
    BY <2>2, <2>3, <2>4
  <2>6. ~ (u < 0)
    BY DEF PositionAtFrame
  <2> HIDE DEF u
  <2> QED
    BY <2>5, <2>6
<1>2. PICK i \in 1 .. n : /\ SegmentForFrame(grid, f) = s[i] /\ s[i].frame <= f
                          /\ UnitsAt(s[i], f) \in Nat /\ s[i].beat <= UnitsAt(s[i], f)
                          /\ i < n => UnitsAt(s[i], f) < s[i + 1].beat
  BY <1>1, FrameInside
<1>3. u \in Nat /\ v \in Nat /\ u < v
  BY <1>1, <1>2, BeatsAscend
<1>4. s[i].frame \in Nat /\ s[i].beat \in Nat /\ s[i].tempo \in Nat \ {0} /\ grid.meter \in Nat \ {0}
  BY <1>2, GridOf
<1>5. SegmentForBeat(grid, u) = s[i]
  BY <1>2, <1>3, BeatSegment
<1>6. FrameAtBeat(grid, u) = f
  <2>1. FrameAtBeat(grid, u) = s[i].frame + RoundedDiv(u - s[i].beat, s[i].tempo)
    <3> HIDE DEF u, s
    <3> QED
      BY <1>3, <1>5 DEF FrameAtBeat
  <2>2. u = s[i].beat + (f - s[i].frame) * s[i].tempo
    BY <1>2 DEF UnitsAt
  <2> DEFINE a == s[i].frame
             b == s[i].beat
             t == s[i].tempo
  <2> HIDE DEF u, s, n
  <2>3. a \in Nat /\ b \in Nat /\ t \in Nat \ {0} /\ f - a \in Int /\ u = b + (f - a) * t
    BY <1>4, <2>2
  <2>4. FrameAtBeat(grid, u) = a + RoundedDiv(u - b, t)
    BY <2>1
  <2> HIDE DEF a, b, t
  <2>5. (f - a) * t \in Int
    BY <2>3
  <2>6. u - b = (f - a) * t
    BY <2>3, <2>5
  <2>7. RoundedDiv((f - a) * t, t) = f - a
    BY <2>3, RoundedWhole
  <2>8. FrameAtBeat(grid, u) = a + (f - a)
    BY <2>4, <2>6, <2>7
  <2> QED
    BY <2>3, <2>8
<1>7. here = [valid |-> TRUE, units |-> u, bar |-> Bar(u) \div grid.meter, beatInBar |-> Bar(u) % grid.meter]
  <2>1. ~ (f < 0) /\ ~ (u < 0)
    BY <1>3
  <2> QED
    BY <2>1 DEF PositionAtFrame
<1>8. next = [valid |-> TRUE, units |-> v, bar |-> Bar(v) \div grid.meter, beatInBar |-> Bar(v) % grid.meter]
  <2>1. ~ (f + 1 < 0) /\ ~ (v < 0)
    BY <1>3
  <2> QED
    BY <2>1 DEF PositionAtFrame
<1> HIDE DEF u, v, here, next, s, n, Bar
<1>9. Bar(u) \in Int /\ Bar(v) \in Int /\ Bar(u) <= Bar(v)
  BY <1>3, BeatUnitsAssumption, QuotientGrows DEF Bar
<1>10. \A x \in Int : (x \div grid.meter) * grid.meter + (x % grid.meter) = x
  <2> TAKE x \in Int
  <2> DEFINE m == grid.meter
  <2>1. m \in Nat \ {0}
    BY <1>4
  <2> HIDE DEF m
  <2>2. PICK q \in Int, r \in 0 .. m - 1 : q = x \div m /\ r = x % m /\ x = m * q + r
    BY <2>1, Quotient
  <2>3. m * q = q * m
    BY <2>1
  <2>4. q * m + r = x
    BY <2>1, <2>2, <2>3
  <2>5. (x \div m) * m + (x % m) = x
    BY <2>2, <2>4, Zenon
  <2> QED
    BY <2>5 DEF m
<1>11. /\ here.units = u /\ next.valid /\ next.units = v
       /\ here.bar * grid.meter + here.beatInBar = Bar(u)
       /\ next.bar * grid.meter + next.beatInBar = Bar(v)
  <2>1. here.units = u /\ here.bar = Bar(u) \div grid.meter /\ here.beatInBar = Bar(u) % grid.meter
    BY <1>7
  <2>2. /\ next.valid /\ next.units = v
        /\ next.bar = Bar(v) \div grid.meter /\ next.beatInBar = Bar(v) % grid.meter
    BY <1>8
  <2> QED
    BY <1>9, <1>10, <2>1, <2>2, Zenon
<1>12. FrameAtBeat(grid, here.units) = f /\ next.units > here.units
  BY <1>3, <1>6, <1>11
<1> QED
  BY <1>9, <1>11, <1>12 DEF here, next

-----------------------------------------------------------------------------
(* The grid taken over from a Rekordbox file                               *)

(* The beats the analysis file lists.                                      *)
Beats == [time : Nat, tempo : Nat, number : Nat]

(* Segments that begin inside the track, each where the one before it led. *)
Tiled(s, duration) ==
  /\ s \in Seq(Segments) /\ Len(s) \in 1 .. SegmentRoom /\ s[1].beat = 0
  /\ \A i \in 1 .. Len(s) : s[i].beat >= 0 /\ s[i].tempo > 0 /\ s[i].frame <= duration
  /\ \A i \in 2 .. Len(s) : /\ s[i].frame > s[i - 1].frame /\ s[i].beat > s[i - 1].beat
                            /\ s[i].beat = UnitsAt(s[i - 1], s[i].frame)

(* set_grid as a chain of steps: the segment of the first beat, one step for *)
(* each beat after it, and what is made of the last state.                 *)
GridStart(beats) ==
  [ok |-> TRUE, since |-> 1,
   segments |-> <<[frame |-> FrameOf(beats[1].time), beat |-> 0, tempo |-> beats[1].tempo]>>]
GridStep(acc, beats, i, duration) ==
  IF acc.ok /\ beats[i].tempo # beats[i - 1].tempo THEN AddSegment(acc, beats, i, duration) ELSE acc
GridOrder(beats) == [k \in 1 .. Len(beats) - 1 |-> k + 1]
GridFrom(acc, beats) == IF acc.ok THEN [segments |-> acc.segments, meter |-> Meter(beats)] ELSE NoGrid

(* set_grid looks at one beat after the other.                             *)
LEMMA GridInOrder ==
  ASSUME NEW beats, Len(beats) \in Nat \ {0}, NEW duration,
         ~ (beats = <<>> \/ FrameOf(beats[1].time) >= duration)
  PROVE  \E g : /\ g[0] = GridStart(beats)
                /\ \A k \in 1 .. Len(beats) - 1 : g[k] = GridStep(g[k - 1], beats, k + 1, duration)
                /\ SetGrid(beats, duration) = GridFrom(g[Len(beats) - 1], beats)
<1> DEFINE q == GridOrder(beats)
           n == Len(beats) - 1
           Then(f, s) == IF s = {} THEN GridStart(beats)
                         ELSE GridStep(f[s \ {Max(s)}], beats, q[Max(s)], duration)
           Folds(D, f) == f = [s \in SUBSET D |-> Then(f, s)]
           bad == {m \in Nat : ~ \E f : Folds(1 .. m, f)}
<1>1. n \in Nat /\ DOMAIN q = 1 .. n /\ \A k \in 1 .. n : q[k] = k + 1
  BY DEF GridOrder
<1>2. \E f : Folds(1 .. 0, f)
  <2> DEFINE f == [s \in SUBSET (1 .. 0) |-> GridStart(beats)]
  <2>1. \A s \in SUBSET (1 .. 0) : Then(f, s) = GridStart(beats)
    OBVIOUS
  <2>2. Folds(1 .. 0, f)
    BY <2>1
  <2> QED
    BY <2>2
<1>3. ASSUME NEW m \in Nat, NEW f, Folds(1 .. m, f)
      PROVE  \E h : Folds(1 .. m + 1, h)
  <2> DEFINE New == GridStep(f[{}], beats, q[m + 1], duration)
             h == [s \in SUBSET (1 .. m + 1) |->
                     IF m + 1 \in s THEN GridStep(f[s \ {m + 1}], beats, q[m + 1], duration) ELSE f[s]]
  <2> HIDE DEF q
  <2>1. ASSUME NEW s \in SUBSET (1 .. m + 1)
        PROVE  h[s] = Then(h, s)
    <3>1. CASE m + 1 \in s
      <4>1. Max(s) = m + 1
        <5>1. \A y \in s : m + 1 >= y
          OBVIOUS
        <5>2. \A x \in s : (\A y \in s : x >= y) => x = m + 1
          BY <3>1, <5>1
        <5> QED
          BY <3>1, <5>1, <5>2 DEF Max
      <4>2. s \ {m + 1} \in SUBSET (1 .. m) /\ s \ {m + 1} \in SUBSET (1 .. m + 1)
        OBVIOUS
      <4>3. h[s \ {m + 1}] = f[s \ {m + 1}]
        BY <4>2
      <4>4. h[s] = GridStep(f[s \ {m + 1}], beats, q[m + 1], duration)
        BY <3>1
      <4> HIDE DEF h
      <4> QED
        BY <3>1, <4>1, <4>3, <4>4
    <3>2. CASE m + 1 \notin s
      <4>1. s \in SUBSET (1 .. m)
        BY <3>2
      <4>2. h[s] = f[s] /\ h[s \ {Max(s)}] = f[s \ {Max(s)}]
        BY <3>2
      <4>3. f[s] = Then(f, s)
        BY <1>3, <4>1
      <4> HIDE DEF h
      <4> QED
        BY <4>2, <4>3
    <3> QED
      BY <3>1, <3>2
  <2>2. Folds(1 .. m + 1, h)
    <3>1. h = [s \in SUBSET (1 .. m + 1) |-> h[s]]
      OBVIOUS
    <3> HIDE DEF h, Then
    <3> QED
      BY <2>1, <3>1
  <2> QED
    BY <2>2
<1>4. \E f : Folds(DOMAIN q, f)
  <2> HIDE DEF Folds, n, q
  <2>1. SUFFICES ASSUME n \in bad PROVE FALSE
    BY <1>1
  <2>2. PICK m \in bad : \A k \in bad : m <= k
    BY <2>1, SmallestNumber
  <2>3. m # 0 /\ m \in Nat
    BY <1>2, <2>2
  <2>4. m - 1 \in Nat /\ m - 1 \notin bad
    BY <2>2, <2>3
  <2>5. PICK f : Folds(1 .. m - 1, f)
    BY <2>4
  <2>6. \E h : Folds(1 .. m - 1 + 1, h)
    BY <1>3, <2>4, <2>5
  <2>7. m - 1 + 1 = m
    BY <2>3
  <2> QED
    BY <2>2, <2>6, <2>7
<1> DEFINE f == CHOOSE f : Folds(DOMAIN q, f)
<1>5. Folds(DOMAIN q, f)
  BY <1>4
<1>6. SetGrid(beats, duration) = GridFrom(f[DOMAIN q], beats)
  BY Zenon DEF SetGrid, GridStart, GridStep, GridOrder, GridFrom, FoldLeft, MapThenFoldSet
<1> HIDE DEF f
<1> DEFINE g == [k \in 0 .. n |-> f[1 .. k]]
<1>7. g[0] = GridStart(beats)
  <2>1. 1 .. 0 = {} /\ {} \in SUBSET (DOMAIN q)
    OBVIOUS
  <2>2. f[{}] = GridStart(beats)
    BY <1>5, <2>1
  <2> HIDE DEF n
  <2> QED
    BY <1>1, <2>1, <2>2
<1>8. ASSUME NEW k \in 1 .. n
      PROVE  g[k] = GridStep(g[k - 1], beats, k + 1, duration)
  <2> HIDE DEF n, Then, q
  <2>1. 1 .. k \in SUBSET (DOMAIN q) /\ k \in 1 .. k /\ (1 .. k) \ {k} = 1 .. k - 1
        /\ k - 1 \in 0 .. n /\ k \in 0 .. n
    BY <1>1
  <2>2. Max(1 .. k) = k
    <3>1. \A y \in 1 .. k : k >= y
      OBVIOUS
    <3>2. \A x \in 1 .. k : (\A y \in 1 .. k : x >= y) => x = k
      BY <1>1, <2>1
    <3> QED
      BY <2>1, <3>1, <3>2 DEF Max
  <2>3. f[1 .. k] = Then(f, 1 .. k)
    BY <1>5, <2>1
  <2>4. Then(f, 1 .. k) = GridStep(f[1 .. k - 1], beats, k + 1, duration)
    BY <1>1, <2>1, <2>2 DEF Then
  <2> QED
    BY <2>1, <2>3, <2>4
<1>9. g[n] = f[DOMAIN q]
  BY <1>1
<1> HIDE DEF g
<1> QED
  BY <1>6, <1>7, <1>8, <1>9

(* A new segment begins behind the last one, inside the track.             *)
LEMMA SegmentAdded ==
  ASSUME NEW acc, DOMAIN acc = {"ok", "since", "segments"}, acc.ok \in BOOLEAN, acc.since \in Nat,
         NEW duration \in Nat, Tiled(acc.segments, duration),
         NEW beats \in Seq(Beats), NEW i \in DOMAIN beats, beats[i].tempo # 0
  PROVE  LET new == GridStep(acc, beats, i, duration) IN
         /\ DOMAIN new = {"ok", "since", "segments"} /\ new.ok \in BOOLEAN /\ new.since \in Nat
         /\ Tiled(new.segments, duration)
<1> DEFINE s == acc.segments
           before == s[Len(s)]
           exact == before.frame * before.tempo + (i - acc.since) * BeatUnits
           frame == RoundedDiv(exact, before.tempo)
           e == [frame |-> frame, beat |-> UnitsAt(before, frame), tempo |-> beats[i].tempo]
           refused == Len(s) = SegmentRoom \/ exact >= duration * before.tempo \/ frame <= before.frame
           new == GridStep(acc, beats, i, duration)
<1>1. /\ s \in Seq(Segments) /\ Len(s) \in 1 .. SegmentRoom /\ DOMAIN s = 1 .. Len(s)
      /\ SegmentRoom \in Nat \ {0} /\ Len(s) \in Nat /\ Len(s) \in 1 .. Len(s)
  BY LenProperties, ImportBounds DEF Tiled
<1>2. before \in Segments /\ before.frame \in Nat /\ before.tempo \in Nat \ {0} /\ before.beat \in Nat
      /\ before.frame <= duration
  <2>1. before \in Segments
    BY <1>1, ElementOfSeq
  <2>2. before.beat >= 0 /\ before.tempo > 0 /\ before.frame <= duration
    BY <1>1 DEF Tiled
  <2> HIDE DEF before
  <2> QED
    BY <2>1, <2>2 DEF Segments
<1>3. i \in Nat /\ beats[i].tempo \in Nat \ {0}
  <2>1. beats[i] \in Beats /\ i \in Nat
    BY ElementOfSeq, LenProperties
  <2> QED
    BY <2>1 DEF Beats
<1>4. CASE ~ (acc.ok /\ beats[i].tempo # beats[i - 1].tempo)
  BY <1>4 DEF GridStep
<1>5. CASE acc.ok /\ beats[i].tempo # beats[i - 1].tempo /\ refused
  <2>1. new = [acc EXCEPT !.ok = FALSE]
    BY <1>5 DEF GridStep, AddSegment, Last
  <2> HIDE DEF new
  <2>2. DOMAIN new = DOMAIN acc /\ new.ok = FALSE /\ new.since = acc.since /\ new.segments = acc.segments
    BY <2>1
  <2> QED
    BY <2>2 DEF new
<1>6. CASE acc.ok /\ beats[i].tempo # beats[i - 1].tempo /\ ~ refused
  <2>1. new = [acc EXCEPT !.since = i, !.segments = Append(s, e)]
    BY <1>6 DEF GridStep, AddSegment, Last
  <2> HIDE DEF new
  <2>2. DOMAIN new = DOMAIN acc /\ new.ok = acc.ok /\ new.since = i /\ new.segments = Append(s, e)
    BY <2>1
  <2>3. exact \in Int
    <3>1. BeatUnits \in Nat /\ (i - acc.since) * BeatUnits \in Int
      BY <1>3, BeatUnitsAssumption
    <3>2. before.frame * before.tempo \in Int
      BY <1>2
    <3> QED
      BY <3>1, <3>2
  <2>4. duration * before.tempo \in Int
    BY <1>2
  <2> HIDE DEF exact, before
  <2>5. frame \in Int /\ frame <= duration
    <3>1. exact < duration * before.tempo
      BY <1>6, <2>3, <2>4
    <3>2. exact \in Int /\ before.tempo \in Nat \ {0} /\ duration \in Int
      BY <1>2, <2>3
    <3> QED
      BY <3>1, <3>2, RoundedBelow, Zenon
  <2> HIDE DEF frame
  <2>6. frame \in Nat /\ before.frame < frame
    BY <1>2, <1>6, <2>5
  <2>7. UnitsAt(before, frame) \in Int /\ before.beat < UnitsAt(before, frame)
    <3> DEFINE a == before.frame
               t == before.tempo
    <3>1. a \in Nat /\ t \in Nat \ {0} /\ frame - a \in Int /\ 0 < frame - a
      BY <1>2, <2>6
    <3>2. 0 * t < (frame - a) * t /\ (frame - a) * t \in Int
      BY <3>1, TempoTimes
    <3>3. 0 < (frame - a) * t
      BY <3>1, <3>2
    <3>4. UnitsAt(before, frame) = before.beat + (frame - a) * t
      BY DEF UnitsAt
    <3> HIDE DEF a, t
    <3> QED
      BY <1>2, <3>2, <3>3, <3>4
  <2>8. e \in Segments
    BY <1>3, <2>6, <2>7 DEF Segments
  <2>9. /\ e.frame = frame /\ e.beat = UnitsAt(before, frame) /\ e.tempo = beats[i].tempo
    OBVIOUS
  <2> HIDE DEF e
  <2> DEFINE r == Append(s, e)
  <2>10. /\ r \in Seq(Segments) /\ Len(r) = Len(s) + 1 /\ r[Len(s) + 1] = e
         /\ \A k \in 1 .. Len(s) : r[k] = s[k]
    BY <1>1, <2>8, AppendProperties
  <2>11. Len(s) # SegmentRoom
    BY <1>6
  <2> HIDE DEF r
  <2>12. Tiled(r, duration)
    <3>1. Len(r) \in 1 .. SegmentRoom
      BY <1>1, <2>10, <2>11
    <3>2. r[1] = s[1] /\ s[1].beat = 0
      BY <1>1, <2>10 DEF Tiled
    <3>3. \A k \in 1 .. Len(r) : r[k].beat >= 0 /\ r[k].tempo > 0 /\ r[k].frame <= duration
      <4> TAKE k \in 1 .. Len(r)
      <4>1. CASE k = Len(s) + 1
        BY <1>2, <1>3, <2>5, <2>7, <2>9, <2>10, <4>1
      <4>2. CASE k \in 1 .. Len(s)
        <5>1. s[k].beat >= 0 /\ s[k].tempo > 0 /\ s[k].frame <= duration
          BY <4>2 DEF Tiled
        <5> QED
          BY <2>10, <4>2, <5>1
      <4> QED
        BY <1>1, <2>10, <4>1, <4>2
    <3>4. \A k \in 2 .. Len(r) : /\ r[k].frame > r[k - 1].frame /\ r[k].beat > r[k - 1].beat
                                 /\ r[k].beat = UnitsAt(r[k - 1], r[k].frame)
      <4> TAKE k \in 2 .. Len(r)
      <4>1. CASE k = Len(s) + 1
        <5>1. r[k] = e /\ r[k - 1] = before
          BY <1>1, <2>10, <4>1 DEF before
        <5>2. e.frame > before.frame /\ e.beat > before.beat /\ e.beat = UnitsAt(before, e.frame)
          BY <1>2, <2>6, <2>7, <2>9
        <5> QED
          BY <5>1, <5>2
      <4>2. CASE k \in 2 .. Len(s)
        <5>1. r[k] = s[k] /\ r[k - 1] = s[k - 1]
          BY <2>10, <4>2
        <5>2. /\ s[k].frame > s[k - 1].frame /\ s[k].beat > s[k - 1].beat
              /\ s[k].beat = UnitsAt(s[k - 1], s[k].frame)
          BY <4>2 DEF Tiled
        <5> QED
          BY <5>1, <5>2
      <4> QED
        BY <1>1, <2>10, <4>1, <4>2
    <3> QED
      BY <2>10, <3>1, <3>2, <3>3, <3>4 DEF Tiled
  <2>13. i \in Nat /\ acc.ok \in BOOLEAN
    BY <1>3
  <2> QED
    BY <2>2, <2>12, <2>13 DEF new, r
<1> QED
  BY <1>4, <1>5, <1>6

(* The bar of a grid: beats have positive numbers, or there are no beats.  *)
LEMMA MeterPositive ==
  ASSUME NEW beats \in Seq(Beats), Len(beats) # 0, \A i \in DOMAIN beats : beats[i].number # 0
  PROVE  Meter(beats) \in Nat \ {0}
<1> DEFINE n == Len(beats)
           Numbers(m) == {beats[i].number : i \in 1 .. m}
           Largest(m) == \E x \in Numbers(m) : \A y \in Numbers(m) : x >= y
           bad == {m \in 1 .. n : ~ Largest(m)}
<1>1. n \in Nat \ {0} /\ DOMAIN beats = 1 .. n
  BY LenProperties
<1>2. \A i \in 1 .. n : beats[i].number \in Nat \ {0}
  <2> TAKE i \in 1 .. n
  <2>1. beats[i] \in Beats /\ beats[i].number # 0
    BY <1>1, ElementOfSeq
  <2> QED
    BY <2>1 DEF Beats
<1> HIDE DEF n
<1>3. \A m \in 1 .. n : /\ \A y \in Numbers(m) : y \in Nat /\ y # 0
                          /\ beats[m].number \in Numbers(m)
  <2> TAKE m \in 1 .. n
  <2>1. \A i \in 1 .. m : i \in 1 .. n /\ beats[i].number \in Nat \ {0}
    BY <1>1, <1>2
  <2> QED
    BY <1>1, <2>1
<1>4. Largest(n)
  <2>1. Numbers(1) = {beats[1].number}
    OBVIOUS
  <2>2. ASSUME NEW m \in 2 .. n
        PROVE  Numbers(m) = Numbers(m - 1) \cup {beats[m].number}
    <3>1. 1 .. m = (1 .. m - 1) \cup {m}
      OBVIOUS
    <3> QED
      BY <3>1
  <2> HIDE DEF Numbers
  <2>3. Largest(1)
    <3>1. \A y \in Numbers(1) : y = beats[1].number /\ beats[1].number >= y
      BY <1>1, <1>2, <2>1
    <3> QED
      BY <2>1, <3>1
  <2>4. ASSUME NEW m \in 2 .. n, Largest(m - 1)
        PROVE  Largest(m)
    <3>1. PICK x \in Numbers(m - 1) : \A y \in Numbers(m - 1) : x >= y
      BY <2>4
    <3>2. m - 1 \in 1 .. n /\ m \in 1 .. n
      BY <1>1
    <3>3. x \in Nat /\ beats[m].number \in Nat /\ \A y \in Numbers(m - 1) : y \in Nat
      BY <1>2, <1>3, <3>2
    <3>4. CASE x >= beats[m].number
      <4>1. x \in Numbers(m) /\ \A y \in Numbers(m) : x >= y
        BY <2>2, <3>1, <3>4
      <4> QED
        BY <4>1
    <3>5. CASE beats[m].number >= x
      <4>1. beats[m].number \in Numbers(m) /\ \A y \in Numbers(m) : beats[m].number >= y
        BY <2>2, <3>1, <3>3, <3>5
      <4> QED
        BY <4>1
    <3> QED
      BY <3>3, <3>4, <3>5
  <2> HIDE DEF Largest
  <2>5. SUFFICES ASSUME n \in bad PROVE FALSE
    BY <1>1
  <2>6. bad \subseteq Nat
    BY <1>1
  <2>7. PICK m \in bad : \A k \in bad : m <= k
    BY <2>5, <2>6, SmallestNumber
  <2>8. m \in 2 .. n /\ m - 1 \in 1 .. n
    <3>1. m # 1
      BY <2>3, <2>7
    <3> QED
      BY <1>1, <2>7, <3>1
  <2>9. m - 1 \notin bad
    BY <1>1, <2>7, <2>8
  <2> QED
    BY <2>4, <2>7, <2>8, <2>9
<1>5. Max(Numbers(n)) \in Numbers(n)
  <2> HIDE DEF Numbers
  <2> QED
    BY <1>4 DEF Max
<1>6. Max(Numbers(n)) \in Nat \ {0}
  BY <1>2, <1>5
<1>7. Meter(beats) = IF Max(Numbers(n)) <= 12 THEN Max(Numbers(n)) ELSE 4
  BY <1>1 DEF Meter
<1> HIDE DEF Numbers
<1> QED
  BY <1>6, <1>7

(* Whatever beats a file holds, in whatever track: the grid taken over is  *)
(* one the mapper accepts, with room for its segments, all of which begin  *)
(* inside the track.  So frames and beats map back and forth on it.        *)
THEOREM ImportedGridsFit ==
  ASSUME NEW p, "beats" \in DOMAIN p, NEW section, section.beats \in Seq(Beats), NEW duration \in Nat,
         SetGrid(ParseBeats(p, section).beats, duration) # NoGrid
  PROVE  LET grid == SetGrid(ParseBeats(p, section).beats, duration)
         IN /\ ValidGrid(grid) /\ MapsBack(grid, Nat)
            /\ Len(grid.segments) <= SegmentRoom
            /\ \A k \in DOMAIN grid.segments : grid.segments[k].frame <= duration
<1> DEFINE beats == ParseBeats(p, section).beats
           grid == SetGrid(beats, duration)
           n == Len(beats) - 1
<1>1. beats \in Seq(Beats) /\ \A i \in DOMAIN beats : BeatFollows(beats, i)
  <2>1. CASE section.ok /\ \A i \in DOMAIN section.beats : BeatFollows(section.beats, i)
    <3>1. beats = section.beats
      BY <2>1 DEF ParseBeats
    <3> HIDE DEF beats
    <3> QED
      BY <2>1, <3>1
  <2>2. CASE ~ (section.ok /\ \A i \in DOMAIN section.beats : BeatFollows(section.beats, i))
    <3>1. beats = <<>>
      BY <2>2 DEF ParseBeats
    <3> HIDE DEF beats
    <3> QED
      BY <3>1
  <2> QED
    BY <2>1, <2>2
<1> HIDE DEF beats
<1>2. SUFFICES ASSUME grid # NoGrid
               PROVE  /\ ValidGrid(grid) /\ MapsBack(grid, Nat) /\ Len(grid.segments) <= SegmentRoom
                      /\ \A k \in DOMAIN grid.segments : grid.segments[k].frame <= duration
  BY DEF beats
<1>3. ~ (beats = <<>> \/ FrameOf(beats[1].time) >= duration)
  BY <1>2 DEF SetGrid
<1>4. n \in Nat /\ Len(beats) \in Nat \ {0} /\ DOMAIN beats = 1 .. Len(beats)
  BY <1>1, <1>3, LenProperties, EmptySeq
<1>5. PICK g : /\ g[0] = GridStart(beats)
               /\ \A k \in 1 .. n : g[k] = GridStep(g[k - 1], beats, k + 1, duration)
               /\ grid = GridFrom(g[n], beats)
  BY <1>3, <1>4, GridInOrder
<1> HIDE DEF n, grid
<1>6. \A i \in DOMAIN beats : beats[i] \in Beats /\ beats[i].tempo # 0 /\ beats[i].number # 0
  BY <1>1, <1>4, ElementOfSeq DEF BeatFollows
<1> DEFINE Good(acc) == /\ DOMAIN acc = {"ok", "since", "segments"} /\ acc.ok \in BOOLEAN /\ acc.since \in Nat
                        /\ Tiled(acc.segments, duration)
           bad == {k \in 0 .. n : ~ Good(g[k])}
<1>7. Good(g[0])
  <2> DEFINE frame == FrameOf(beats[1].time)
             e == [frame |-> frame, beat |-> 0, tempo |-> beats[1].tempo]
  <2>1. beats[1] \in Beats /\ beats[1].tempo # 0
    BY <1>4, <1>6
  <2>2. frame \in Nat
    <3>1. beats[1].time \in Nat /\ FrameRate \in Nat
      BY <2>1, ImportBounds DEF Beats
    <3> DEFINE t == beats[1].time
    <3> HIDE DEF t
    <3>2. t * FrameRate \in Nat
      BY <3>1 DEF t
    <3>3. frame = (2 * (t * FrameRate) + 1000) \div 2000
      BY DEF FrameOf, RoundedDiv, t
    <3> HIDE DEF frame
    <3> QED
      BY <3>2, <3>3
  <2>3. frame <= duration
    BY <1>3, <2>2
  <2> HIDE DEF frame
  <2>4. e \in Segments /\ e.frame = frame /\ e.beat = 0 /\ e.tempo > 0
    BY <2>1, <2>2 DEF Segments, Beats
  <2>5. g[0] = [ok |-> TRUE, since |-> 1, segments |-> <<e>>]
    BY <1>5 DEF GridStart, frame
  <2> HIDE DEF e
  <2>6. /\ <<e>> \in Seq(Segments) /\ Len(<<e>>) = 1 /\ <<e>>[1] = e
    BY <2>4
  <2>7. 1 \in 1 .. SegmentRoom
    BY ImportBounds
  <2>8. Tiled(<<e>>, duration)
    BY <2>3, <2>4, <2>6, <2>7 DEF Tiled
  <2> QED
    BY <2>5, <2>8
<1>8. ASSUME NEW k \in 1 .. n, Good(g[k - 1])
      PROVE  Good(g[k])
  <2>1. k + 1 \in DOMAIN beats /\ beats[k + 1].tempo # 0
    BY <1>4, <1>6 DEF n
  <2>2. g[k] = GridStep(g[k - 1], beats, k + 1, duration)
    BY <1>5
  <2> DEFINE acc == g[k - 1]
             new == GridStep(acc, beats, k + 1, duration)
  <2>3. /\ DOMAIN acc = {"ok", "since", "segments"} /\ acc.ok \in BOOLEAN /\ acc.since \in Nat
        /\ Tiled(acc.segments, duration)
    BY <1>8
  <2> HIDE DEF acc
  <2>4. Good(new)
    BY <1>1, <2>1, <2>3, SegmentAdded
  <2> QED
    BY <2>2, <2>4 DEF acc
<1> HIDE DEF Good
<1>9. Good(g[n])
  <2> SUFFICES ASSUME ~ Good(g[n]) PROVE FALSE
    OBVIOUS
  <2>1. bad \subseteq Nat /\ n \in bad
    BY <1>4 DEF n
  <2>2. PICK k \in bad : \A m \in bad : k <= m
    BY <2>1, SmallestNumber
  <2>3. k \in 1 .. n /\ k - 1 \in 0 .. n
    BY <1>7, <2>1, <2>2
  <2>4. k - 1 \notin bad
    BY <2>1, <2>2, <2>3
  <2>5. Good(g[k - 1])
    BY <2>3, <2>4
  <2> QED
    BY <1>8, <2>2, <2>3, <2>5
<1> DEFINE s == g[n].segments
<1>10. Tiled(s, duration) /\ g[n].ok \in BOOLEAN
  BY <1>9 DEF Good
<1>11. grid = [segments |-> s, meter |-> Meter(beats)]
  BY <1>2, <1>5 DEF GridFrom, NoGrid
<1> HIDE DEF s
<1>12. grid.segments = s /\ grid.meter = Meter(beats)
  BY <1>11
<1>13. Meter(beats) \in Nat \ {0}
  BY <1>1, <1>4, <1>6, MeterPositive
<1>14. s \in Seq(Segments) /\ DOMAIN s = 1 .. Len(s) /\ s # <<>> /\ Len(s) <= SegmentRoom
  BY <1>10, LenProperties, EmptySeq, ImportBounds DEF Tiled
<1>15. ValidGrid(grid)
  <2>1. \A i \in 2 .. Len(s) : /\ s[i].frame > s[i - 1].frame /\ s[i].beat > s[i - 1].beat
                               /\ s[i].beat = UnitsAt(s[i - 1], s[i].frame)
    BY <1>10 DEF Tiled
  <2>2. \A i \in DOMAIN s : s[i].beat >= 0 /\ s[i].tempo > 0
    BY <1>10, <1>14 DEF Tiled
  <2>3. s[1].beat = 0
    BY <1>10 DEF Tiled
  <2> QED
    BY <1>12, <1>13, <1>14, <2>1, <2>2, <2>3 DEF ValidGrid
<1>16. MapsBack(grid, Nat)
  BY <1>12, <1>13, <1>14, <1>15, BeatsMapBack
<1>17. \A k \in DOMAIN s : s[k].frame <= duration
  BY <1>10, <1>14 DEF Tiled
<1> QED
  BY <1>12, <1>14, <1>15, <1>16, <1>17

-----------------------------------------------------------------------------
(* The deck's control quantizer                                            *)

(* The quantizer's data, for any identities of events; what waits was not  *)
(* meant for at once.                                                      *)
DeckEvents(Ids) == [at : Nat, quantum : Nat, id : Ids]
Waiting(Ids) == [event : {e \in DeckEvents(Ids) : e.quantum # 0}, target : Nat \cup {Unresolved}]
Transports == [valid : BOOLEAN, running : BOOLEAN, beat : Nat]

Quantizers(Ids) == [out : Seq(DeckEvents(Ids)), pending : Seq(Waiting(Ids)), dropped : Nat]
Counted(q) == Len(q.out) + Len(q.pending) + q.dropped

(* What the block may hold so far, and what may still wait.                *)
Allowed(o, pending, input, t) ==
  /\ o.at < BlockFrames
  /\ \/ o.quantum = 0 /\ o \in ToSet(input)
     \/ /\ t.valid /\ t.running
        /\ \/ \E e \in ToSet(input) : e.quantum # 0 /\ PublishedAt(o, e, AwaitedBy(e, t), t)
           \/ \E p \in ToSet(pending) :
                PublishedAt(o, p.event, IF p.target = Unresolved THEN AwaitedBy(p.event, t) ELSE {p.target}, t)
NotYet(p, t) == t.valid /\ t.running => p.target > t.beat + (BlockFrames - 1) * FrameTicks
InBlock(q, pending, input, t) ==
  /\ \A i \in 1 .. Len(q.out) : Allowed(q.out[i], pending, input, t)
  /\ \A i \in 2 .. Len(q.out) : q.out[i - 1].at <= q.out[i].at

(* The bounds of the control block, by name.                               *)
LEMMA ControlBoundsHold ==
  /\ EventRoom \in Nat \ {0} /\ BlockFrames \in Nat \ {0} /\ FrameTicks \in Nat \ {0}
BY ControlsAssumption

(* An event is put behind those of its own frame and before later ones.    *)
LEMMA InsertedInOrder ==
  ASSUME NEW Ids, NEW q \in Quantizers(Ids), NEW e \in DeckEvents(Ids), NEW pending, NEW input, NEW t,
         InBlock(q, pending, input, t), Allowed(e, pending, input, t)
  PROVE  LET r == InsertEvent(q, e) IN
         /\ r \in Quantizers(Ids) /\ InBlock(r, pending, input, t)
         /\ Counted(r) = Counted(q) + 1 /\ r.pending = q.pending
<1> DEFINE s == q.out
           n == Len(s)
           S == {0} \cup {i \in DOMAIN s : s[i].at <= e.at}
           m == Max(S)
           r == InsertEvent(q, e)
           Events == DeckEvents(Ids)
<1>1. /\ s \in Seq(Events) /\ n \in Nat /\ DOMAIN s = 1 .. n /\ q.dropped \in Nat
      /\ q.pending \in Seq(Waiting(Ids)) /\ Len(q.pending) \in Nat
  BY LenProperties DEF Quantizers
<1>2. \A i \in 1 .. n : s[i] \in Events /\ s[i].at \in Nat
  <2> TAKE i \in 1 .. n
  <2>1. s[i] \in DeckEvents(Ids)
    BY <1>1, ElementOfSeq
  <2> HIDE DEF s
  <2> QED
    BY <2>1 DEF DeckEvents
<1>3. e.at \in Nat
  BY DEF DeckEvents
<1>4. CASE n >= EventRoom
  <2>1. r = [q EXCEPT !.dropped = @ + 1]
    BY <1>4 DEF InsertEvent
  <2> HIDE DEF r
  <2>2. r \in Quantizers(Ids) /\ r.out = q.out /\ r.pending = q.pending /\ r.dropped = q.dropped + 1
    BY <1>1, <2>1 DEF Quantizers
  <2>3. InBlock(r, pending, input, t)
    BY <2>2 DEF InBlock
  <2>4. Len(q.out) + Len(q.pending) + (q.dropped + 1) = Len(q.out) + Len(q.pending) + q.dropped + 1
    <3>1. \A a, b, c \in Nat : a + b + (c + 1) = a + b + c + 1
      OBVIOUS
    <3>2. Len(q.out) \in Nat /\ Len(q.pending) \in Nat /\ q.dropped \in Nat
      BY <1>1
    <3> QED
      BY <3>1, <3>2, Zenon
  <2>5. Counted(r) = Counted(q) + 1
    BY <2>2, <2>4, Zenon DEF Counted
  <2> QED
    BY <2>2, <2>3, <2>5 DEF r
<1>5. CASE ~ (n >= EventRoom)
  <2> DEFINE x == SubSeq(s, 1, m)
             y == SubSeq(s, m + 1, n)
             z == x \o <<e>>
             w == z \o y
  <2>1. r = [q EXCEPT !.out = w]
    <3>1. (m + 1) - 1 = m
      <4>1. S \in SUBSET (0 .. n) /\ S # {}
        BY <1>1
      <4> HIDE DEF S
      <4>2. m \in 0 .. n
        BY <1>1, <4>1, LargestNumber
      <4> QED
        BY <4>2
    <3>2. r = [q EXCEPT !.out = InsertAt(@, m + 1, e)]
      BY <1>5 DEF InsertEvent
    <3> HIDE DEF m
    <3>3. InsertAt(q.out, m + 1, e) = w
      <4> DEFINE j == m + 1
      <4>1. InsertAt(q.out, j, e) = SubSeq(q.out, 1, j - 1) \o <<e>> \o SubSeq(q.out, j, Len(q.out))
        BY Zenon DEF InsertAt
      <4>2. j - 1 = m
        BY <3>1
      <4>3. SubSeq(q.out, 1, j - 1) = SubSeq(q.out, 1, m)
        BY <4>2, Zenon
      <4> QED
        BY <4>1, <4>3, Zenon
    <3> HIDE DEF w, r
    <3> QED
      BY <3>2, <3>3
  <2>2. S \in SUBSET (0 .. n) /\ S # {}
    BY <1>1
  <2>3. m \in S /\ \A i \in S : i <= m
    <3> HIDE DEF S
    <3> QED
      BY <1>1, <2>2, LargestNumber
  <2> HIDE DEF r, m
  <2>4. m \in 0 .. n /\ (m > 0 => s[m].at <= e.at) /\ (m < n => e.at < s[m + 1].at)
    <3>1. m \in 0 .. n /\ (m > 0 => s[m].at <= e.at)
      BY <2>2, <2>3
    <3>2. m < n => m + 1 \in 1 .. n /\ m + 1 \notin S
      BY <1>1, <2>3, <3>1
    <3> QED
      BY <1>1, <1>2, <1>3, <3>1, <3>2
  <2> HIDE DEF s, n, S, Events
  <2>5. x \in Seq(Events) /\ Len(x) = m /\ \A i \in 1 .. m : x[i] = s[i]
    <3>1. 1 \in Int /\ m \in Int /\ (\A i \in 1 .. m : s[i] \in Events) /\ m - 1 + 1 = m /\ 1 .. m - 1 + 1 = 1 .. m
      BY <1>1, <1>2, <2>4
    <3>2. /\ x \in Seq(Events) /\ Len(x) = IF 1 <= m THEN m - 1 + 1 ELSE 0
          /\ \A i \in 1 .. m - 1 + 1 : x[i] = s[1 + i - 1]
      BY <3>1, SubSeqProperties
    <3>3. \A i \in 1 .. m : 1 + i - 1 = i
      OBVIOUS
    <3> HIDE DEF x
    <3> QED
      BY <2>4, <3>1, <3>2, <3>3
  <2>6. y \in Seq(Events) /\ Len(y) = n - m /\ \A i \in 1 .. n - m : y[i] = s[m + i]
    <3>1. m + 1 \in Int /\ n \in Int /\ (\A i \in m + 1 .. n : s[i] \in Events) /\ n - (m + 1) + 1 = n - m
      BY <1>1, <1>2, <2>4
    <3>2. /\ y \in Seq(Events) /\ Len(y) = IF m + 1 <= n THEN n - (m + 1) + 1 ELSE 0
          /\ \A i \in 1 .. n - (m + 1) + 1 : y[i] = s[m + 1 + i - 1]
      BY <3>1, SubSeqProperties
    <3>3. \A i \in 1 .. n - m : m + 1 + i - 1 = m + i
      BY <2>4
    <3> HIDE DEF y
    <3>4. Len(y) = n - m
      BY <1>1, <2>4, <3>1, <3>2
    <3>5. \A i \in 1 .. n - m : y[i] = s[m + i]
      BY <3>1, <3>2, <3>3
    <3> QED
      BY <3>2, <3>4, <3>5
  <2> HIDE DEF x, y
  <2>7. <<e>> \in Seq(Events) /\ Len(<<e>>) = 1 /\ <<e>>[1] = e
    BY DEF Events
  <2>8. z \in Seq(Events) /\ Len(z) = m + 1 /\ z[m + 1] = e /\ \A i \in 1 .. m : z[i] = s[i]
    <3>1. /\ z \in Seq(Events) /\ Len(z) = Len(x) + Len(<<e>>)
          /\ \A i \in 1 .. Len(x) + Len(<<e>>) : z[i] = IF i <= Len(x) THEN x[i] ELSE <<e>>[i - Len(x)]
      BY <2>5, <2>7, ConcatProperties
    <3> HIDE DEF z
    <3>2. Len(z) = m + 1
      BY <2>5, <2>7, <3>1
    <3>3. z[m + 1] = e
      <4>1. m + 1 \in 1 .. Len(x) + Len(<<e>>) /\ ~ (m + 1 <= Len(x)) /\ m + 1 - Len(x) = 1
        BY <2>4, <2>5, <2>7
      <4>2. z[m + 1] = <<e>>[m + 1 - Len(x)]
        BY <3>1, <4>1
      <4> QED
        BY <2>7, <4>1, <4>2
    <3>4. \A i \in 1 .. m : z[i] = s[i]
      <4> TAKE i \in 1 .. m
      <4>1. i \in 1 .. Len(x) + Len(<<e>>) /\ i <= Len(x)
        BY <2>4, <2>5, <2>7
      <4> QED
        BY <2>5, <3>1, <4>1
    <3> QED
      BY <3>1, <3>2, <3>3, <3>4
  <2> HIDE DEF z
  <2>9. /\ w \in Seq(Events) /\ Len(w) = n + 1 /\ w[m + 1] = e
        /\ \A i \in 1 .. m : w[i] = s[i]
        /\ \A i \in m + 2 .. n + 1 : w[i] = s[i - 1]
    <3>1. /\ w \in Seq(Events) /\ Len(w) = Len(z) + Len(y)
          /\ \A i \in 1 .. Len(z) + Len(y) : w[i] = IF i <= Len(z) THEN z[i] ELSE y[i - Len(z)]
      BY <2>6, <2>8, ConcatProperties
    <3> HIDE DEF w
    <3>2. Len(w) = n + 1 /\ Len(z) + Len(y) = n + 1
      BY <1>1, <2>4, <2>6, <2>8, <3>1
    <3>3. \A i \in 1 .. m + 1 : w[i] = z[i]
      <4> TAKE i \in 1 .. m + 1
      <4>1. i \in 1 .. Len(z) + Len(y) /\ i <= Len(z)
        BY <1>1, <2>4, <2>8, <3>2
      <4> QED
        BY <3>1, <4>1
    <3>4. \A i \in m + 2 .. n + 1 : w[i] = s[i - 1]
      <4> TAKE i \in m + 2 .. n + 1
      <4>1. i \in 1 .. Len(z) + Len(y) /\ ~ (i <= Len(z)) /\ i - Len(z) \in 1 .. n - m /\ m + (i - Len(z)) = i - 1
        BY <1>1, <2>4, <2>8, <3>2
      <4>2. w[i] = y[i - Len(z)]
        BY <3>1, <4>1
      <4>3. y[i - Len(z)] = s[m + (i - Len(z))]
        BY <2>6, <4>1
      <4> QED
        BY <4>1, <4>2, <4>3
    <3>5. m + 1 \in 1 .. m + 1 /\ \A i \in 1 .. m : i \in 1 .. m + 1
      BY <2>4
    <3>6. w[m + 1] = e /\ \A i \in 1 .. m : w[i] = s[i]
      BY <2>8, <3>3, <3>5
    <3> QED
      BY <3>1, <3>2, <3>4, <3>6
  <2> HIDE DEF w
  <2>10. r \in Quantizers(Ids) /\ r.out = w /\ r.pending = q.pending /\ r.dropped = q.dropped
    BY <2>1, <2>9 DEF Quantizers, Events
  <2>11. \A i \in 1 .. Len(w) : Allowed(w[i], pending, input, t)
    <3> TAKE i \in 1 .. Len(w)
    <3>1. CASE i \in 1 .. m
      BY <1>1, <2>4, <2>9, <3>1 DEF InBlock, s, n
    <3>2. CASE i = m + 1
      BY <2>9, <3>2
    <3>3. CASE i \in m + 2 .. n + 1
      <4>1. w[i] = s[i - 1] /\ i - 1 \in 1 .. n
        BY <1>1, <2>4, <2>9, <3>3
      <4> QED
        BY <4>1 DEF InBlock, s, n
    <3> QED
      BY <1>1, <2>4, <2>9, <3>1, <3>2, <3>3
  <2>12. \A i \in 2 .. Len(w) : w[i - 1].at <= w[i].at
    <3> TAKE i \in 2 .. Len(w)
    <3>0. \A k \in 2 .. n : s[k - 1].at <= s[k].at
      BY DEF InBlock, s, n
    <3>1. CASE i \in 2 .. m
      <4>1. i \in 1 .. m /\ i - 1 \in 1 .. m /\ i \in 2 .. n
        BY <1>1, <2>4, <3>1
      <4> QED
        BY <2>9, <3>0, <4>1
    <3>2. CASE i = m + 1
      <4>1. i - 1 = m /\ m > 0 /\ m \in 1 .. m
        BY <2>4, <3>2
      <4> QED
        BY <2>4, <2>9, <3>2, <4>1
    <3>3. CASE i = m + 2
      <4>1. i - 1 = m + 1 /\ m < n /\ i \in m + 2 .. n + 1
        BY <1>1, <2>4, <2>9, <3>3
      <4>2. m + 1 \in 1 .. n /\ w[i] = s[m + 1]
        BY <1>1, <2>4, <2>9, <4>1
      <4> QED
        BY <1>2, <1>3, <2>4, <2>9, <4>1, <4>2
    <3>4. CASE i \in m + 3 .. n + 1
      <4>1. i \in m + 2 .. n + 1 /\ i - 1 \in m + 2 .. n + 1 /\ i - 1 \in 2 .. n
        BY <1>1, <2>4, <3>4
      <4>2. w[i] = s[i - 1] /\ w[i - 1] = s[i - 1 - 1] /\ s[i - 1 - 1].at <= s[i - 1].at
        BY <2>9, <3>0, <4>1
      <4> QED
        BY <4>2
    <3> QED
      BY <1>1, <2>4, <2>9, <3>1, <3>2, <3>3, <3>4
  <2>13. InBlock(r, pending, input, t)
    BY <2>10, <2>11, <2>12 DEF InBlock
  <2>14. Counted(r) = Counted(q) + 1
    <3>1. Len(q.out) = n /\ Len(r.out) = n + 1 /\ Len(r.pending) = Len(q.pending) /\ r.dropped = q.dropped
      BY <2>9, <2>10 DEF s, n
    <3>2. n + 1 + Len(q.pending) + q.dropped = n + Len(q.pending) + q.dropped + 1
      <4>1. \A a, b, c \in Nat : a + 1 + b + c = a + b + c + 1
        OBVIOUS
      <4>2. n \in Nat /\ Len(q.pending) \in Nat /\ q.dropped \in Nat
        BY <1>1
      <4> QED
        BY <4>1, <4>2, Zenon
    <3> QED
      BY <3>1, <3>2, Zenon DEF Counted
  <2> QED
    BY <2>10, <2>13, <2>14 DEF r
<1> QED
  BY <1>4, <1>5

(* The frame an event is moved to is the first at or after its boundary.   *)
LEMMA FirstFrameReached ==
  ASSUME NEW t \in Transports, NEW target \in Nat
  PROVE  /\ BoundaryOffset(target, t) \in Nat
         /\ ReachedIn(target, BoundaryOffset(target, t), t)
<1> DEFINE F == FrameTicks
           d == target - t.beat
           k == BoundaryOffset(target, t)
<1>1. F \in Nat \ {0} /\ t.beat \in Nat
  BY ControlBoundsHold DEF Transports
<1>2. CASE target <= t.beat
  <2>1. k = 0
    BY <1>2 DEF BoundaryOffset
  <2> HIDE DEF k
  <2>2. k * FrameTicks = 0
    BY <1>1, <2>1
  <2> QED
    BY <1>1, <1>2, <2>1, <2>2 DEF ReachedIn, k
<1>3. CASE ~ (target <= t.beat)
  <2>1. k = (d + F - 1) \div F /\ d \in Nat \ {0}
    BY <1>1, <1>3 DEF BoundaryOffset
  <2>2. d + F - 1 \in Int
    BY <1>1, <2>1
  <2> HIDE DEF k, d, F
  <2>3. PICK x \in Int, y \in 0 .. F - 1 : x = (d + F - 1) \div F /\ d + F - 1 = F * x + y
    BY <1>1, <2>2, Quotient
  <2>4. F * x \in Int /\ F * x >= d /\ F * x - F < d
    BY <1>1, <2>1, <2>3
  <2>5. x > 0
    <3> SUFFICES ASSUME x <= 0 PROVE FALSE
      BY <2>3
    <3>1. CASE x = 0
      BY <1>1, <2>1, <2>4, <3>1
    <3>2. CASE x < 0
      <4>1. F * x + F <= F * 0
        BY <1>1, <2>3, <3>2, Multiples
      <4>2. F * 0 = 0
        BY <1>1
      <4> QED
        BY <1>1, <2>1, <2>4, <4>1, <4>2
    <3> QED
      BY <2>3, <3>1, <3>2
  <2>6. k = x /\ k \in Nat /\ k * F = F * x /\ (k - 1) * F = F * x - F
    BY <1>1, <2>1, <2>3, <2>5
  <2>7. target <= t.beat + k * F /\ target > t.beat + (k - 1) * F
    BY <1>1, <2>4, <2>6 DEF d
  <2> QED
    BY <2>6, <2>7 DEF ReachedIn, F, k
<1> QED
  BY <1>2, <1>3

(* The next boundary is a beat or bar, less than one away.                 *)
LEMMA BoundaryAwaited ==
  ASSUME NEW Ids, NEW e \in DeckEvents(Ids), e.quantum # 0, NEW t \in Transports
  PROVE  BoundaryOf(e, t) \in Nat /\ BoundaryOf(e, t) \in AwaitedBy(e, t)
<1> DEFINE Q == e.quantum
           b == PlaceOf(e, t)
           target == BoundaryOf(e, t)
<1>1. Q \in Nat \ {0} /\ b \in Nat
  <2>1. e.at \in Nat /\ t.beat \in Nat /\ FrameTicks \in Nat
    BY ControlBoundsHold DEF DeckEvents, Transports
  <2>2. e.at * FrameTicks \in Nat
    BY <2>1
  <2> QED
    BY <2>1, <2>2 DEF DeckEvents, PlaceOf
<1>2. target = Q * ((b + Q - 1) \div Q)
  BY DEF BoundaryOf, NextBoundary, PlaceOf
<1>3. AwaitedBy(e, t) = {x \in b .. b + Q - 1 : x % Q = 0}
  BY DEF AwaitedBy
<1> HIDE DEF Q, b, target
<1>4. b + Q - 1 \in Int
  BY <1>1
<1>5. PICK x \in Int, y \in 0 .. Q - 1 : x = (b + Q - 1) \div Q /\ b + Q - 1 = Q * x + y
  BY <1>1, <1>4, Quotient
<1>6. target = Q * x /\ Q * x \in Int
  BY <1>1, <1>2, <1>5
<1>7. target \in b .. b + Q - 1 /\ target \in Nat
  BY <1>1, <1>5, <1>6
<1>8. target % Q = 0
  <2>1. PICK z \in Int, r \in 0 .. Q - 1 : r = target % Q /\ target = Q * z + r
    BY <1>1, <1>7, Quotient
  <2>2. Q * z \in Int
    BY <1>1
  <2>3. ~ (z < x)
    <3> SUFFICES ASSUME z < x PROVE FALSE
      OBVIOUS
    <3>1. Q * z + Q <= Q * x
      BY <1>1, Multiples
    <3> QED
      BY <1>1, <1>6, <2>1, <2>2, <3>1
  <2>4. ~ (x < z)
    <3> SUFFICES ASSUME x < z PROVE FALSE
      OBVIOUS
    <3>1. Q * x + Q <= Q * z
      BY <1>1, Multiples
    <3> QED
      BY <1>1, <1>6, <2>1, <2>2, <3>1
  <2>5. z = x
    BY <2>1, <2>3, <2>4
  <2> QED
    BY <1>6, <2>1, <2>2, <2>5
<1> QED
  BY <1>3, <1>7, <1>8 DEF target

(* What waits is kept, or counted as dropped.                              *)
LEMMA QueuedOrCounted ==
  ASSUME NEW Ids, NEW q \in Quantizers(Ids), NEW e \in DeckEvents(Ids), e.quantum # 0,
         NEW target \in Nat \cup {Unresolved}, NEW t,
         \A i \in 1 .. Len(q.pending) : NotYet(q.pending[i], t),
         t.valid /\ t.running => target > t.beat + (BlockFrames - 1) * FrameTicks
  PROVE  LET r == QueueEvent(q, e, target) IN
         /\ r \in Quantizers(Ids) /\ r.out = q.out /\ Counted(r) = Counted(q) + 1
         /\ \A i \in 1 .. Len(r.pending) : NotYet(r.pending[i], t)
<1> DEFINE s == q.pending
           n == Len(s)
           p == [event |-> e, target |-> target]
           r == QueueEvent(q, e, target)
           W == Waiting(Ids)
<1>1. /\ s \in Seq(W) /\ n \in Nat /\ q.dropped \in Nat /\ q.out \in Seq(DeckEvents(Ids)) /\ Len(q.out) \in Nat
  BY LenProperties DEF Quantizers
<1>2. CASE n >= EventRoom
  <2>1. r = [q EXCEPT !.dropped = @ + 1]
    BY <1>2 DEF QueueEvent
  <2> HIDE DEF r
  <2>2. r \in Quantizers(Ids) /\ r.out = q.out /\ r.pending = q.pending /\ r.dropped = q.dropped + 1
    BY <1>1, <2>1 DEF Quantizers
  <2>3. \A a, b, c \in Nat : a + b + (c + 1) = a + b + c + 1
    OBVIOUS
  <2>4. Len(q.out) + Len(q.pending) + (q.dropped + 1) = Len(q.out) + Len(q.pending) + q.dropped + 1
    BY <1>1, <2>3, Zenon
  <2>5. Counted(r) = Counted(q) + 1
    BY <2>2, <2>4, Zenon DEF Counted
  <2> QED
    BY <2>2, <2>5 DEF r
<1>3. CASE ~ (n >= EventRoom)
  <2> DEFINE w == Append(s, p)
  <2>1. r = [q EXCEPT !.pending = w]
    BY <1>3 DEF QueueEvent
  <2> HIDE DEF r
  <2>2. p \in W /\ p.target = target
    BY DEF Waiting
  <2> HIDE DEF p, W, s
  <2>3. w \in Seq(W) /\ Len(w) = n + 1 /\ w[n + 1] = p /\ \A i \in 1 .. n : w[i] = s[i]
    BY <1>1, <2>2, AppendProperties
  <2> HIDE DEF w
  <2>4. r \in Quantizers(Ids) /\ r.out = q.out /\ r.pending = w /\ r.dropped = q.dropped
    BY <2>1, <2>3 DEF Quantizers, W
  <2>5. \A i \in 1 .. Len(w) : NotYet(w[i], t)
    <3> TAKE i \in 1 .. Len(w)
    <3>1. CASE i = n + 1
      <4>1. w[i] = p
        BY <2>3, <3>1
      <4> QED
        BY <2>2, <4>1 DEF NotYet
    <3>2. CASE i \in 1 .. n
      <4>1. w[i] = s[i] /\ NotYet(s[i], t)
        BY <2>3, <3>2 DEF s
      <4> QED
        BY <4>1
    <3> QED
      BY <1>1, <2>3, <3>1, <3>2
  <2>6. Counted(r) = Counted(q) + 1
    <3>1. \A a, b, c \in Nat : a + (b + 1) + c = a + b + c + 1
      OBVIOUS
    <3>2. Len(q.out) + (n + 1) + q.dropped = Len(q.out) + n + q.dropped + 1
      BY <1>1, <3>1, Zenon
    <3>3. Len(r.out) = Len(q.out) /\ Len(r.pending) = n + 1 /\ r.dropped = q.dropped /\ Len(q.pending) = n
      BY <2>3, <2>4 DEF s
    <3> QED
      BY <3>2, <3>3, Zenon DEF Counted
  <2> QED
    BY <2>4, <2>5, <2>6 DEF r
<1> QED
  BY <1>2, <1>3

(* An event with a boundary goes to its frame, or waits for a later block. *)
LEMMA ScheduledInTime ==
  ASSUME NEW Ids, NEW q \in Quantizers(Ids), NEW e \in DeckEvents(Ids), e.quantum # 0,
         NEW target \in Nat, NEW pending, NEW input, NEW t \in Transports, t.valid,
         InBlock(q, pending, input, t), \A i \in 1 .. Len(q.pending) : NotYet(q.pending[i], t),
         \/ e \in ToSet(input) /\ target \in AwaitedBy(e, t)
         \/ \E p \in ToSet(pending) :
              p.event = e /\ target \in IF p.target = Unresolved THEN AwaitedBy(e, t) ELSE {p.target}
  PROVE  LET r == Schedule(q, e, target, t) IN
         /\ r \in Quantizers(Ids) /\ InBlock(r, pending, input, t) /\ Counted(r) = Counted(q) + 1
         /\ \A i \in 1 .. Len(r.pending) : NotYet(r.pending[i], t)
<1> DEFINE offset == BoundaryOffset(target, t)
           moved == [e EXCEPT !.at = offset]
           r == Schedule(q, e, target, t)
<1>1. offset \in Nat /\ ReachedIn(target, offset, t)
  BY FirstFrameReached
<1>2. CASE t.running /\ offset < BlockFrames
  <2>1. r = InsertEvent(q, moved)
    BY <1>2 DEF Schedule
  <2> HIDE DEF offset, r
  <2>2. moved \in DeckEvents(Ids) /\ moved.at = offset /\ moved = [e EXCEPT !.at = moved.at]
    BY <1>1 DEF DeckEvents
  <2> HIDE DEF moved
  <2>3. \A targets : target \in targets => PublishedAt(moved, e, targets, t)
    BY <1>1, <2>2 DEF PublishedAt
  <2>4. Allowed(moved, pending, input, t)
    <3>1. CASE e \in ToSet(input) /\ target \in AwaitedBy(e, t)
      <4>1. PublishedAt(moved, e, AwaitedBy(e, t), t)
        BY <2>3, <3>1
      <4> QED
        BY <1>2, <2>2, <3>1, <4>1 DEF Allowed
    <3>2. CASE \E p \in ToSet(pending) :
                 p.event = e /\ target \in IF p.target = Unresolved THEN AwaitedBy(e, t) ELSE {p.target}
      <4>1. PICK p \in ToSet(pending) :
              p.event = e /\ target \in IF p.target = Unresolved THEN AwaitedBy(e, t) ELSE {p.target}
        BY <3>2
      <4>2. PublishedAt(moved, p.event, IF p.target = Unresolved THEN AwaitedBy(p.event, t) ELSE {p.target}, t)
        BY <2>3, <4>1
      <4> QED
        BY <1>2, <2>2, <4>2 DEF Allowed
    <3> QED
      BY <3>1, <3>2
  <2>5. /\ r \in Quantizers(Ids) /\ InBlock(r, pending, input, t)
        /\ Counted(r) = Counted(q) + 1 /\ r.pending = q.pending
    BY <2>1, <2>2, <2>4, InsertedInOrder
  <2> QED
    BY <2>5 DEF r
<1>3. CASE ~ (t.running /\ offset < BlockFrames)
  <2>1. r = QueueEvent(q, e, target)
    BY <1>3 DEF Schedule
  <2> HIDE DEF offset, r
  <2>2. t.valid /\ t.running => target > t.beat + (BlockFrames - 1) * FrameTicks
    <3> SUFFICES ASSUME t.running PROVE target > t.beat + (BlockFrames - 1) * FrameTicks
      OBVIOUS
    <3>1. BlockFrames <= offset /\ BlockFrames \in Nat \ {0} /\ FrameTicks \in Nat \ {0} /\ t.beat \in Nat
      BY <1>1, <1>3, ControlBoundsHold DEF Transports
    <3>2. target > t.beat + (offset - 1) * FrameTicks
      BY <1>1, <3>1 DEF ReachedIn
    <3>3. (offset - 1) * FrameTicks \in Int /\ (BlockFrames - 1) * FrameTicks \in Int
          /\ (BlockFrames - 1) * FrameTicks <= (offset - 1) * FrameTicks
      <4> DEFINE a == BlockFrames - 1
                 b == offset - 1
      <4>1. a \in Int /\ b \in Int /\ a <= b
        BY <1>1, <3>1
      <4> HIDE DEF a, b
      <4>2. CASE a = b
        BY <3>1, <4>1, <4>2 DEF a, b
      <4>3. CASE a < b
        <5>1. FrameTicks * a + FrameTicks <= FrameTicks * b
          BY <3>1, <4>1, <4>3, Multiples
        <5>2. FrameTicks * a = a * FrameTicks /\ FrameTicks * b = b * FrameTicks
              /\ a * FrameTicks \in Int /\ b * FrameTicks \in Int
          BY <3>1, <4>1
        <5> QED
          BY <3>1, <5>1, <5>2 DEF a, b
      <4> QED
        BY <4>1, <4>2, <4>3
    <3> QED
      BY <3>1, <3>2, <3>3
  <2>3. /\ r \in Quantizers(Ids) /\ r.out = q.out /\ Counted(r) = Counted(q) + 1
        /\ \A i \in 1 .. Len(r.pending) : NotYet(r.pending[i], t)
    BY <2>1, <2>2, QueuedOrCounted
  <2>4. InBlock(r, pending, input, t)
    BY <2>3 DEF InBlock
  <2> QED
    BY <2>3, <2>4 DEF r
<1> QED
  BY <1>2, <1>3

Publishing(q, p, t) ==
  Schedule(q, p.event, IF p.target = Unresolved THEN BoundaryOf(p.event, t) ELSE p.target, t)

(* What is pending is published in turn.                                   *)
LEMMA PublishedInTurn ==
  ASSUME NEW q, Len(q.pending) \in Nat, DOMAIN q.pending = 1 .. Len(q.pending), NEW t
  PROVE  \E g : /\ g[0] = [q EXCEPT !.pending = <<>>]
                /\ \A k \in 1 .. Len(q.pending) : g[k] = Publishing(g[k - 1], q.pending[k], t)
                /\ PublishDue(q, t) = g[Len(q.pending)]
<1> DEFINE todo == q.pending
           n == Len(q.pending)
           Then(f, s) == IF s = {} THEN [q EXCEPT !.pending = <<>>]
                         ELSE Publishing(f[s \ {Max(s)}], todo[Max(s)], t)
           Folds(D, f) == f = [s \in SUBSET D |-> Then(f, s)]
           bad == {m \in Nat : ~ \E f : Folds(1 .. m, f)}
<1>1. n \in Nat /\ DOMAIN todo = 1 .. n /\ \A k \in 1 .. n : todo[k] = q.pending[k]
  OBVIOUS
<1>2. \E f : Folds(1 .. 0, f)
  <2> DEFINE f == [s \in SUBSET (1 .. 0) |-> [q EXCEPT !.pending = <<>>]]
  <2>1. \A s \in SUBSET (1 .. 0) : Then(f, s) = [q EXCEPT !.pending = <<>>]
    OBVIOUS
  <2>2. Folds(1 .. 0, f)
    BY <2>1
  <2> QED
    BY <2>2
<1>3. ASSUME NEW m \in Nat, NEW f, Folds(1 .. m, f)
      PROVE  \E h : Folds(1 .. m + 1, h)
  <2> DEFINE h == [s \in SUBSET (1 .. m + 1) |->
                     IF m + 1 \in s THEN Publishing(f[s \ {m + 1}], todo[m + 1], t) ELSE f[s]]
  <2> HIDE DEF todo
  <2>1. ASSUME NEW s \in SUBSET (1 .. m + 1)
        PROVE  h[s] = Then(h, s)
    <3>1. CASE m + 1 \in s
      <4>1. Max(s) = m + 1
        <5>1. \A y \in s : m + 1 >= y
          OBVIOUS
        <5>2. \A x \in s : (\A y \in s : x >= y) => x = m + 1
          BY <3>1, <5>1
        <5> QED
          BY <3>1, <5>1, <5>2 DEF Max
      <4>2. s \ {m + 1} \in SUBSET (1 .. m) /\ s \ {m + 1} \in SUBSET (1 .. m + 1)
        OBVIOUS
      <4>3. h[s \ {m + 1}] = f[s \ {m + 1}]
        BY <4>2
      <4>4. h[s] = Publishing(f[s \ {m + 1}], todo[m + 1], t)
        BY <3>1
      <4> HIDE DEF h
      <4> QED
        BY <3>1, <4>1, <4>3, <4>4
    <3>2. CASE m + 1 \notin s
      <4>1. s \in SUBSET (1 .. m)
        BY <3>2
      <4>2. h[s] = f[s] /\ h[s \ {Max(s)}] = f[s \ {Max(s)}]
        BY <3>2
      <4>3. f[s] = Then(f, s)
        BY <1>3, <4>1
      <4> HIDE DEF h
      <4> QED
        BY <4>2, <4>3
    <3> QED
      BY <3>1, <3>2
  <2>2. Folds(1 .. m + 1, h)
    <3>1. h = [s \in SUBSET (1 .. m + 1) |-> h[s]]
      OBVIOUS
    <3> HIDE DEF h, Then
    <3> QED
      BY <2>1, <3>1
  <2> QED
    BY <2>2
<1>4. \E f : Folds(DOMAIN todo, f)
  <2> HIDE DEF Folds, n, todo
  <2>1. SUFFICES ASSUME n \in bad PROVE FALSE
    BY <1>1
  <2>2. PICK m \in bad : \A k \in bad : m <= k
    BY <2>1, SmallestNumber
  <2>3. m # 0 /\ m \in Nat
    BY <1>2, <2>2
  <2>4. m - 1 \in Nat /\ m - 1 \notin bad
    BY <2>2, <2>3
  <2>5. PICK f : Folds(1 .. m - 1, f)
    BY <2>4
  <2>6. \E h : Folds(1 .. m - 1 + 1, h)
    BY <1>3, <2>4, <2>5
  <2>7. m - 1 + 1 = m
    BY <2>3
  <2> QED
    BY <2>2, <2>6, <2>7
<1> DEFINE f == CHOOSE f : Folds(DOMAIN todo, f)
<1>5. Folds(DOMAIN todo, f)
  BY <1>4
<1>6. PublishDue(q, t) = f[DOMAIN todo]
  BY Zenon DEF PublishDue, Publishing, FoldLeft, MapThenFoldSet
<1> HIDE DEF f
<1> DEFINE g == [k \in 0 .. n |-> f[1 .. k]]
<1>7. g[0] = [q EXCEPT !.pending = <<>>]
  <2>1. 1 .. 0 = {} /\ {} \in SUBSET (DOMAIN todo)
    OBVIOUS
  <2>2. f[{}] = [q EXCEPT !.pending = <<>>]
    BY <1>5, <2>1
  <2> HIDE DEF n
  <2> QED
    BY <1>1, <2>1, <2>2
<1>8. ASSUME NEW k \in 1 .. n
      PROVE  g[k] = Publishing(g[k - 1], q.pending[k], t)
  <2> HIDE DEF n, Then, todo
  <2>1. 1 .. k \in SUBSET (DOMAIN todo) /\ k \in 1 .. k /\ (1 .. k) \ {k} = 1 .. k - 1
        /\ k - 1 \in 0 .. n /\ k \in 0 .. n
    BY <1>1
  <2>2. Max(1 .. k) = k
    <3>1. \A y \in 1 .. k : k >= y
      OBVIOUS
    <3>2. \A x \in 1 .. k : (\A y \in 1 .. k : x >= y) => x = k
      BY <1>1, <2>1
    <3> QED
      BY <2>1, <3>1, <3>2 DEF Max
  <2>3. f[1 .. k] = Then(f, 1 .. k)
    BY <1>5, <2>1
  <2>4. Then(f, 1 .. k) = Publishing(f[1 .. k - 1], q.pending[k], t)
    BY <1>1, <2>1, <2>2 DEF Then
  <2> QED
    BY <2>1, <2>3, <2>4
<1>9. g[n] = f[DOMAIN todo]
  BY <1>1
<1> HIDE DEF g
<1> QED
  BY <1>6, <1>7, <1>8, <1>9

(* What was pending is published, or waits for a later block.              *)
LEMMA DuePublished ==
  ASSUME NEW Ids, NEW q \in Quantizers(Ids), q.out = <<>>, NEW input, NEW t \in Transports, t.valid
  PROVE  LET r == PublishDue(q, t) IN
         /\ r \in Quantizers(Ids) /\ InBlock(r, q.pending, input, t) /\ Counted(r) = Counted(q)
         /\ \A i \in 1 .. Len(r.pending) : NotYet(r.pending[i], t)
<1> DEFINE pending == q.pending
           n == Len(pending)
           start == [q EXCEPT !.pending = <<>>]
           r == PublishDue(q, t)
<1>1. /\ pending \in Seq(Waiting(Ids)) /\ n \in Nat /\ DOMAIN pending = 1 .. n /\ q.dropped \in Nat
      /\ q.out \in Seq(DeckEvents(Ids)) /\ Len(q.out) = 0
  BY LenProperties, EmptySeq DEF Quantizers
<1>2. PICK g : /\ g[0] = start
               /\ \A k \in 1 .. n : g[k] = Publishing(g[k - 1], pending[k], t)
               /\ r = g[n]
  <2>1. Len(q.pending) \in Nat /\ DOMAIN q.pending = 1 .. Len(q.pending)
    BY <1>1
  <2>2. \E g : /\ g[0] = [q EXCEPT !.pending = <<>>]
               /\ \A k \in 1 .. Len(q.pending) : g[k] = Publishing(g[k - 1], q.pending[k], t)
               /\ PublishDue(q, t) = g[Len(q.pending)]
    BY <2>1, PublishedInTurn
  <2> QED
    BY <2>2
<1> DEFINE Good(k) == /\ g[k] \in Quantizers(Ids) /\ InBlock(g[k], pending, input, t)
                      /\ Counted(g[k]) = q.dropped + k
                      /\ \A i \in 1 .. Len(g[k].pending) : NotYet(g[k].pending[i], t)
           bad == {k \in 0 .. n : ~ Good(k)}
<1> HIDE DEF r
<1>3. start \in Quantizers(Ids) /\ start.out = <<>> /\ start.pending = <<>> /\ start.dropped = q.dropped
  BY EmptySeq DEF Quantizers
<1> HIDE DEF start, n
<1>4. Good(0)
  <2>1. Len(<<>>) = 0
    BY EmptySeq
  <2>2. Counted(start) = q.dropped + 0
    BY <1>1, <1>3, <2>1 DEF Counted
  <2>3. InBlock(start, pending, input, t)
    BY <1>3, <2>1 DEF InBlock
  <2>4. \A i \in 1 .. Len(start.pending) : NotYet(start.pending[i], t)
    BY <1>3, <2>1
  <2> QED
    BY <1>2, <1>3, <2>2, <2>3, <2>4
<1>5. ASSUME NEW k \in 1 .. n, Good(k - 1)
      PROVE  Good(k)
  <2> DEFINE s == g[k - 1]
             p == pending[k]
             e == p.event
             target == IF p.target = Unresolved THEN BoundaryOf(e, t) ELSE p.target
             z == Schedule(s, e, target, t)
  <2>1. p \in Waiting(Ids) /\ p \in ToSet(pending)
    <3>1. k \in DOMAIN pending
      BY <1>1
    <3> QED
      BY <1>1, <3>1, ElementOfSeq DEF ToSet
  <2>2. s \in Quantizers(Ids) /\ InBlock(s, pending, input, t) /\ Counted(s) = q.dropped + (k - 1)
        /\ \A i \in 1 .. Len(s.pending) : NotYet(s.pending[i], t)
    BY <1>5
  <2>3. g[k] = z
    BY <1>2 DEF Publishing
  <2> HIDE DEF s, p, Good
  <2>4. e \in DeckEvents(Ids) /\ e.quantum # 0 /\ p.target \in Nat \cup {Unresolved}
    BY <2>1 DEF Waiting
  <2> HIDE DEF e
  <2>5. BoundaryOf(e, t) \in Nat /\ BoundaryOf(e, t) \in AwaitedBy(e, t)
    BY <2>4, BoundaryAwaited
  <2>6. target \in Nat /\ target \in IF p.target = Unresolved THEN AwaitedBy(e, t) ELSE {p.target}
    BY <2>4, <2>5
  <2>7. \E x \in ToSet(pending) :
          x.event = e /\ target \in IF x.target = Unresolved THEN AwaitedBy(e, t) ELSE {x.target}
    BY <2>1, <2>6 DEF e
  <2> HIDE DEF target
  <2>8. z \in Quantizers(Ids) /\ InBlock(z, pending, input, t) /\ Counted(z) = Counted(s) + 1
        /\ \A i \in 1 .. Len(z.pending) : NotYet(z.pending[i], t)
    BY <2>2, <2>4, <2>6, <2>7, ScheduledInTime
  <2> HIDE DEF z
  <2>9. q.dropped + (k - 1) + 1 = q.dropped + k
    BY <1>1
  <2> QED
    BY <2>2, <2>3, <2>8, <2>9 DEF Good
<1> HIDE DEF Good
<1>6. Good(n)
  <2> SUFFICES ASSUME ~ Good(n) PROVE FALSE
    OBVIOUS
  <2>1. bad \subseteq Nat /\ n \in bad
    BY <1>1
  <2>2. PICK k \in bad : \A m \in bad : k <= m
    BY <2>1, SmallestNumber
  <2>3. k \in 1 .. n /\ k - 1 \in 0 .. n /\ k - 1 \notin bad
    BY <1>1, <1>4, <2>1, <2>2
  <2> QED
    BY <1>5, <2>2, <2>3
<1>7. Counted(q) = q.dropped + n
  <2>1. Counted(q) = 0 + n + q.dropped
    BY <1>1 DEF Counted, n
  <2> QED
    BY <1>1, <2>1
<1> QED
  BY <1>2, <1>6, <1>7 DEF Good, r

(* A new event is published, waits, or is counted as dropped.              *)
LEMMA EventQuantized ==
  ASSUME NEW Ids, NEW q \in Quantizers(Ids), NEW pending, NEW input, NEW t \in Transports,
         NEW e \in DeckEvents(Ids), e \in ToSet(input),
         InBlock(q, pending, input, t), \A i \in 1 .. Len(q.pending) : NotYet(q.pending[i], t)
  PROVE  LET r == Quantize(q, e, t) IN
         /\ r \in Quantizers(Ids) /\ InBlock(r, pending, input, t) /\ Counted(r) = Counted(q) + 1
         /\ \A i \in 1 .. Len(r.pending) : NotYet(r.pending[i], t)
<1> DEFINE r == Quantize(q, e, t)
<1>1. e.at \in Nat /\ BlockFrames \in Nat
  BY ControlBoundsHold DEF DeckEvents
<1>2. CASE e.at >= BlockFrames
  <2>1. r = [q EXCEPT !.dropped = @ + 1]
    BY <1>1, <1>2 DEF Quantize
  <2> HIDE DEF r
  <2>2. q.dropped \in Nat /\ Len(q.out) \in Nat /\ Len(q.pending) \in Nat
    BY LenProperties DEF Quantizers
  <2>3. r \in Quantizers(Ids) /\ r.out = q.out /\ r.pending = q.pending /\ r.dropped = q.dropped + 1
    BY <2>1, <2>2 DEF Quantizers
  <2>4. \A a, b, c \in Nat : a + b + (c + 1) = a + b + c + 1
    OBVIOUS
  <2>5. Len(q.out) + Len(q.pending) + (q.dropped + 1) = Len(q.out) + Len(q.pending) + q.dropped + 1
    BY <2>2, <2>4, Zenon
  <2>6. Counted(r) = Counted(q) + 1
    BY <2>3, <2>5, Zenon DEF Counted
  <2>7. InBlock(r, pending, input, t)
    BY <2>3 DEF InBlock
  <2> QED
    BY <2>3, <2>6, <2>7 DEF r
<1>3. CASE e.at < BlockFrames /\ e.quantum = 0
  <2>1. r = InsertEvent(q, e)
    BY <1>1, <1>3 DEF Quantize
  <2> HIDE DEF r
  <2>2. Allowed(e, pending, input, t)
    BY <1>3 DEF Allowed
  <2>3. /\ r \in Quantizers(Ids) /\ InBlock(r, pending, input, t)
        /\ Counted(r) = Counted(q) + 1 /\ r.pending = q.pending
    BY <2>1, <2>2, InsertedInOrder
  <2> QED
    BY <2>3 DEF r
<1>4. CASE e.at < BlockFrames /\ e.quantum # 0 /\ t.valid
  <2>1. r = Schedule(q, e, BoundaryOf(e, t), t)
    BY <1>1, <1>4 DEF Quantize
  <2> HIDE DEF r
  <2>2. BoundaryOf(e, t) \in Nat /\ BoundaryOf(e, t) \in AwaitedBy(e, t)
    BY <1>4, BoundaryAwaited
  <2>3. r \in Quantizers(Ids) /\ InBlock(r, pending, input, t) /\ Counted(r) = Counted(q) + 1
        /\ \A i \in 1 .. Len(r.pending) : NotYet(r.pending[i], t)
    BY <1>4, <2>1, <2>2, ScheduledInTime
  <2> QED
    BY <2>3 DEF r
<1>5. CASE e.at < BlockFrames /\ e.quantum # 0 /\ ~ t.valid
  <2>1. r = QueueEvent(q, e, Unresolved)
    BY <1>1, <1>5 DEF Quantize
  <2> HIDE DEF r
  <2>2. /\ r \in Quantizers(Ids) /\ r.out = q.out /\ Counted(r) = Counted(q) + 1
        /\ \A i \in 1 .. Len(r.pending) : NotYet(r.pending[i], t)
    BY <1>5, <2>1, QueuedOrCounted
  <2>3. InBlock(r, pending, input, t)
    BY <2>2 DEF InBlock
  <2> QED
    BY <2>2, <2>3 DEF r
<1> QED
  BY <1>1, <1>2, <1>3, <1>4, <1>5

QuantizeFrom(pending, t) ==
  LET fresh == [out |-> <<>>, pending |-> pending, dropped |-> 0]
  IN IF t.valid THEN PublishDue(fresh, t) ELSE fresh

(* The events of a block are quantized in turn.                            *)
LEMMA QuantizedInTurn ==
  ASSUME NEW pending, NEW input, Len(input) \in Nat, DOMAIN input = 1 .. Len(input), NEW t
  PROVE  \E g : /\ g[0] = QuantizeFrom(pending, t)
                /\ \A k \in 1 .. Len(input) : g[k] = Quantize(g[k - 1], input[k], t)
                /\ QuantizeBlock(pending, input, t) = g[Len(input)]
<1> DEFINE q == input
           n == Len(input)
           Then(f, s) == IF s = {} THEN QuantizeFrom(pending, t)
                         ELSE Quantize(f[s \ {Max(s)}], q[Max(s)], t)
           Folds(D, f) == f = [s \in SUBSET D |-> Then(f, s)]
           bad == {m \in Nat : ~ \E f : Folds(1 .. m, f)}
<1>1. n \in Nat /\ DOMAIN q = 1 .. n /\ \A k \in 1 .. n : q[k] = input[k]
  OBVIOUS
<1>2. \E f : Folds(1 .. 0, f)
  <2> DEFINE f == [s \in SUBSET (1 .. 0) |-> QuantizeFrom(pending, t)]
  <2>1. \A s \in SUBSET (1 .. 0) : Then(f, s) = QuantizeFrom(pending, t)
    OBVIOUS
  <2>2. Folds(1 .. 0, f)
    BY <2>1
  <2> QED
    BY <2>2
<1>3. ASSUME NEW m \in Nat, NEW f, Folds(1 .. m, f)
      PROVE  \E h : Folds(1 .. m + 1, h)
  <2> DEFINE h == [s \in SUBSET (1 .. m + 1) |->
                     IF m + 1 \in s THEN Quantize(f[s \ {m + 1}], q[m + 1], t) ELSE f[s]]
  <2> HIDE DEF q
  <2>1. ASSUME NEW s \in SUBSET (1 .. m + 1)
        PROVE  h[s] = Then(h, s)
    <3>1. CASE m + 1 \in s
      <4>1. Max(s) = m + 1
        <5>1. \A y \in s : m + 1 >= y
          OBVIOUS
        <5>2. \A x \in s : (\A y \in s : x >= y) => x = m + 1
          BY <3>1, <5>1
        <5> QED
          BY <3>1, <5>1, <5>2 DEF Max
      <4>2. s \ {m + 1} \in SUBSET (1 .. m) /\ s \ {m + 1} \in SUBSET (1 .. m + 1)
        OBVIOUS
      <4>3. h[s \ {m + 1}] = f[s \ {m + 1}]
        BY <4>2
      <4>4. h[s] = Quantize(f[s \ {m + 1}], q[m + 1], t)
        BY <3>1
      <4> HIDE DEF h
      <4> QED
        BY <3>1, <4>1, <4>3, <4>4
    <3>2. CASE m + 1 \notin s
      <4>1. s \in SUBSET (1 .. m)
        BY <3>2
      <4>2. h[s] = f[s] /\ h[s \ {Max(s)}] = f[s \ {Max(s)}]
        BY <3>2
      <4>3. f[s] = Then(f, s)
        BY <1>3, <4>1
      <4> HIDE DEF h
      <4> QED
        BY <4>2, <4>3
    <3> QED
      BY <3>1, <3>2
  <2>2. Folds(1 .. m + 1, h)
    <3>1. h = [s \in SUBSET (1 .. m + 1) |-> h[s]]
      OBVIOUS
    <3> HIDE DEF h, Then
    <3> QED
      BY <2>1, <3>1
  <2> QED
    BY <2>2
<1>4. \E f : Folds(DOMAIN q, f)
  <2> HIDE DEF Folds, n, q
  <2>1. SUFFICES ASSUME n \in bad PROVE FALSE
    BY <1>1
  <2>2. PICK m \in bad : \A k \in bad : m <= k
    BY <2>1, SmallestNumber
  <2>3. m # 0 /\ m \in Nat
    BY <1>2, <2>2
  <2>4. m - 1 \in Nat /\ m - 1 \notin bad
    BY <2>2, <2>3
  <2>5. PICK f : Folds(1 .. m - 1, f)
    BY <2>4
  <2>6. \E h : Folds(1 .. m - 1 + 1, h)
    BY <1>3, <2>4, <2>5
  <2>7. m - 1 + 1 = m
    BY <2>3
  <2> QED
    BY <2>2, <2>6, <2>7
<1> DEFINE f == CHOOSE f : Folds(DOMAIN q, f)
<1>5. Folds(DOMAIN q, f)
  BY <1>4
<1>6. QuantizeBlock(pending, input, t) = f[DOMAIN q]
  BY Zenon DEF QuantizeBlock, QuantizeFrom, FoldLeft, MapThenFoldSet
<1> HIDE DEF f
<1> DEFINE g == [k \in 0 .. n |-> f[1 .. k]]
<1>7. g[0] = QuantizeFrom(pending, t)
  <2>1. 1 .. 0 = {} /\ {} \in SUBSET (DOMAIN q)
    OBVIOUS
  <2>2. f[{}] = QuantizeFrom(pending, t)
    BY <1>5, <2>1
  <2> HIDE DEF n
  <2> QED
    BY <1>1, <2>1, <2>2
<1>8. ASSUME NEW k \in 1 .. n
      PROVE  g[k] = Quantize(g[k - 1], input[k], t)
  <2> HIDE DEF n, Then, q
  <2>1. 1 .. k \in SUBSET (DOMAIN q) /\ k \in 1 .. k /\ (1 .. k) \ {k} = 1 .. k - 1
        /\ k - 1 \in 0 .. n /\ k \in 0 .. n
    BY <1>1
  <2>2. Max(1 .. k) = k
    <3>1. \A y \in 1 .. k : k >= y
      OBVIOUS
    <3>2. \A x \in 1 .. k : (\A y \in 1 .. k : x >= y) => x = k
      BY <1>1, <2>1
    <3> QED
      BY <2>1, <3>1, <3>2 DEF Max
  <2>3. f[1 .. k] = Then(f, 1 .. k)
    BY <1>5, <2>1
  <2>4. Then(f, 1 .. k) = Quantize(f[1 .. k - 1], input[k], t)
    BY <1>1, <2>1, <2>2 DEF Then
  <2> QED
    BY <2>1, <2>3, <2>4
<1>9. g[n] = f[DOMAIN q]
  BY <1>1
<1> HIDE DEF g
<1> QED
  BY <1>6, <1>7, <1>8, <1>9

(* The quantizer keeps time for any pending and new events, wherever the   *)
(* transport stands: none is lost uncounted, each is in the first frame at *)
(* or after the beat or bar it waited for (the block's first if that has   *)
(* passed), and on a running transport none is left behind.                *)
THEOREM EventsKeepTime ==
  ASSUME NEW Ids, NEW pending \in Seq(Waiting(Ids)), NEW input \in Seq(DeckEvents(Ids)), NEW t \in Transports
  PROVE  KeepsTime(QuantizeBlock(pending, input, t), pending, input, t)
<1> DEFINE n == Len(input)
           m == Len(pending)
           fresh == [out |-> <<>>, pending |-> pending, dropped |-> 0]
           r == QuantizeBlock(pending, input, t)
           From == QuantizeFrom(pending, t)
<1>1. n \in Nat /\ m \in Nat /\ DOMAIN input = 1 .. n
  BY LenProperties
<1>2. PICK g : /\ g[0] = From
               /\ \A k \in 1 .. n : g[k] = Quantize(g[k - 1], input[k], t)
               /\ r = g[n]
  <2>1. \E g : /\ g[0] = QuantizeFrom(pending, t)
               /\ \A k \in 1 .. Len(input) : g[k] = Quantize(g[k - 1], input[k], t)
               /\ QuantizeBlock(pending, input, t) = g[Len(input)]
    BY <1>1, QuantizedInTurn
  <2> QED
    BY <2>1
<1> HIDE DEF r
<1> DEFINE Good(k) == /\ g[k] \in Quantizers(Ids) /\ InBlock(g[k], pending, input, t)
                      /\ Counted(g[k]) = m + k
                      /\ \A i \in 1 .. Len(g[k].pending) : NotYet(g[k].pending[i], t)
           bad == {k \in 0 .. n : ~ Good(k)}
<1>3. /\ fresh \in Quantizers(Ids) /\ fresh.out = <<>> /\ fresh.pending = pending /\ fresh.dropped = 0
      /\ Len(<<>>) = 0
  BY EmptySeq DEF Quantizers
<1> HIDE DEF fresh
<1>4. Counted(fresh) = m
  <2>1. Counted(fresh) = 0 + m + 0
    BY <1>3 DEF Counted
  <2> QED
    BY <1>1, <2>1
<1>5. Good(0)
  <2>1. CASE t.valid
    <3>1. From = PublishDue(fresh, t)
      BY <2>1 DEF QuantizeFrom, fresh
    <3> HIDE DEF From
    <3>2. From \in Quantizers(Ids) /\ InBlock(From, pending, input, t) /\ Counted(From) = Counted(fresh)
          /\ \A i \in 1 .. Len(From.pending) : NotYet(From.pending[i], t)
      BY <1>3, <2>1, <3>1, DuePublished
    <3>3. m + 0 = m
      BY <1>1
    <3> HIDE DEF m, n
    <3> QED
      BY <1>2, <1>4, <3>2, <3>3
  <2>2. CASE ~ t.valid
    <3>1. From = fresh
      BY <2>2 DEF QuantizeFrom, fresh
    <3> HIDE DEF From
    <3>2. InBlock(fresh, pending, input, t)
      BY <1>3 DEF InBlock
    <3>3. \A i \in 1 .. Len(fresh.pending) : NotYet(fresh.pending[i], t)
      BY <2>2 DEF NotYet
    <3>4. m + 0 = m
      BY <1>1
    <3> HIDE DEF m, n
    <3> QED
      BY <1>2, <1>3, <1>4, <3>1, <3>2, <3>3, <3>4
  <2> QED
    BY <2>1, <2>2
<1> HIDE DEF From
<1>6. ASSUME NEW k \in 1 .. n, Good(k - 1)
      PROVE  Good(k)
  <2> DEFINE s == g[k - 1]
             e == input[k]
             z == Quantize(s, e, t)
  <2>1. e \in DeckEvents(Ids) /\ e \in ToSet(input)
    <3>1. k \in DOMAIN input
      BY <1>1
    <3> QED
      BY <1>1, <3>1, ElementOfSeq DEF ToSet
  <2>2. s \in Quantizers(Ids) /\ InBlock(s, pending, input, t) /\ Counted(s) = m + (k - 1)
        /\ \A i \in 1 .. Len(s.pending) : NotYet(s.pending[i], t)
    BY <1>6
  <2>3. g[k] = z
    BY <1>2
  <2> HIDE DEF s, e, Good
  <2>4. z \in Quantizers(Ids) /\ InBlock(z, pending, input, t) /\ Counted(z) = Counted(s) + 1
        /\ \A i \in 1 .. Len(z.pending) : NotYet(z.pending[i], t)
    BY <2>1, <2>2, EventQuantized
  <2> HIDE DEF z
  <2>5. m + (k - 1) + 1 = m + k
    BY <1>1
  <2> HIDE DEF m, n
  <2> QED
    BY <2>2, <2>3, <2>4, <2>5 DEF Good
<1> HIDE DEF Good
<1>7. Good(n)
  <2> SUFFICES ASSUME ~ Good(n) PROVE FALSE
    OBVIOUS
  <2>1. bad \subseteq Nat /\ n \in bad
    BY <1>1
  <2>2. PICK k \in bad : \A i \in bad : k <= i
    BY <2>1, SmallestNumber
  <2>3. k \in 1 .. n /\ k - 1 \in 0 .. n /\ k - 1 \notin bad
    BY <1>1, <1>5, <2>1, <2>2
  <2> QED
    BY <1>6, <2>2, <2>3
<1>8. /\ r \in Quantizers(Ids) /\ InBlock(r, pending, input, t) /\ Counted(r) = m + n
      /\ \A i \in 1 .. Len(r.pending) : NotYet(r.pending[i], t)
  BY <1>2, <1>7 DEF Good
<1>9. DOMAIN r.out = 1 .. Len(r.out) /\ DOMAIN r.pending = 1 .. Len(r.pending)
  BY <1>8, LenProperties DEF Quantizers
<1>10. \A o \in ToSet(r.out) : Allowed(o, pending, input, t)
  BY <1>8, <1>9 DEF InBlock, ToSet
<1>11. \A p \in ToSet(r.pending) : NotYet(p, t)
  BY <1>8, <1>9 DEF ToSet
<1>12. \A i \in DOMAIN r.out : r.out[i].at < BlockFrames
  BY <1>8, <1>9 DEF InBlock, Allowed
<1>13. \A i \in 2 .. Len(r.out) : r.out[i - 1].at <= r.out[i].at
  BY <1>8 DEF InBlock
<1>14. Len(r.out) + Len(r.pending) + r.dropped = Len(pending) + Len(input)
  BY <1>8 DEF Counted
<1>15. t.valid /\ t.running => \A p \in ToSet(r.pending) : p.target > t.beat + (BlockFrames - 1) * FrameTicks
  BY <1>11 DEF NotYet
<1>16. \A o \in ToSet(r.out) :
         \/ o.quantum = 0 /\ o \in ToSet(input)
         \/ /\ t.valid /\ t.running
            /\ \/ \E e \in ToSet(input) : e.quantum # 0 /\ PublishedAt(o, e, AwaitedBy(e, t), t)
               \/ \E p \in ToSet(pending) :
                    PublishedAt(o, p.event, IF p.target = Unresolved THEN AwaitedBy(p.event, t) ELSE {p.target}, t)
  BY <1>10 DEF Allowed
<1> HIDE DEF m, n
<1> QED
  BY <1>12, <1>13, <1>14, <1>15, <1>16, Zenon DEF KeepsTime, r

-----------------------------------------------------------------------------
(* The transport follower                                                  *)

(* The larger and the smaller of two numbers.                              *)
LEMMA OfTwo ==
  ASSUME NEW x \in Int, NEW y \in Int
  PROVE  /\ Max({x, y}) = IF x >= y THEN x ELSE y
         /\ Min({x, y}) = IF x <= y THEN x ELSE y
<1>1. CASE x >= y
  <2>1. \A z \in {x, y} : (\A w \in {x, y} : z >= w) => z = x
    BY <1>1
  <2>2. \A z \in {x, y} : (\A w \in {x, y} : z <= w) => z = y
    BY <1>1
  <2>3. Max({x, y}) = x
    BY <1>1, <2>1 DEF Max
  <2>4. Min({x, y}) = y
    BY <1>1, <2>2 DEF Min
  <2> QED
    BY <1>1, <2>3, <2>4
<1>2. CASE y >= x
  <2>1. \A z \in {x, y} : (\A w \in {x, y} : z >= w) => z = y
    BY <1>2
  <2>2. \A z \in {x, y} : (\A w \in {x, y} : z <= w) => z = x
    BY <1>2
  <2>3. Max({x, y}) = y
    BY <1>2, <2>1 DEF Max
  <2>4. Min({x, y}) = x
    BY <1>2, <2>2 DEF Min
  <2> QED
    BY <1>2, <2>3, <2>4
<1> QED
  BY <1>1, <1>2

(* Clamping by the larger and the smaller of two is clamping by cases.     *)
LEMMA Clamped ==
  ASSUME NEW x \in Int, NEW low \in Int, NEW high \in Int, low <= high
  PROVE  Clamp(x, low, high) = IF x < low THEN low ELSE IF x > high THEN high ELSE x
<1> DEFINE y == Max({low, x})
<1>1. y = IF low >= x THEN low ELSE x
  BY OfTwo
<1>2. Clamp(x, low, high) = Min({high, y})
  BY DEF Clamp
<1> HIDE DEF y
<1>3. y \in Int
  BY <1>1
<1>4. Min({high, y}) = IF high <= y THEN high ELSE y
  BY <1>3, OfTwo
<1> QED
  BY <1>1, <1>2, <1>4

(* A following deck stays in its range of rates and does not run away from *)
(* the transport, for all settings that allow the nominal rate, wherever   *)
(* transport and media are.                                                *)
THEOREM FollowerInRange ==
  ASSUME NEW settings, settings.low \in Int, settings.high \in Int, Unity \in settings.low .. settings.high,
         settings.nudge \in Nat, NEW mode \in {"off", "tempo", "phase"}, NEW t, t.beat \in Int, t.tempo \in Nat,
         NEW mediaBeat \in Int, NEW mediaTempo \in Nat
  PROVE  FollowsInRange(Follow(settings, mode, t, mediaBeat, mediaTempo), settings, mode, t, mediaBeat, mediaTempo)
<1> DEFINE d == Follow(settings, mode, t, mediaBeat, mediaTempo)
           nominal == (Unity * t.tempo) \div mediaTempo
           error == t.beat - mediaBeat
           nudged == Clamp(error, -settings.nudge, settings.nudge)
           rate == Clamp(nominal + nudged, settings.low, settings.high)
<1>1. CASE ~ t.valid \/ mediaTempo = 0 \/ mode = "off"
  <2>1. d = NoDecision
    BY <1>1 DEF Follow
  <2> HIDE DEF d
  <2> QED
    BY <2>1 DEF NoDecision, FollowsInRange, d
<1>2. CASE ~ (~ t.valid \/ mediaTempo = 0 \/ mode = "off")
  <2>1. d = IF nominal \notin settings.low .. settings.high THEN NoDecision
            ELSE IF mode = "tempo" THEN [NoDecision EXCEPT !.action = "rate", !.rate = nominal]
            ELSE IF t.discontinuity \/ Max({error, -error}) > settings.seek
                 THEN [action |-> "seek", rate |-> nominal, to |-> t.beat]
            ELSE [action |-> "rate", to |-> 0, rate |-> rate]
    BY <1>2 DEF Follow
  <2> HIDE DEF d
  <2>2. CASE nominal \notin settings.low .. settings.high
    <3>1. d = NoDecision
      BY <2>1, <2>2
    <3> QED
      BY <3>1 DEF NoDecision, FollowsInRange, d
  <2>3. CASE nominal \in settings.low .. settings.high /\ mode = "tempo"
    <3>1. d = [NoDecision EXCEPT !.action = "rate", !.rate = nominal]
      BY <2>1, <2>3
    <3> HIDE DEF nominal
    <3>2. d.action = "rate" /\ d.rate = nominal
      BY <3>1 DEF NoDecision
    <3> QED
      BY <2>3, <3>2 DEF FollowsInRange, d
  <2>4. CASE nominal \in settings.low .. settings.high /\ mode # "tempo"
    <3>1. CASE t.discontinuity \/ Max({error, -error}) > settings.seek
      <4>1. d = [action |-> "seek", rate |-> nominal, to |-> t.beat]
        BY <2>1, <2>4, <3>1
      <4> HIDE DEF nominal
      <4>2. d.action = "seek" /\ d.rate = nominal /\ d.to = t.beat
        BY <4>1
      <4>3. mode = "phase"
        BY <1>2, <2>4
      <4> QED
        BY <2>4, <4>2, <4>3 DEF FollowsInRange, d
    <3>2. CASE ~ (t.discontinuity \/ Max({error, -error}) > settings.seek)
      <4>1. d = [action |-> "rate", to |-> 0, rate |-> rate]
        BY <2>1, <2>4, <3>2
      <4>2. error \in Int /\ -settings.nudge \in Int /\ -settings.nudge <= settings.nudge /\ nominal \in Int
        BY <2>4
      <4>3. nudged = IF error < -settings.nudge THEN -settings.nudge
                     ELSE IF error > settings.nudge THEN settings.nudge ELSE error
        <5> HIDE DEF error
        <5> QED
          BY <4>2, Clamped
      <4> HIDE DEF nudged, nominal
      <4>4. nudged \in Int /\ (t.beat > mediaBeat => nudged >= 0) /\ (t.beat < mediaBeat => nudged <= 0)
        BY <4>2, <4>3
      <4>5. rate = IF nominal + nudged < settings.low THEN settings.low
                   ELSE IF nominal + nudged > settings.high THEN settings.high ELSE nominal + nudged
        <5>1. nominal + nudged \in Int /\ settings.low <= settings.high
          BY <4>2, <4>4
        <5> QED
          BY <5>1, Clamped
      <4> HIDE DEF rate
      <4>6. d.action = "rate" /\ d.rate = rate
        BY <4>1
      <4>7. /\ rate \in settings.low .. settings.high
            /\ t.beat > mediaBeat => rate >= nominal
            /\ t.beat < mediaBeat => rate <= nominal
        BY <2>4, <4>2, <4>4, <4>5
      <4> QED
        BY <4>6, <4>7 DEF FollowsInRange, nominal, d
    <3> QED
      BY <3>1, <3>2
  <2> QED
    BY <2>2, <2>3, <2>4
<1> QED
  BY <1>1, <1>2

-----------------------------------------------------------------------------
(* Loops and rates                                                         *)

(* A renderer between two frames: its rate is positive and a ramp comes    *)
(* down to its target from above.                                          *)
Renderers == [at : Nat, rate : Nat \ {0}, target : Nat \ {0}, step : Int, ramp : Nat,
              playing : BOOLEAN, looping : BOOLEAN, from : Nat, to : Nat]
Ramping(r) == r.ramp > 0 /\ r.step < 0 => r.rate + r.ramp * r.step >= r.target
Rolling(r) == r \in Renderers /\ Ramping(r) /\ (r.looping => r.from < r.to)

(* What the deck can send while it plays on, and what does not start a     *)
(* loop.                                                                   *)
PlayControls == {"play", "pause", "rate", "ramp"}
LoopControls == PlayControls \cup {"from", "to", "disable"}
IsControl(c, types) == c.type \in types /\ c.frames \in Nat /\ (c.type \in {"from", "to"} => c.value \in Nat)

FrameOrder(frames) == [f \in 1 .. frames |-> f]
Unheard(r) == [r |-> r, heard |-> <<>>]

(* A renderer with one thing changed is a renderer.                        *)
LEMMA OneChanged ==
  ASSUME NEW r \in Renderers
  PROVE  /\ \A v \in Nat : /\ [r EXCEPT !.at = v] \in Renderers /\ [r EXCEPT !.ramp = v] \in Renderers
                          /\ [r EXCEPT !.from = v] \in Renderers /\ [r EXCEPT !.to = v] \in Renderers
         /\ \A v \in Nat \ {0} : [r EXCEPT !.rate = v] \in Renderers /\ [r EXCEPT !.target = v] \in Renderers
         /\ \A v \in Int : [r EXCEPT !.step = v] \in Renderers
         /\ \A v \in BOOLEAN : [r EXCEPT !.playing = v] \in Renderers /\ [r EXCEPT !.looping = v] \in Renderers
BY DEF Renderers

(* A ramp ends on its target and never passes it.                          *)
LEMMA RateStaysPositive ==
  ASSUME NEW r, Rolling(r)
  PROVE  LET m == NextRate(r) IN
         /\ Rolling(m) /\ m.at = r.at /\ m.looping = r.looping /\ m.from = r.from /\ m.to = r.to
         /\ m.playing = r.playing
<1> DEFINE m == NextRate(r)
<1>1. r \in Renderers
  BY DEF Rolling
<1>2. CASE r.ramp = 0
  BY <1>2 DEF NextRate
<1>3. CASE r.ramp = 1
  <2>1. m = [r EXCEPT !.ramp = 0, !.rate = r.target]
    BY <1>1, <1>3 DEF NextRate, Renderers
  <2> HIDE DEF m
  <2>2. m.ramp = 0 /\ m \in Renderers
    <3> DEFINE x == [r EXCEPT !.ramp = 0]
    <3>1. x \in Renderers
      BY <1>1, OneChanged
    <3>2. m = [x EXCEPT !.rate = r.target] /\ r.target \in Nat \ {0}
      BY <1>1, <2>1 DEF Renderers
    <3>3. x.ramp = 0
      BY <1>1 DEF Renderers
    <3> HIDE DEF x
    <3> QED
      BY <3>1, <3>2, <3>3, OneChanged DEF Renderers
  <2>3. m.at = r.at /\ m.looping = r.looping /\ m.from = r.from /\ m.to = r.to /\ m.playing = r.playing
    BY <1>1, <2>1 DEF Renderers
  <2> QED
    BY <2>2, <2>3 DEF Rolling, Ramping, m
<1>4. CASE r.ramp > 1
  <2>1. m = [r EXCEPT !.ramp = r.ramp - 1, !.rate = r.rate + r.step]
    <3>1. r.ramp \in Nat /\ r.ramp # 0 /\ r.ramp # 1
      BY <1>1, <1>4 DEF Renderers
    <3> QED
      BY <3>1 DEF NextRate
  <2> HIDE DEF m
  <2> DEFINE n == r.ramp
             s == r.step
  <2>2. n \in Nat /\ n > 1 /\ s \in Int /\ r.rate \in Nat \ {0} /\ r.target \in Nat \ {0}
    BY <1>1, <1>4 DEF Renderers
  <2>3. n * s \in Int /\ (n - 1) * s \in Int /\ n * s = (n - 1) * s + s
    BY <2>2
  <2>4. s < 0 => (n - 1) * s <= 0
    BY <2>2
  <2>5. s < 0 => r.rate + n * s >= r.target
    BY <1>4, <2>2 DEF Rolling, Ramping
  <2> HIDE DEF n, s
  <2>6. r.rate + s \in Nat \ {0} /\ (s < 0 => r.rate + s + (n - 1) * s >= r.target)
    BY <2>2, <2>3, <2>4, <2>5
  <2>7. m \in Renderers
    <3>1. m = [r EXCEPT !.ramp = n - 1, !.rate = r.rate + s] /\ n - 1 \in Nat
      BY <2>1, <2>2 DEF n, s
    <3> DEFINE x == [r EXCEPT !.ramp = n - 1]
    <3>2. x \in Renderers
      BY <1>1, <3>1, OneChanged
    <3>3. m = [x EXCEPT !.rate = r.rate + s]
      BY <3>1
    <3> HIDE DEF x
    <3> QED
      BY <2>6, <3>2, <3>3, OneChanged
  <2>8. m.ramp = n - 1 /\ m.step = s /\ m.rate = r.rate + s /\ m.target = r.target
    BY <1>1, <2>1 DEF Renderers, n, s
  <2>9. Ramping(m)
    BY <2>6, <2>8 DEF Ramping
  <2> QED
    <3>1. m.at = r.at /\ m.looping = r.looping /\ m.from = r.from /\ m.to = r.to /\ m.playing = r.playing
      BY <1>1, <2>1 DEF Renderers
    <3> QED
      BY <2>7, <2>9, <3>1 DEF Rolling, m
<1> QED
  BY <1>1, <1>2, <1>3, <1>4 DEF Renderers

(* A rate or a ramp that is set leaves the renderer rolling where it is.   *)
LEMMA RateSet ==
  ASSUME NEW r, Rolling(r), NEW rate, NEW frames \in Nat
  PROVE  /\ Rolling(SetRate(r, rate)) /\ Rolling(RampRate(r, rate, frames))
         /\ \A s \in {SetRate(r, rate), RampRate(r, rate, frames)} :
              s.at = r.at /\ s.looping = r.looping /\ s.from = r.from /\ s.to = r.to
<1>1. r \in Renderers /\ Rates \subseteq Nat \ {0}
  BY LoopAssumption DEF Rolling
<1>2. CASE rate \notin Rates
  BY <1>2 DEF SetRate, RampRate
<1>3. ASSUME rate \in Rates
      PROVE  LET s == SetRate(r, rate) IN
             Rolling(s) /\ s.at = r.at /\ s.looping = r.looping /\ s.from = r.from /\ s.to = r.to
  <2> DEFINE s == SetRate(r, rate)
  <2>1. s = [r EXCEPT !.rate = rate, !.target = rate, !.step = 0, !.ramp = 0] /\ rate \in Nat \ {0}
    BY <1>1, <1>3 DEF SetRate
  <2> HIDE DEF s
  <2>2. s \in Renderers
    <3> DEFINE x == [r EXCEPT !.rate = rate]
               y == [x EXCEPT !.target = rate]
               z == [y EXCEPT !.step = 0]
    <3>1. x \in Renderers
      BY <1>1, <2>1, OneChanged
    <3>2. s = [z EXCEPT !.ramp = 0]
      BY <2>1
    <3> HIDE DEF x
    <3>3. y \in Renderers
      BY <2>1, <3>1, OneChanged
    <3> HIDE DEF y
    <3>4. z \in Renderers
      BY <3>3, OneChanged
    <3> HIDE DEF z
    <3> QED
      BY <3>2, <3>4, OneChanged
  <2>3. s.ramp = 0 /\ s.at = r.at /\ s.looping = r.looping /\ s.from = r.from /\ s.to = r.to
    BY <1>1, <2>1 DEF Renderers
  <2> QED
    BY <2>2, <2>3 DEF Rolling, Ramping, s
<1>4. CASE rate \in Rates /\ frames = 0
  <2>1. RampRate(r, rate, frames) = SetRate(r, rate)
    BY <1>4 DEF RampRate
  <2> QED
    BY <1>3, <1>4, <2>1
<1>5. CASE rate \in Rates /\ frames > 0
  <2> DEFINE s == RampRate(r, rate, frames)
             up == (rate - r.rate) \div frames
             down == (r.rate - rate) \div frames
             step == IF rate >= r.rate THEN up ELSE -down
  <2>1. s = [r EXCEPT !.target = rate, !.ramp = frames, !.step = step] /\ rate \in Nat \ {0}
    BY <1>1, <1>5 DEF RampRate
  <2>2. r.rate \in Nat \ {0} /\ frames \in Nat \ {0}
    BY <1>1, <1>5 DEF Renderers
  <2>3. up \in Int /\ frames * up <= rate - r.rate /\ rate - r.rate < frames * up + frames
    BY <2>1, <2>2, Quotient
  <2>4. down \in Int /\ frames * down <= r.rate - rate /\ r.rate - rate < frames * down + frames
    BY <2>1, <2>2, Quotient
  <2>5. rate >= r.rate => up >= 0
    <3>1. up < 0 => frames * up + frames <= 0
      BY <2>2, <2>3
    <3> QED
      BY <2>1, <2>2, <2>3, <3>1
  <2>6. frames * (-down) = -(frames * down)
    BY <2>2, <2>4
  <2> HIDE DEF s, up, down
  <2>7. step \in Int /\ (step < 0 => r.rate + frames * step >= rate)
    BY <2>1, <2>2, <2>3, <2>4, <2>5, <2>6
  <2> HIDE DEF step
  <2>8. /\ s \in Renderers /\ s.at = r.at /\ s.looping = r.looping /\ s.from = r.from /\ s.to = r.to
        /\ s.ramp = frames /\ s.step = step /\ s.rate = r.rate /\ s.target = rate
    BY <1>1, <2>1, <2>7 DEF Renderers
  <2>9. Rolling(s)
    BY <2>7, <2>8 DEF Rolling, Ramping
  <2> QED
    BY <1>3, <1>5, <2>8, <2>9 DEF s
<1> QED
  BY <1>2, <1>4, <1>5

(* The controls of a block are looked at in turn.                          *)
LEMMA ControlsInTurn ==
  ASSUME NEW r, NEW controls, Len(controls) \in Nat, DOMAIN controls = 1 .. Len(controls), NEW leased,
         NEW frames, NEW offset, InOrder(controls, frames)
  PROVE  \E g : /\ g[0] = r
                /\ \A k \in 1 .. Len(controls) : g[k] = ControlAt(g[k - 1], controls[k], offset, leased)
                /\ Controlled(r, controls, frames, offset, leased) = g[Len(controls)]
<1> DEFINE q == controls
           n == Len(controls)
           Then(f, s) == IF s = {} THEN r
                         ELSE ControlAt(f[s \ {Max(s)}], q[Max(s)], offset, leased)
           Folds(D, f) == f = [s \in SUBSET D |-> Then(f, s)]
           bad == {m \in Nat : ~ \E f : Folds(1 .. m, f)}
<1>1. n \in Nat /\ DOMAIN q = 1 .. n /\ \A k \in 1 .. n : q[k] = controls[k]
  OBVIOUS
<1>2. \E f : Folds(1 .. 0, f)
  <2> DEFINE f == [s \in SUBSET (1 .. 0) |-> r]
  <2>1. \A s \in SUBSET (1 .. 0) : Then(f, s) = r
    OBVIOUS
  <2>2. Folds(1 .. 0, f)
    BY <2>1
  <2> QED
    BY <2>2
<1>3. ASSUME NEW m \in Nat, NEW f, Folds(1 .. m, f)
      PROVE  \E h : Folds(1 .. m + 1, h)
  <2> DEFINE h == [s \in SUBSET (1 .. m + 1) |->
                     IF m + 1 \in s THEN ControlAt(f[s \ {m + 1}], q[m + 1], offset, leased) ELSE f[s]]
  <2> HIDE DEF q
  <2>1. ASSUME NEW s \in SUBSET (1 .. m + 1)
        PROVE  h[s] = Then(h, s)
    <3>1. CASE m + 1 \in s
      <4>1. Max(s) = m + 1
        <5>1. \A y \in s : m + 1 >= y
          OBVIOUS
        <5>2. \A x \in s : (\A y \in s : x >= y) => x = m + 1
          BY <3>1, <5>1
        <5> QED
          BY <3>1, <5>1, <5>2 DEF Max
      <4>2. s \ {m + 1} \in SUBSET (1 .. m) /\ s \ {m + 1} \in SUBSET (1 .. m + 1)
        OBVIOUS
      <4>3. h[s \ {m + 1}] = f[s \ {m + 1}]
        BY <4>2
      <4>4. h[s] = ControlAt(f[s \ {m + 1}], q[m + 1], offset, leased)
        BY <3>1
      <4> HIDE DEF h
      <4> QED
        BY <3>1, <4>1, <4>3, <4>4
    <3>2. CASE m + 1 \notin s
      <4>1. s \in SUBSET (1 .. m)
        BY <3>2
      <4>2. h[s] = f[s] /\ h[s \ {Max(s)}] = f[s \ {Max(s)}]
        BY <3>2
      <4>3. f[s] = Then(f, s)
        BY <1>3, <4>1
      <4> HIDE DEF h
      <4> QED
        BY <4>2, <4>3
    <3> QED
      BY <3>1, <3>2
  <2>2. Folds(1 .. m + 1, h)
    <3>1. h = [s \in SUBSET (1 .. m + 1) |-> h[s]]
      OBVIOUS
    <3> HIDE DEF h, Then
    <3> QED
      BY <2>1, <3>1
  <2> QED
    BY <2>2
<1>4. \E f : Folds(DOMAIN q, f)
  <2> HIDE DEF Folds, n, q
  <2>1. SUFFICES ASSUME n \in bad PROVE FALSE
    BY <1>1
  <2>2. PICK m \in bad : \A k \in bad : m <= k
    BY <2>1, SmallestNumber
  <2>3. m # 0 /\ m \in Nat
    BY <1>2, <2>2
  <2>4. m - 1 \in Nat /\ m - 1 \notin bad
    BY <2>2, <2>3
  <2>5. PICK f : Folds(1 .. m - 1, f)
    BY <2>4
  <2>6. \E h : Folds(1 .. m - 1 + 1, h)
    BY <1>3, <2>4, <2>5
  <2>7. m - 1 + 1 = m
    BY <2>3
  <2> QED
    BY <2>2, <2>6, <2>7
<1> DEFINE f == CHOOSE f : Folds(DOMAIN q, f)
<1>5. Folds(DOMAIN q, f)
  BY <1>4
<1>6. Controlled(r, controls, frames, offset, leased) = f[DOMAIN q]
  BY Zenon DEF Controlled, FoldLeft, MapThenFoldSet
<1> HIDE DEF f
<1> DEFINE g == [k \in 0 .. n |-> f[1 .. k]]
<1>7. g[0] = r
  <2>1. 1 .. 0 = {} /\ {} \in SUBSET (DOMAIN q)
    OBVIOUS
  <2>2. f[{}] = r
    BY <1>5, <2>1
  <2> HIDE DEF n
  <2> QED
    BY <1>1, <2>1, <2>2
<1>8. ASSUME NEW k \in 1 .. n
      PROVE  g[k] = ControlAt(g[k - 1], controls[k], offset, leased)
  <2> HIDE DEF n, Then, q
  <2>1. 1 .. k \in SUBSET (DOMAIN q) /\ k \in 1 .. k /\ (1 .. k) \ {k} = 1 .. k - 1
        /\ k - 1 \in 0 .. n /\ k \in 0 .. n
    BY <1>1
  <2>2. Max(1 .. k) = k
    <3>1. \A y \in 1 .. k : k >= y
      OBVIOUS
    <3>2. \A x \in 1 .. k : (\A y \in 1 .. k : x >= y) => x = k
      BY <1>1, <2>1
    <3> QED
      BY <2>1, <3>1, <3>2 DEF Max
  <2>3. f[1 .. k] = Then(f, 1 .. k)
    BY <1>5, <2>1
  <2>4. Then(f, 1 .. k) = ControlAt(f[1 .. k - 1], controls[k], offset, leased)
    BY <1>1, <2>1, <2>2 DEF Then
  <2> QED
    BY <2>1, <2>3, <2>4
<1>9. g[n] = f[DOMAIN q]
  BY <1>1
<1> HIDE DEF g
<1> QED
  BY <1>6, <1>7, <1>8, <1>9

(* The frames of a block are rendered in turn.                             *)
LEMMA FramesInTurn ==
  ASSUME NEW r, NEW controls, NEW leased, NEW frames \in Nat
  PROVE  \E g : /\ g[0] = Unheard(r)
                /\ \A k \in 1 .. frames : g[k] = RenderFrame(g[k - 1], controls, leased, frames, k - 1)
                /\ RenderLoop(r, controls, leased, frames) = g[frames]
<1> DEFINE q == FrameOrder(frames)
           n == frames
           Then(f, s) == IF s = {} THEN Unheard(r)
                         ELSE RenderFrame(f[s \ {Max(s)}], controls, leased, frames, q[Max(s)] - 1)
           Folds(D, f) == f = [s \in SUBSET D |-> Then(f, s)]
           bad == {m \in Nat : ~ \E f : Folds(1 .. m, f)}
<1>1. n \in Nat /\ DOMAIN q = 1 .. n /\ \A k \in 1 .. n : q[k] = k
  BY DEF FrameOrder
<1>2. \E f : Folds(1 .. 0, f)
  <2> DEFINE f == [s \in SUBSET (1 .. 0) |-> Unheard(r)]
  <2>1. \A s \in SUBSET (1 .. 0) : Then(f, s) = Unheard(r)
    OBVIOUS
  <2>2. Folds(1 .. 0, f)
    BY <2>1
  <2> QED
    BY <2>2
<1>3. ASSUME NEW m \in Nat, NEW f, Folds(1 .. m, f)
      PROVE  \E h : Folds(1 .. m + 1, h)
  <2> DEFINE h == [s \in SUBSET (1 .. m + 1) |->
                     IF m + 1 \in s THEN RenderFrame(f[s \ {m + 1}], controls, leased, frames, q[m + 1] - 1) ELSE f[s]]
  <2> HIDE DEF q
  <2>1. ASSUME NEW s \in SUBSET (1 .. m + 1)
        PROVE  h[s] = Then(h, s)
    <3>1. CASE m + 1 \in s
      <4>1. Max(s) = m + 1
        <5>1. \A y \in s : m + 1 >= y
          OBVIOUS
        <5>2. \A x \in s : (\A y \in s : x >= y) => x = m + 1
          BY <3>1, <5>1
        <5> QED
          BY <3>1, <5>1, <5>2 DEF Max
      <4>2. s \ {m + 1} \in SUBSET (1 .. m) /\ s \ {m + 1} \in SUBSET (1 .. m + 1)
        OBVIOUS
      <4>3. h[s \ {m + 1}] = f[s \ {m + 1}]
        BY <4>2
      <4>4. h[s] = RenderFrame(f[s \ {m + 1}], controls, leased, frames, q[m + 1] - 1)
        BY <3>1
      <4> HIDE DEF h
      <4> QED
        BY <3>1, <4>1, <4>3, <4>4
    <3>2. CASE m + 1 \notin s
      <4>1. s \in SUBSET (1 .. m)
        BY <3>2
      <4>2. h[s] = f[s] /\ h[s \ {Max(s)}] = f[s \ {Max(s)}]
        BY <3>2
      <4>3. f[s] = Then(f, s)
        BY <1>3, <4>1
      <4> HIDE DEF h
      <4> QED
        BY <4>2, <4>3
    <3> QED
      BY <3>1, <3>2
  <2>2. Folds(1 .. m + 1, h)
    <3>1. h = [s \in SUBSET (1 .. m + 1) |-> h[s]]
      OBVIOUS
    <3> HIDE DEF h, Then
    <3> QED
      BY <2>1, <3>1
  <2> QED
    BY <2>2
<1>4. \E f : Folds(DOMAIN q, f)
  <2> HIDE DEF Folds, n, q
  <2>1. SUFFICES ASSUME n \in bad PROVE FALSE
    BY <1>1
  <2>2. PICK m \in bad : \A k \in bad : m <= k
    BY <2>1, SmallestNumber
  <2>3. m # 0 /\ m \in Nat
    BY <1>2, <2>2
  <2>4. m - 1 \in Nat /\ m - 1 \notin bad
    BY <2>2, <2>3
  <2>5. PICK f : Folds(1 .. m - 1, f)
    BY <2>4
  <2>6. \E h : Folds(1 .. m - 1 + 1, h)
    BY <1>3, <2>4, <2>5
  <2>7. m - 1 + 1 = m
    BY <2>3
  <2> QED
    BY <2>2, <2>6, <2>7
<1> DEFINE f == CHOOSE f : Folds(DOMAIN q, f)
<1>5. Folds(DOMAIN q, f)
  BY <1>4
<1>6. RenderLoop(r, controls, leased, frames) = f[DOMAIN q]
  BY Zenon DEF RenderLoop, FrameOrder, Unheard, FoldLeft, MapThenFoldSet
<1> HIDE DEF f
<1> DEFINE g == [k \in 0 .. n |-> f[1 .. k]]
<1>7. g[0] = Unheard(r)
  <2>1. 1 .. 0 = {} /\ {} \in SUBSET (DOMAIN q)
    OBVIOUS
  <2>2. f[{}] = Unheard(r)
    BY <1>5, <2>1
  <2> HIDE DEF n
  <2> QED
    BY <1>1, <2>1, <2>2
<1>8. ASSUME NEW k \in 1 .. n
      PROVE  g[k] = RenderFrame(g[k - 1], controls, leased, frames, k - 1)
  <2> HIDE DEF n, Then, q
  <2>1. 1 .. k \in SUBSET (DOMAIN q) /\ k \in 1 .. k /\ (1 .. k) \ {k} = 1 .. k - 1
        /\ k - 1 \in 0 .. n /\ k \in 0 .. n
    BY <1>1
  <2>2. Max(1 .. k) = k
    <3>1. \A y \in 1 .. k : k >= y
      OBVIOUS
    <3>2. \A x \in 1 .. k : (\A y \in 1 .. k : x >= y) => x = k
      BY <1>1, <2>1
    <3> QED
      BY <2>1, <3>1, <3>2 DEF Max
  <2>3. f[1 .. k] = Then(f, 1 .. k)
    BY <1>5, <2>1
  <2>4. Then(f, 1 .. k) = RenderFrame(f[1 .. k - 1], controls, leased, frames, k - 1)
    BY <1>1, <2>1, <2>2 DEF Then
  <2> QED
    BY <2>1, <2>3, <2>4
<1>9. g[n] = f[DOMAIN q]
  BY <1>1
<1> HIDE DEF g
<1> QED
  BY <1>6, <1>7, <1>8, <1>9

OnlyPlay(controls) == \A i \in DOMAIN controls : controls[i].type \in PlayControls

(* What a control does to where and what is played, whatever is resident.  *)
ControlDoes(r, s, c) ==
  /\ Rolling(s) /\ s.at = r.at
  /\ s.looping => r.looping /\ s.from = r.from /\ s.to = r.to
  /\ c \in PlayControls => s.looping = r.looping /\ s.from = r.from /\ s.to = r.to

(* A control that enables no loop leaves the position and a running loop   *)
(* where they are, or ends the loop, and does not ask what is resident.    *)
LEMMA ControlKept ==
  ASSUME NEW r, Rolling(r), NEW c, IsControl(c, LoopControls), NEW offset, NEW leased
  PROVE  /\ ControlDoes(r, ControlAt(r, c, offset, leased), c.type)
         /\ \A other : ControlAt(r, c, offset, other) = ControlAt(r, c, offset, leased)
<1> SUFFICES ASSUME NEW other
             PROVE  /\ ControlDoes(r, ControlAt(r, c, offset, leased), c.type)
                    /\ ControlAt(r, c, offset, other) = ControlAt(r, c, offset, leased)
  OBVIOUS
<1> DEFINE s == ControlAt(r, c, offset, leased)
<1>1. r \in Renderers /\ c.frames \in Nat /\ c.type \in LoopControls
  BY DEF Rolling, IsControl
<1>2. CASE c.at # offset
  <2>1. s = r /\ ControlAt(r, c, offset, other) = r
    BY <1>2 DEF ControlAt
  <2> QED
    BY <2>1 DEF ControlDoes
<1>3. CASE c.at = offset /\ c.type \in {"play", "pause"}
  <2>1. PICK v \in BOOLEAN : s = [r EXCEPT !.playing = v] /\ ControlAt(r, c, offset, other) = s
    BY <1>3 DEF ControlAt, ApplyLoopControl
  <2>2. s \in Renderers
    BY <1>1, <2>1, OneChanged
  <2>3. /\ s.at = r.at /\ s.looping = r.looping /\ s.from = r.from /\ s.to = r.to
        /\ s.ramp = r.ramp /\ s.step = r.step /\ s.rate = r.rate /\ s.target = r.target
    BY <1>1, <2>1 DEF Renderers
  <2> HIDE DEF s
  <2> QED
    BY <2>1, <2>2, <2>3 DEF ControlDoes, Rolling, Ramping, s
<1>4. CASE c.at = offset /\ c.type \in {"rate", "ramp"}
  <2>1. s \in {SetRate(r, c.value), RampRate(r, c.value, c.frames)} /\ ControlAt(r, c, offset, other) = s
    BY <1>4 DEF ControlAt, ApplyLoopControl
  <2>2. Rolling(s) /\ s.at = r.at /\ s.looping = r.looping /\ s.from = r.from /\ s.to = r.to
    BY <1>1, <2>1, RateSet
  <2> HIDE DEF s
  <2> QED
    BY <2>1, <2>2 DEF ControlDoes, s
<1>5. CASE c.at = offset /\ c.type \in {"from", "to", "disable"}
  <2>1. /\ s \in {[r EXCEPT !.from = c.value, !.looping = FALSE], [r EXCEPT !.to = c.value, !.looping = FALSE],
                  [r EXCEPT !.looping = FALSE]}
        /\ ControlAt(r, c, offset, other) = s
        /\ c.type = "disable" => s = [r EXCEPT !.looping = FALSE]
    BY <1>5 DEF ControlAt, ApplyLoopControl
  <2>2. \E x \in Renderers : /\ s = [x EXCEPT !.looping = FALSE]
                             /\ x.at = r.at /\ x.ramp = r.ramp /\ x.step = r.step /\ x.rate = r.rate /\ x.target = r.target
    <3>1. CASE c.type = "disable"
      BY <1>1, <2>1, <3>1
    <3>2. CASE c.type # "disable"
      <4>1. c.value \in Nat
        BY <1>5, <3>2 DEF IsControl
      <4> DEFINE x == [r EXCEPT !.from = c.value]
                 y == [r EXCEPT !.to = c.value]
      <4>2. x \in Renderers /\ y \in Renderers
        BY <1>1, <4>1, OneChanged
      <4>3. \A z \in {r, x, y} : z.at = r.at /\ z.ramp = r.ramp /\ z.step = r.step /\ z.rate = r.rate /\ z.target = r.target
        BY <1>1 DEF Renderers
      <4>4. s \in {[x EXCEPT !.looping = FALSE], [y EXCEPT !.looping = FALSE], [r EXCEPT !.looping = FALSE]}
        BY <2>1
      <4> HIDE DEF x, y, s
      <4> QED
        BY <1>1, <4>2, <4>3, <4>4
    <3> QED
      BY <3>1, <3>2
  <2>3. PICK x \in Renderers : /\ s = [x EXCEPT !.looping = FALSE]
                               /\ x.at = r.at /\ x.ramp = r.ramp /\ x.step = r.step /\ x.rate = r.rate /\ x.target = r.target
    BY <2>2
  <2> HIDE DEF s
  <2>4. s \in Renderers
    BY <2>3, OneChanged
  <2>5. /\ s.looping = FALSE /\ s.at = r.at
        /\ s.ramp = r.ramp /\ s.step = r.step /\ s.rate = r.rate /\ s.target = r.target
    BY <2>3 DEF Renderers
  <2>6. c.type \notin PlayControls
    BY <1>5 DEF PlayControls
  <2> QED
    BY <2>1, <2>4, <2>5, <2>6 DEF ControlDoes, Rolling, Ramping, s
<1> QED
  BY <1>1, <1>2, <1>3, <1>4, <1>5 DEF LoopControls, PlayControls

(* So do all the controls due at a frame.                                  *)
LEMMA ControlsKept ==
  ASSUME NEW r, Rolling(r), NEW S, NEW controls \in Seq(S),
         \A i \in DOMAIN controls : IsControl(controls[i], LoopControls), NEW frames, NEW offset, NEW leased
  PROVE  LET s == Controlled(r, controls, frames, offset, leased) IN
         /\ Rolling(s) /\ s.at = r.at
         /\ s.looping => r.looping /\ s.from = r.from /\ s.to = r.to
         /\ OnlyPlay(controls) => s.looping = r.looping /\ s.from = r.from /\ s.to = r.to
         /\ \A other : Controlled(r, controls, frames, offset, other) = s
<1> SUFFICES ASSUME NEW other
             PROVE  LET s == Controlled(r, controls, frames, offset, leased) IN
                    /\ Rolling(s) /\ s.at = r.at
                    /\ s.looping => r.looping /\ s.from = r.from /\ s.to = r.to
                    /\ OnlyPlay(controls) => s.looping = r.looping /\ s.from = r.from /\ s.to = r.to
                    /\ Controlled(r, controls, frames, offset, other) = s
  OBVIOUS
<1> DEFINE n == Len(controls)
           s == Controlled(r, controls, frames, offset, leased)
<1>1. n \in Nat /\ DOMAIN controls = 1 .. n
  BY LenProperties
<1>2. CASE ~ InOrder(controls, frames)
  BY <1>2 DEF Controlled
<1>3. CASE InOrder(controls, frames)
  <2>1. PICK g : /\ g[0] = r
                 /\ \A k \in 1 .. n : g[k] = ControlAt(g[k - 1], controls[k], offset, leased)
                 /\ Controlled(r, controls, frames, offset, leased) = g[n]
    <3>1. PICK x : x = Controlled(r, controls, frames, offset, leased)
      OBVIOUS
    <3> QED
      BY <1>1, <1>3, <3>1, ControlsInTurn
  <2>2. PICK h : /\ h[0] = r
                 /\ \A k \in 1 .. n : h[k] = ControlAt(h[k - 1], controls[k], offset, other)
                 /\ Controlled(r, controls, frames, offset, other) = h[n]
    <3>1. PICK x : x = Controlled(r, controls, frames, offset, other)
      OBVIOUS
    <3> QED
      BY <1>1, <1>3, <3>1, ControlsInTurn
  <2> DEFINE Good(k) == /\ Rolling(g[k]) /\ g[k].at = r.at /\ g[k] = h[k]
                        /\ g[k].looping => r.looping /\ g[k].from = r.from /\ g[k].to = r.to
                        /\ OnlyPlay(controls) => g[k].looping = r.looping /\ g[k].from = r.from /\ g[k].to = r.to
             bad == {k \in 0 .. n : ~ Good(k)}
  <2>3. Good(0)
    BY <2>1, <2>2
  <2>4. ASSUME NEW k \in 1 .. n, Good(k - 1)
        PROVE  Good(k)
    <3> DEFINE a == g[k - 1]
               b == g[k]
               c == controls[k]
    <3>1. b = ControlAt(a, c, offset, leased) /\ h[k] = ControlAt(a, c, offset, other)
      BY <2>1, <2>2, <2>4
    <3>2. IsControl(c, LoopControls) /\ (OnlyPlay(controls) => c.type \in PlayControls)
      BY <1>1 DEF OnlyPlay
    <3>3. Rolling(a) /\ a.at = r.at
          /\ (a.looping => r.looping /\ a.from = r.from /\ a.to = r.to)
          /\ (OnlyPlay(controls) => a.looping = r.looping /\ a.from = r.from /\ a.to = r.to)
      BY <2>4
    <3> HIDE DEF a, b, c
    <3>4. ControlDoes(a, b, c.type) /\ b = h[k]
      BY <3>1, <3>2, <3>3, ControlKept
    <3>5. /\ Rolling(b) /\ b.at = r.at /\ b = h[k]
          /\ b.looping => r.looping /\ b.from = r.from /\ b.to = r.to
          /\ OnlyPlay(controls) => b.looping = r.looping /\ b.from = r.from /\ b.to = r.to
      BY <3>2, <3>3, <3>4 DEF ControlDoes
    <3> QED
      BY <3>5 DEF b
  <2>5. bad = {}
    <3> HIDE DEF Good, n
    <3>1. SUFFICES ASSUME bad # {} PROVE FALSE
      OBVIOUS
    <3>2. bad \subseteq Nat
      BY <1>1
    <3> HIDE DEF bad
    <3>3. PICK m \in bad : \A k \in bad : m <= k
      BY <3>1, <3>2, SmallestNumber
    <3> USE DEF bad
    <3>4. m # 0 /\ m \in 1 .. n /\ m - 1 \in 0 .. n /\ m - 1 \notin bad
      BY <1>1, <2>3, <3>3
    <3>5. Good(m - 1)
      BY <3>4
    <3> QED
      BY <2>4, <3>3, <3>4, <3>5
  <2>6. Good(n)
    BY <1>1, <2>5
  <2> QED
    BY <2>1, <2>2, <2>6
<1> QED
  BY <1>2, <1>3

(* A frame has ticks.                                                      *)
LEMMA TicksPositive == Ticks \in Nat \ {0}
BY LoopAssumption

(* The frame of a position lies where the position does.                   *)
LEMMA FrameBetween ==
  ASSUME NEW at \in Nat, NEW k \in Nat
  PROVE  /\ FrameAt(at) \in Nat
         /\ k * Ticks \in Nat
         /\ k * Ticks <= at <=> k <= FrameAt(at)
<1>1. Ticks \in Nat \ {0}
  BY TicksPositive
<1> DEFINE q == at \div Ticks
<1>2. q \in Int /\ Ticks * q <= at /\ at < Ticks * q + Ticks /\ k * Ticks = Ticks * k /\ k * Ticks \in Nat
  BY <1>1, Quotient
<1>3. k <= q => Ticks * k <= Ticks * q
  <2>1. k < q => Ticks * k + Ticks <= Ticks * q
    BY <1>1, <1>2, Multiples
  <2> QED
    BY <1>1, <1>2, <2>1
<1>4. q < k => Ticks * q + Ticks <= Ticks * k
  BY <1>1, <1>2, Multiples
<1>5. q >= 0
  <2>1. q < 0 => Ticks * q + Ticks <= Ticks * 0
    BY <1>1, <1>2, Multiples
  <2> QED
    BY <1>1, <1>2, <2>1
<1> HIDE DEF q
<1>6. FrameAt(at) = q
  BY DEF FrameAt, q
<1> QED
  BY <1>1, <1>2, <1>3, <1>4, <1>5, <1>6

(* Wrapping brings a position behind the loop's end back into the loop,    *)
(* never below its start nor further back than it was.                     *)
LEMMA Wrapped ==
  ASSUME NEW r, Rolling(r)
  PROVE  LET w == WrapLoop(r) IN
         /\ Rolling(w) /\ w.playing = r.playing /\ w.looping = r.looping /\ w.from = r.from /\ w.to = r.to
         /\ w.looping => w.at < w.to * Ticks
         /\ \A b \in Nat : b <= r.at /\ (r.looping => b <= r.from * Ticks) => b <= w.at
<1> DEFINE w == WrapLoop(r)
           T == Ticks
           a == r.from * Ticks
           e == r.to * Ticks
           P == (r.to - r.from) * Ticks
<1>1. r \in Renderers /\ Ticks \in Nat \ {0}
  BY TicksPositive DEF Rolling
<1>2. CASE ~ r.looping \/ r.at < r.to * Ticks
  <2>1. w = r
    BY <1>2 DEF WrapLoop
  <2> HIDE DEF w
  <2> QED
    BY <1>1, <1>2, <2>1 DEF w, Renderers
<1>3. CASE r.looping /\ ~ (r.at < r.to * Ticks)
  <2>1. r.from \in Nat /\ r.to \in Nat /\ r.from < r.to /\ r.at \in Nat
    BY <1>1, <1>3 DEF Rolling, Renderers
  <2>2. a \in Nat /\ e \in Nat /\ P \in Nat \ {0} /\ e = a + P
    <3>1. a = Ticks * r.from /\ e = Ticks * r.to /\ Ticks * r.from + Ticks <= Ticks * r.to
      BY <1>1, <2>1, Multiples
    <3>2. P = e - a /\ a \in Nat /\ e \in Nat
      BY <1>1, <2>1
    <3> HIDE DEF a, e, P
    <3> QED
      BY <1>1, <2>1, <3>1, <3>2
  <2>3. w = [r EXCEPT !.at = a + ((r.at - a) % P)]
    BY <1>3 DEF WrapLoop
  <2> HIDE DEF a, e, P, w
  <2>4. (r.at - a) % P \in 0 .. P - 1
    BY <2>1, <2>2
  <2> DEFINE x == (r.at - a) % P
  <2> HIDE DEF x
  <2>5. x \in 0 .. P - 1 /\ w = [r EXCEPT !.at = a + x] /\ a + x \in Nat
    BY <2>2, <2>3, <2>4 DEF x
  <2>6. w \in Renderers
    BY <1>1, <2>5, OneChanged
  <2>7. /\ w.at = a + x /\ w.playing = r.playing /\ w.looping = r.looping /\ w.from = r.from /\ w.to = r.to
        /\ w.ramp = r.ramp /\ w.step = r.step /\ w.rate = r.rate /\ w.target = r.target
    BY <1>1, <2>5 DEF Renderers
  <2>8. Rolling(w)
    BY <2>6, <2>7 DEF Rolling, Ramping
  <2>9. w.at < e /\ \A b \in Nat : b <= a => b <= w.at
    BY <2>2, <2>5, <2>7
  <2> QED
    BY <1>3, <2>7, <2>8, <2>9 DEF w, a, e
<1> QED
  BY <1>2, <1>3

(* A renderer inside its loop, all of which can be read.                   *)
InsideLoop(r, leased) ==
  /\ Rolling(r) /\ r.looping /\ r.from * Ticks <= r.at /\ RangeResident(r.from, r.to, leased)

(* What may be heard of a loop.                                            *)
HeardIn(x, r) == x \in {"paused"} \cup (r.from .. r.to - 1)

(* Inside a loop no frame is missing: the second frame to be read is the   *)
(* loop's first when the position is in the last.                          *)
LEMMA LoopCanSample ==
  ASSUME NEW r, NEW leased, InsideLoop(r, leased), r.at < r.to * Ticks
  PROVE  CanSample(r, leased) /\ FrameAt(r.at) \in r.from .. r.to - 1
<1>1. r.from \in Nat /\ r.to \in Nat /\ r.at \in Nat /\ r.from < r.to
  BY DEF InsideLoop, Rolling, Renderers
<1>2. FrameAt(r.at) \in Nat /\ r.from <= FrameAt(r.at)
  BY <1>1, FrameBetween DEF InsideLoop
<1>3. ~ (r.to <= FrameAt(r.at))
  <2>1. r.to * Ticks \in Nat /\ (r.to * Ticks <= r.at <=> r.to <= FrameAt(r.at))
    BY <1>1, FrameBetween
  <2> QED
    BY <1>1, <2>1
<1> DEFINE first == FrameAt(r.at)
           second == IF r.looping /\ first + 1 >= r.to THEN r.from ELSE first + 1
<1>4. first \in r.from .. r.to - 1
  BY <1>1, <1>2, <1>3
<1> HIDE DEF first
<1>5. second \in r.from .. r.to - 1
  BY <1>1, <1>4 DEF InsideLoop
<1>6. first \in leased.frames /\ second \in leased.frames
  BY <1>4, <1>5 DEF InsideLoop, RangeResident
<1> QED
  BY <1>4, <1>6 DEF CanSample, first

(* The loop goes on from t to u, one frame later.                          *)
PlaysOneMore(t, u, leased) ==
  /\ InsideLoop(u.r, leased) /\ u.r.from = t.r.from /\ u.r.to = t.r.to
  /\ \E x : u.heard = Append(t.heard, x) /\ HeardIn(x, t.r)

(* A frame of a block that is rendered inside a loop.                      *)
LEMMA FrameInLoop ==
  ASSUME NEW t, NEW leased, InsideLoop(t.r, leased), NEW S, NEW controls \in Seq(S),
         \A i \in DOMAIN controls : IsControl(controls[i], LoopControls), OnlyPlay(controls), NEW frames, NEW offset
  PROVE  PlaysOneMore(t, RenderFrame(t, controls, leased, frames, offset), leased)
<1> DEFINE c == Controlled(t.r, controls, frames, offset, leased)
           r == WrapLoop(c)
           m == NextRate(r)
           n == [m EXCEPT !.at = @ + m.rate]
           u == RenderFrame(t, controls, leased, frames, offset)
           b == t.r.from * Ticks
<1>1. Rolling(t.r) /\ t.r.looping /\ t.r.from \in Nat /\ t.r.to \in Nat /\ b \in Nat /\ b <= t.r.at
  <2>1. t.r.from \in Nat /\ t.r.to \in Nat /\ t.r.at \in Nat
    BY DEF InsideLoop, Rolling, Renderers
  <2> QED
    BY <2>1, FrameBetween DEF InsideLoop
<1>2. Rolling(c) /\ c.at = t.r.at /\ c.looping /\ c.from = t.r.from /\ c.to = t.r.to
  <2>1. PICK x : x = c
    OBVIOUS
  <2> QED
    BY <1>1, <2>1, ControlsKept
<1> HIDE DEF c
<1>3. /\ Rolling(r) /\ r.looping /\ r.from = t.r.from /\ r.to = t.r.to
      /\ r.at < r.to * Ticks /\ b <= r.at
  <2>1. b \in Nat /\ b <= c.at /\ b <= c.from * Ticks
    BY <1>1, <1>2
  <2> HIDE DEF b
  <2> QED
    BY <1>1, <1>2, <2>1, Wrapped
<1> HIDE DEF r
<1>4. InsideLoop(r, leased) /\ CanSample(r, leased) /\ FrameAt(r.at) \in t.r.from .. t.r.to - 1
  <2>1. InsideLoop(r, leased)
    BY <1>3 DEF InsideLoop
  <2> QED
    BY <1>3, <2>1, LoopCanSample
<1>5. /\ Rolling(m) /\ m.at = r.at /\ m.looping /\ m.from = r.from /\ m.to = r.to
  BY <1>3, RateStaysPositive
<1> HIDE DEF m
<1>6. Rolling(n) /\ n.looping /\ n.from = r.from /\ n.to = r.to /\ b <= n.at
  <2>1. m \in Renderers /\ m.at \in Nat /\ m.rate \in Nat
    BY <1>5 DEF Rolling, Renderers
  <2>2. n = [m EXCEPT !.at = m.at + m.rate] /\ m.at + m.rate \in Nat
    BY <2>1
  <2>3. n \in Renderers
    BY <2>1, <2>2, OneChanged
  <2>4. /\ n.at = m.at + m.rate /\ n.looping = m.looping /\ n.from = m.from /\ n.to = m.to
        /\ n.ramp = m.ramp /\ n.step = m.step /\ n.rate = m.rate /\ n.target = m.target
    BY <2>1, <2>2 DEF Renderers
  <2> HIDE DEF n
  <2> QED
    BY <1>1, <1>3, <1>5, <2>1, <2>3, <2>4 DEF Rolling, Ramping
<1> HIDE DEF n
<1> DEFINE w == WrapLoop(n)
<1>7. Rolling(w) /\ w.looping /\ w.from = t.r.from /\ w.to = t.r.to /\ b <= w.at
  BY <1>1, <1>3, <1>6, Wrapped
<1> HIDE DEF w
<1>8. InsideLoop(w, leased)
  BY <1>7 DEF InsideLoop
<1>9. CASE ~ r.playing
  <2>1. u = [r |-> r, heard |-> Append(t.heard, "paused")]
    BY <1>9 DEF RenderFrame, r, c
  <2> QED
    BY <1>3, <1>4, <2>1 DEF HeardIn, PlaysOneMore
<1>10. CASE r.playing
  <2>1. u = [r |-> w, heard |-> Append(t.heard, FrameAt(r.at))]
    BY <1>4, <1>10 DEF RenderFrame, w, n, m, r, c
  <2> QED
    BY <1>4, <1>7, <1>8, <2>1 DEF HeardIn, PlaysOneMore
<1>11. r.playing \in BOOLEAN
  BY <1>3 DEF Rolling, Renderers
<1> QED
  BY <1>9, <1>10, <1>11

(* An enabled loop plays for ever, for any loop that can be read, any      *)
(* position in it, any rate, ramp and size of the block: no frame is       *)
(* missing or outside of the loop, and the next block begins inside.       *)
THEOREM LoopPlaysOn ==
  ASSUME NEW r, NEW leased, InsideLoop(r, leased), NEW S, NEW controls \in Seq(S),
         \A i \in DOMAIN controls : IsControl(controls[i], LoopControls), OnlyPlay(controls), NEW frames \in Nat
  PROVE  LET played == RenderLoop(r, controls, leased, frames)
         IN /\ InsideLoop(played.r, leased) /\ played.r.from = r.from /\ played.r.to = r.to
            /\ Len(played.heard) = frames
            /\ \A i \in 1 .. frames : HeardIn(played.heard[i], r)
<1>1. PICK g : /\ g[0] = Unheard(r)
               /\ \A k \in 1 .. frames : g[k] = RenderFrame(g[k - 1], controls, leased, frames, k - 1)
               /\ RenderLoop(r, controls, leased, frames) = g[frames]
  BY FramesInTurn
<1> DEFINE Heard == {"paused"} \cup (r.from .. r.to - 1)
           Good(k) == /\ InsideLoop(g[k].r, leased) /\ g[k].r.from = r.from /\ g[k].r.to = r.to
                      /\ g[k].heard \in Seq(Heard) /\ Len(g[k].heard) = k
           bad == {k \in 0 .. frames : ~ Good(k)}
<1>2. Good(0)
  <2>1. <<>> \in Seq(Heard) /\ Len(<<>>) = 0
    OBVIOUS
  <2> QED
    BY <1>1, <2>1 DEF Unheard
<1>3. ASSUME NEW k \in 1 .. frames, Good(k - 1)
      PROVE  Good(k)
  <2> DEFINE t == g[k - 1]
             u == g[k]
  <2>1. u = RenderFrame(t, controls, leased, frames, k - 1)
    BY <1>1
  <2>2. InsideLoop(t.r, leased) /\ t.r.from = r.from /\ t.r.to = r.to /\ t.heard \in Seq(Heard) /\ Len(t.heard) = k - 1
    BY <1>3
  <2> HIDE DEF t, u
  <2>3. PICK x : /\ InsideLoop(u.r, leased) /\ u.r.from = t.r.from /\ u.r.to = t.r.to
                 /\ u.heard = Append(t.heard, x) /\ HeardIn(x, t.r)
    <3>1. InsideLoop(t.r, leased)
      BY <2>2
    <3> QED
      <4>1. PlaysOneMore(t, u, leased)
        BY <2>1, <3>1, FrameInLoop
      <4> QED
        BY <4>1 DEF PlaysOneMore
  <2>4. x \in Heard
    BY <2>2, <2>3 DEF HeardIn
  <2> HIDE DEF Heard
  <2>5. u.heard \in Seq(Heard) /\ Len(u.heard) = Len(t.heard) + 1
    BY <2>2, <2>3, <2>4, AppendProperties
  <2>6. InsideLoop(u.r, leased) /\ u.r.from = r.from /\ u.r.to = r.to /\ u.heard \in Seq(Heard) /\ Len(u.heard) = k
    BY <2>2, <2>3, <2>5
  <2> QED
    BY <2>6 DEF u
<1>4. Good(frames)
  <2> HIDE DEF Good
  <2>1. SUFFICES ASSUME bad # {} PROVE FALSE
    OBVIOUS
  <2>2. bad \subseteq Nat
    OBVIOUS
  <2> HIDE DEF bad
  <2>3. PICK m \in bad : \A k \in bad : m <= k
    BY <2>1, <2>2, SmallestNumber
  <2> USE DEF bad
  <2>4. m # 0 /\ m \in 1 .. frames /\ m - 1 \in 0 .. frames /\ m - 1 \notin bad
    BY <1>2, <2>3
  <2>5. Good(m - 1)
    BY <2>4
  <2> QED
    BY <1>3, <2>3, <2>4, <2>5
<1> DEFINE h == g[frames].heard
<1>5. h \in Seq(Heard) /\ Len(h) = frames
  BY <1>4
<1>6. \A i \in 1 .. frames : h[i] \in Heard
  <2> HIDE DEF h, Heard
  <2> QED
    BY <1>5, ElementOfSeq
<1> QED
  BY <1>1, <1>4, <1>5, <1>6 DEF HeardIn

(* What is left of the chunks when those below a frame are released.       *)
KeptFrom(leased, k) == [leased EXCEPT !.frames = {f \in leased.frames : f >= k}]
AtOrAbove(r, k) == Rolling(r) /\ k * Ticks <= r.at /\ (r.looping => k <= r.from)

(* A frame at or above the released ones is rendered as before, and so is  *)
(* what follows: neither it nor a running loop goes further back.          *)
LEMMA FrameFromKept ==
  ASSUME NEW k \in Nat, NEW t, AtOrAbove(t.r, k), NEW leased, {"frames", "end"} \subseteq DOMAIN leased,
         leased.frames \subseteq Nat, NEW S, NEW controls \in Seq(S),
         \A i \in DOMAIN controls : IsControl(controls[i], LoopControls), NEW frames, NEW offset
  PROVE  LET u == RenderFrame(t, controls, leased, frames, offset) IN
         /\ RenderFrame(t, controls, KeptFrom(leased, k), frames, offset) = u
         /\ AtOrAbove(u.r, k)
<1> DEFINE kept == KeptFrom(leased, k)
           c == Controlled(t.r, controls, frames, offset, leased)
           r == WrapLoop(c)
           m == NextRate(r)
           n == [m EXCEPT !.at = @ + m.rate]
           b == k * Ticks
<1>1. Rolling(t.r) /\ b \in Nat /\ b <= t.r.at /\ (t.r.looping => k <= t.r.from)
  BY TicksPositive DEF AtOrAbove
<1>2. /\ Rolling(c) /\ c.at = t.r.at /\ (c.looping => t.r.looping /\ c.from = t.r.from)
      /\ Controlled(t.r, controls, frames, offset, kept) = c
  BY <1>1, ControlsKept
<1> HIDE DEF c
<1>3. ASSUME NEW x, Rolling(x), b <= x.at, x.looping => k <= x.from
      PROVE  LET w == WrapLoop(x) IN Rolling(w) /\ b <= w.at /\ (w.looping => k <= w.from)
  <2>1. x.from \in Nat
    BY <1>3 DEF Rolling, Renderers
  <2>2. k <= x.from => b <= x.from * Ticks
    <3>1. k < x.from => Ticks * k + Ticks <= Ticks * x.from
      BY <2>1, TicksPositive, Multiples
    <3>2. Ticks \in Nat /\ b = Ticks * k /\ x.from * Ticks = Ticks * x.from /\ x.from * Ticks \in Nat
      BY <2>1, TicksPositive
    <3>3. k = x.from => b = x.from * Ticks
      OBVIOUS
    <3> DEFINE y == x.from * Ticks
    <3> HIDE DEF b, y
    <3> QED
      BY <2>1, <1>1, <3>1, <3>2, <3>3 DEF y
  <2> QED
    BY <1>1, <1>3, <2>2, Wrapped
<1>4. Rolling(r) /\ b <= r.at /\ (r.looping => k <= r.from)
  BY <1>1, <1>2, <1>3
<1> HIDE DEF r
<1>5. CanSample(r, kept) = CanSample(r, leased)
  <2> DEFINE first == FrameAt(r.at)
             second == IF r.looping /\ first + 1 >= r.to THEN r.from ELSE first + 1
  <2>1. r.at \in Nat /\ r.from \in Nat
    BY <1>4 DEF Rolling, Renderers
  <2>2. first \in Nat /\ k <= first
    BY <1>4, <2>1, FrameBetween
  <2> HIDE DEF first
  <2>3. second \in Nat /\ k <= second
    BY <1>4, <2>1, <2>2
  <2>4. kept.frames = {f \in leased.frames : f >= k} /\ kept.end = leased.end
    BY DEF KeptFrom
  <2> HIDE DEF kept, second
  <2>5. (first \in kept.frames <=> first \in leased.frames) /\ (second \in kept.frames <=> second \in leased.frames)
    BY <2>2, <2>3, <2>4
  <2> QED
    BY <2>4, <2>5 DEF CanSample, first, second
<1>6. Rolling(m) /\ m.at = r.at /\ m.looping = r.looping /\ m.from = r.from
  BY <1>4, RateStaysPositive
<1> HIDE DEF m
<1>7. Rolling(n) /\ b <= n.at /\ (n.looping => k <= n.from)
  <2>1. m \in Renderers /\ m.at \in Nat /\ m.rate \in Nat
    BY <1>6 DEF Rolling, Renderers
  <2>2. n = [m EXCEPT !.at = m.at + m.rate] /\ m.at + m.rate \in Nat
    BY <2>1
  <2>3. n \in Renderers
    BY <2>1, <2>2, OneChanged
  <2>4. /\ n.at = m.at + m.rate /\ n.looping = m.looping /\ n.from = m.from /\ n.to = m.to
        /\ n.ramp = m.ramp /\ n.step = m.step /\ n.rate = m.rate /\ n.target = m.target
    BY <2>1, <2>2 DEF Renderers
  <2> HIDE DEF n
  <2> QED
    BY <1>1, <1>4, <1>6, <2>1, <2>3, <2>4 DEF Rolling, Ramping
<1> HIDE DEF n
<1> DEFINE w == WrapLoop(n)
<1>8. Rolling(w) /\ b <= w.at /\ (w.looping => k <= w.from)
  BY <1>3, <1>7
<1> HIDE DEF w
<1>9. kept.end = leased.end
  BY DEF KeptFrom
<1> HIDE DEF kept
<1> DEFINE Rendered(can) ==
             CASE ~ r.playing -> [r |-> r, heard |-> Append(t.heard, "paused")]
               [] r.playing /\ can -> [r |-> w, heard |-> Append(t.heard, FrameAt(r.at))]
               [] r.playing /\ ~ can ->
                    [r |-> r, heard |-> Append(t.heard, IF r.at >= leased.end * Ticks THEN "end" ELSE "underrun")]
<1>10. RenderFrame(t, controls, leased, frames, offset) = Rendered(CanSample(r, leased))
  BY DEF RenderFrame, w, n, m, r, c
<1>11. RenderFrame(t, controls, kept, frames, offset) = Rendered(CanSample(r, kept))
  BY <1>2, <1>9 DEF RenderFrame, w, n, m, r
<1>12. r.playing \in BOOLEAN /\ CanSample(r, leased) \in BOOLEAN
  BY <1>4 DEF Rolling, Renderers, CanSample
<1>13. Rendered(CanSample(r, leased)).r \in {r, w}
  BY <1>12
<1> DEFINE v == Rendered(CanSample(r, leased))
<1>14. v.r \in {r, w}
  BY <1>13
<1> HIDE DEF v
<1>15. AtOrAbove(v.r, k)
  BY <1>4, <1>8, <1>14 DEF AtOrAbove
<1> QED
  BY <1>5, <1>10, <1>11, <1>15 DEF v, kept

(* What lies below the retention floor is never needed again: for any loop *)
(* or none, any block and any controls but the start of a new loop, what   *)
(* is heard and where the renderer ends are the same without it.           *)
THEOREM FloorSuffices ==
  ASSUME NEW r, Rolling(r), NEW leased, {"frames", "end"} \subseteq DOMAIN leased, leased.frames \subseteq Nat,
         NEW S, NEW controls \in Seq(S), \A i \in DOMAIN controls : IsControl(controls[i], LoopControls),
         NEW frames \in Nat
  PROVE  RenderLoop(r, controls, KeptFrom(leased, FrameAt(RetentionFloor(r))), frames)
           = RenderLoop(r, controls, leased, frames)
<1> DEFINE k == FrameAt(RetentionFloor(r))
           kept == KeptFrom(leased, k)
<1>1. r.at \in Nat /\ r.from \in Nat
  BY DEF Rolling, Renderers
<1>2. k \in Nat /\ AtOrAbove(r, k)
  <2> DEFINE a == r.from * Ticks
             p == RetentionFloor(r)
  <2>1. a \in Nat
    BY <1>1, TicksPositive
  <2>2. p \in Nat /\ p <= r.at /\ (r.looping => p <= a)
    <3>1. CASE ~ r.looping
      BY <1>1, <3>1 DEF RetentionFloor
    <3>2. CASE r.looping
      <4>1. p = Min({r.at, a})
        BY <3>2 DEF RetentionFloor
      <4> HIDE DEF a, p
      <4>2. Min({r.at, a}) = IF r.at <= a THEN r.at ELSE a
        <5>1. a \in Int /\ r.at \in Int
          BY <1>1, <2>1 DEF a
        <5>2. r.at >= a <=> ~ (r.at < a)
          BY <5>1
        <5> QED
          BY <5>1, OfTwo
      <4> QED
        BY <1>1, <2>1, <4>1, <4>2
    <3> QED
      BY <3>1, <3>2
  <2>3. k \in Nat /\ k * Ticks \in Nat /\ k * Ticks <= p
    <3>1. FrameAt(p) \in Nat
      BY <2>2, FrameBetween
    <3>2. FrameAt(p) <= FrameAt(p)
      BY <3>1
    <3> HIDE DEF p
    <3>3. FrameAt(p) * Ticks \in Nat /\ FrameAt(p) * Ticks <= p
      BY <2>2, <3>1, <3>2, FrameBetween
    <3> QED
      BY <3>1, <3>3 DEF p
  <2>4. k * Ticks <= a <=> k <= FrameAt(a)
    BY <2>1, <2>3, FrameBetween
  <2>5. FrameAt(a) \in Nat /\ ~ (r.from + 1 <= FrameAt(a))
    <3>1. FrameAt(a) \in Nat /\ ((r.from + 1) * Ticks <= a <=> r.from + 1 <= FrameAt(a))
      <4>1. r.from + 1 \in Nat
        BY <1>1
      <4> QED
        BY <2>1, <4>1, FrameBetween
    <3>2. Ticks * r.from + Ticks <= Ticks * (r.from + 1)
      BY <1>1, TicksPositive, Multiples
    <3>3. Ticks \in Nat \ {0} /\ a = Ticks * r.from /\ (r.from + 1) * Ticks = Ticks * (r.from + 1)
          /\ (r.from + 1) * Ticks \in Nat
      BY <1>1, TicksPositive
    <3> DEFINE y == (r.from + 1) * Ticks
    <3> HIDE DEF a, y
    <3> QED
      BY <2>1, <3>1, <3>2, <3>3 DEF y
  <2> HIDE DEF a, p, k
  <2>6. r.looping => k <= r.from
    BY <1>1, <2>1, <2>2, <2>3, <2>4, <2>5
  <2>7. k * Ticks <= r.at
    BY <1>1, <2>2, <2>3
  <2> QED
    BY <2>3, <2>6, <2>7 DEF AtOrAbove
<1> HIDE DEF k
<1>3. PICK g : /\ g[0] = Unheard(r)
               /\ \A i \in 1 .. frames : g[i] = RenderFrame(g[i - 1], controls, leased, frames, i - 1)
               /\ RenderLoop(r, controls, leased, frames) = g[frames]
  BY FramesInTurn
<1>4. PICK h : /\ h[0] = Unheard(r)
               /\ \A i \in 1 .. frames : h[i] = RenderFrame(h[i - 1], controls, kept, frames, i - 1)
               /\ RenderLoop(r, controls, kept, frames) = h[frames]
  BY FramesInTurn
<1> DEFINE Good(i) == g[i] = h[i] /\ AtOrAbove(g[i].r, k)
           bad == {i \in 0 .. frames : ~ Good(i)}
<1>5. Good(0)
  BY <1>2, <1>3, <1>4 DEF Unheard
<1>6. ASSUME NEW i \in 1 .. frames, Good(i - 1)
      PROVE  Good(i)
  <2> DEFINE t == g[i - 1]
  <2>1. /\ g[i] = RenderFrame(t, controls, leased, frames, i - 1)
        /\ h[i] = RenderFrame(t, controls, kept, frames, i - 1)
        /\ AtOrAbove(t.r, k)
    BY <1>3, <1>4, <1>6
  <2> HIDE DEF t
  <2> QED
    BY <1>2, <2>1, FrameFromKept
<1>7. Good(frames)
  <2> HIDE DEF Good
  <2>1. SUFFICES ASSUME bad # {} PROVE FALSE
    OBVIOUS
  <2>2. bad \subseteq Nat
    OBVIOUS
  <2> HIDE DEF bad
  <2>3. PICK m \in bad : \A i \in bad : m <= i
    BY <2>1, <2>2, SmallestNumber
  <2> USE DEF bad
  <2>4. m # 0 /\ m \in 1 .. frames /\ m - 1 \in 0 .. frames /\ m - 1 \notin bad
    BY <1>5, <2>3
  <2>5. Good(m - 1)
    BY <2>4
  <2> QED
    BY <1>6, <2>3, <2>4, <2>5
<1> QED
  BY <1>3, <1>4, <1>7 DEF k

-----------------------------------------------------------------------------
(* The envelope of a note                                                  *)

StepOrder(frames) == [i \in 1 .. frames |-> i]
HeardStep(t, p) == [heard |-> Append(t.heard, t.envelope.level), envelope |-> Stepped(t.envelope, p)]

(* What a patch can be, and an envelope under it.                          *)
AllPatches == [attack : Nat, decay : Nat, release : Nat, sustain : Nat, peak : Nat]
Stages == {"Idle", "Attack", "Decay", "Sustain", "Release"}
Envelopes(p) == [stage : Stages, level : 0 .. p.peak, start : 0 .. p.peak, target : 0 .. p.peak,
                 frame : Nat, frames : Nat]

(* How far a note is after k frames in which it was held, and after k      *)
(* frames since it was released.                                           *)
HeldFor(e, p, k) ==
  /\ e \in Envelopes(p) /\ e.stage \in {"Attack", "Decay", "Sustain"}
  /\ e.stage = "Attack" => e.frame = k /\ e.frames = p.attack /\ k < p.attack
  /\ e.stage = "Decay" => e.frame + p.attack = k /\ e.frames = p.decay /\ e.frame < p.decay
  /\ e.stage = "Sustain" => e.level = p.sustain
ReleasedFor(e, p, k) ==
  /\ e \in Envelopes(p)
  /\ k < p.release => e.stage = "Release" /\ e.frame = k /\ e.frames = p.release
  /\ k >= p.release => e = Finished

SilentFor(e, p, k) == k \in Nat /\ e = Finished /\ e \in Envelopes(p)

(* A ramp stays between its ends.                                          *)
LEMMA RampBetween ==
  ASSUME NEW peak \in Nat, NEW start \in 0 .. peak, NEW target \in 0 .. peak,
         NEW frames \in Nat \ {0}, NEW frame \in 0 .. frames
  PROVE  start + (((target - start) * frame) \div frames) \in 0 .. peak
<1> DEFINE d == target - start
           x == d * frame
           q == x \div frames
<1>1. d \in Int /\ x \in Int
  OBVIOUS
<1>2. q \in Int /\ frames * q <= x /\ x < frames * q + frames
  BY <1>1, Quotient
<1>3. CASE d >= 0
  <2>1. 0 <= x /\ x <= frames * d
    <3>1. d \in Nat
      BY <1>1, <1>3
    <3> HIDE DEF d
    <3>2. 0 <= d * frame
      BY <3>1
    <3>3. \E m \in Nat : frames = frame + m
      <4>1. frames - frame \in Nat /\ frames = frame + (frames - frame)
        OBVIOUS
      <4> QED
        BY <4>1
    <3>4. PICK m \in Nat : frames = frame + m
      BY <3>3
    <3> DEFINE a == d * frame
               b == d * m
               f == frames * d
    <3>5. f = a + b /\ b >= 0 /\ a \in Int /\ b \in Int /\ f \in Int
      BY <3>1, <3>4
    <3> HIDE DEF a, b, f
    <3>6. 0 <= a /\ a <= f
      BY <3>2, <3>5 DEF a
    <3> QED
      BY <3>6 DEF a, f
  <2> HIDE DEF x, d, q
  <2>2. ~ (d < q)
    <3>1. d < q => frames * d + frames <= frames * q
      BY <1>1, <1>2, Multiples
    <3> QED
      BY <1>1, <1>2, <2>1, <3>1
  <2>3. ~ (q < 0)
    <3>1. q < 0 => frames * q + frames <= frames * 0
      BY <1>2, Multiples
    <3> QED
      BY <1>1, <1>2, <2>1, <3>1
  <2>4. q \in 0 .. d
    BY <1>1, <1>2, <2>2, <2>3
  <2> QED
    BY <1>3, <2>4 DEF d, q, x
<1>4. CASE d < 0
  <2>1. frames * d <= x /\ x <= 0
    <3> DEFINE c == -d
    <3>1. c \in Nat /\ d = -c
      BY <1>1, <1>4
    <3> HIDE DEF c, d
    <3>2. 0 <= c * frame /\ d * frame = -(c * frame) /\ frames * d = -(frames * c)
      BY <3>1
    <3>3. \E m \in Nat : frames = frame + m
      <4>1. frames - frame \in Nat /\ frames = frame + (frames - frame)
        OBVIOUS
      <4> QED
        BY <4>1
    <3>4. PICK m \in Nat : frames = frame + m
      BY <3>3
    <3> DEFINE a == c * frame
               b == c * m
               f == frames * c
    <3>5. f = a + b /\ b >= 0 /\ a \in Int /\ b \in Int /\ f \in Int
      BY <3>1, <3>4
    <3>6. d * frame = -a /\ frames * d = -f /\ 0 <= a
      BY <3>2
    <3> DEFINE y == d * frame
               z == frames * d
    <3> HIDE DEF a, b, f, y, z
    <3>7. y = -a /\ z = -f
      BY <3>6 DEF y, z
    <3>8. z <= y /\ y <= 0
      BY <3>5, <3>6, <3>7
    <3> QED
      BY <3>8 DEF y, z
  <2> HIDE DEF x, d, q
  <2>2. ~ (q < d)
    <3>1. q < d => frames * q + frames <= frames * d
      BY <1>1, <1>2, Multiples
    <3> QED
      BY <1>1, <1>2, <2>1, <3>1
  <2>3. ~ (0 < q)
    <3>1. 0 < q => frames * 0 + frames <= frames * q
      BY <1>2, Multiples
    <3> QED
      BY <1>1, <1>2, <2>1, <3>1
  <2>4. q \in d .. 0
    BY <1>1, <1>2, <2>2, <2>3
  <2> QED
    BY <1>4, <2>4 DEF d, q, x
<1> QED
  BY <1>1, <1>3, <1>4

(* A note is heard frame after frame.                                      *)
LEMMA StepsInTurn ==
  ASSUME NEW e, NEW p, NEW frames \in Nat
  PROVE  \E g : /\ g[0] = [heard |-> <<>>, envelope |-> e]
                /\ \A k \in 1 .. frames : g[k] = HeardStep(g[k - 1], p)
                /\ PlayNote(e, p, frames) = g[frames]
<1> DEFINE q == StepOrder(frames)
           n == frames
           Then(f, s) == IF s = {} THEN [heard |-> <<>>, envelope |-> e]
                         ELSE HeardStep(f[s \ {Max(s)}], p)
           Folds(D, f) == f = [s \in SUBSET D |-> Then(f, s)]
           bad == {m \in Nat : ~ \E f : Folds(1 .. m, f)}
<1>1. n \in Nat /\ DOMAIN q = 1 .. n /\ \A k \in 1 .. n : q[k] = k
  BY DEF StepOrder
<1>2. \E f : Folds(1 .. 0, f)
  <2> DEFINE f == [s \in SUBSET (1 .. 0) |-> [heard |-> <<>>, envelope |-> e]]
  <2>1. \A s \in SUBSET (1 .. 0) : Then(f, s) = [heard |-> <<>>, envelope |-> e]
    OBVIOUS
  <2>2. Folds(1 .. 0, f)
    BY <2>1
  <2> QED
    BY <2>2
<1>3. ASSUME NEW m \in Nat, NEW f, Folds(1 .. m, f)
      PROVE  \E h : Folds(1 .. m + 1, h)
  <2> DEFINE h == [s \in SUBSET (1 .. m + 1) |->
                     IF m + 1 \in s THEN HeardStep(f[s \ {m + 1}], p) ELSE f[s]]
  <2> HIDE DEF q
  <2>1. ASSUME NEW s \in SUBSET (1 .. m + 1)
        PROVE  h[s] = Then(h, s)
    <3>1. CASE m + 1 \in s
      <4>1. Max(s) = m + 1
        <5>1. \A y \in s : m + 1 >= y
          OBVIOUS
        <5>2. \A x \in s : (\A y \in s : x >= y) => x = m + 1
          BY <3>1, <5>1
        <5> QED
          BY <3>1, <5>1, <5>2 DEF Max
      <4>2. s \ {m + 1} \in SUBSET (1 .. m) /\ s \ {m + 1} \in SUBSET (1 .. m + 1)
        OBVIOUS
      <4>3. h[s \ {m + 1}] = f[s \ {m + 1}]
        BY <4>2
      <4>4. h[s] = HeardStep(f[s \ {m + 1}], p)
        BY <3>1
      <4> HIDE DEF h
      <4> QED
        BY <3>1, <4>1, <4>3, <4>4
    <3>2. CASE m + 1 \notin s
      <4>1. s \in SUBSET (1 .. m)
        BY <3>2
      <4>2. h[s] = f[s] /\ h[s \ {Max(s)}] = f[s \ {Max(s)}]
        BY <3>2
      <4>3. f[s] = Then(f, s)
        BY <1>3, <4>1
      <4> HIDE DEF h
      <4> QED
        BY <4>2, <4>3
    <3> QED
      BY <3>1, <3>2
  <2>2. Folds(1 .. m + 1, h)
    <3>1. h = [s \in SUBSET (1 .. m + 1) |-> h[s]]
      OBVIOUS
    <3> HIDE DEF h, Then
    <3> QED
      BY <2>1, <3>1
  <2> QED
    BY <2>2
<1>4. \E f : Folds(DOMAIN q, f)
  <2> HIDE DEF Folds, n, q
  <2>1. SUFFICES ASSUME n \in bad PROVE FALSE
    BY <1>1
  <2>2. PICK m \in bad : \A k \in bad : m <= k
    BY <2>1, SmallestNumber
  <2>3. m # 0 /\ m \in Nat
    BY <1>2, <2>2
  <2>4. m - 1 \in Nat /\ m - 1 \notin bad
    BY <2>2, <2>3
  <2>5. PICK f : Folds(1 .. m - 1, f)
    BY <2>4
  <2>6. \E h : Folds(1 .. m - 1 + 1, h)
    BY <1>3, <2>4, <2>5
  <2>7. m - 1 + 1 = m
    BY <2>3
  <2> QED
    BY <2>2, <2>6, <2>7
<1> DEFINE f == CHOOSE f : Folds(DOMAIN q, f)
<1>5. Folds(DOMAIN q, f)
  BY <1>4
<1>6. PlayNote(e, p, frames) = f[DOMAIN q]
  BY Zenon DEF PlayNote, StepOrder, HeardStep, FoldLeft, MapThenFoldSet
<1> HIDE DEF f
<1> DEFINE g == [k \in 0 .. n |-> f[1 .. k]]
<1>7. g[0] = [heard |-> <<>>, envelope |-> e]
  <2>1. 1 .. 0 = {} /\ {} \in SUBSET (DOMAIN q)
    OBVIOUS
  <2>2. f[{}] = [heard |-> <<>>, envelope |-> e]
    BY <1>5, <2>1
  <2> HIDE DEF n
  <2> QED
    BY <1>1, <2>1, <2>2
<1>8. ASSUME NEW k \in 1 .. n
      PROVE  g[k] = HeardStep(g[k - 1], p)
  <2> HIDE DEF n, Then, q
  <2>1. 1 .. k \in SUBSET (DOMAIN q) /\ k \in 1 .. k /\ (1 .. k) \ {k} = 1 .. k - 1
        /\ k - 1 \in 0 .. n /\ k \in 0 .. n
    BY <1>1
  <2>2. Max(1 .. k) = k
    <3>1. \A y \in 1 .. k : k >= y
      OBVIOUS
    <3>2. \A x \in 1 .. k : (\A y \in 1 .. k : x >= y) => x = k
      BY <1>1, <2>1
    <3> QED
      BY <2>1, <3>1, <3>2 DEF Max
  <2>3. f[1 .. k] = Then(f, 1 .. k)
    BY <1>5, <2>1
  <2>4. Then(f, 1 .. k) = HeardStep(f[1 .. k - 1], p)
    BY <1>1, <2>1, <2>2 DEF Then
  <2> QED
    BY <2>1, <2>3, <2>4
<1>9. g[n] = f[DOMAIN q]
  BY <1>1
<1> HIDE DEF g
<1> QED
  BY <1>6, <1>7, <1>8, <1>9

(* A stage that begins: its fields.                                        *)
LEMMA StageBegins ==
  ASSUME NEW p \in AllPatches, p.sustain <= p.peak, NEW e \in Envelopes(p), NEW stage \in Stages,
         NEW target \in 0 .. p.peak, NEW frames \in Nat
  PROVE  LET r == Ramp(e, stage, target, frames) IN
         /\ r \in Envelopes(p) /\ r.stage = stage /\ r.frame = 0 /\ r.frames = frames /\ r.level = e.level
<1> DEFINE r == Ramp(e, stage, target, frames)
<1>1. ASSUME NEW x \in Envelopes(p)
      PROVE  /\ [x EXCEPT !.stage = stage] \in Envelopes(p) /\ [x EXCEPT !.start = e.level] \in Envelopes(p)
             /\ [x EXCEPT !.target = target] \in Envelopes(p) /\ [x EXCEPT !.frame = 0] \in Envelopes(p)
             /\ [x EXCEPT !.frames = frames] \in Envelopes(p)
  BY DEF Envelopes
<1> DEFINE a == [e EXCEPT !.stage = stage]
           b == [a EXCEPT !.start = e.level]
           c == [b EXCEPT !.target = target]
           d == [c EXCEPT !.frame = 0]
<1>2. a \in Envelopes(p)
  BY <1>1
<1>3. r = [d EXCEPT !.frames = frames]
  BY DEF Ramp
<1>4. a.stage = stage /\ a.level = e.level
  BY DEF Envelopes
<1> HIDE DEF a, r
<1>5. b \in Envelopes(p) /\ b.stage = stage /\ b.level = e.level
  BY <1>1, <1>2, <1>4 DEF Envelopes
<1> HIDE DEF b
<1>6. c \in Envelopes(p) /\ c.stage = stage /\ c.level = e.level
  BY <1>1, <1>5 DEF Envelopes
<1> HIDE DEF c
<1>7. d \in Envelopes(p) /\ d.stage = stage /\ d.level = e.level /\ d.frame = 0
  BY <1>1, <1>6 DEF Envelopes
<1> HIDE DEF d
<1>8. r \in Envelopes(p) /\ r.stage = stage /\ r.level = e.level /\ r.frame = 0 /\ r.frames = frames
  BY <1>1, <1>3, <1>7 DEF Envelopes
<1> QED
  BY <1>8 DEF r

(* Decay is followed by the sustain level, at once when it takes no time.  *)
LEMMA DecayBegins ==
  ASSUME NEW p \in AllPatches, p.sustain <= p.peak, NEW e \in Envelopes(p)
  PROVE  /\ HeldFor(Decaying(e, p), p, p.attack)
         /\ Sustaining(e, p) \in Envelopes(p) /\ Sustaining(e, p).stage = "Sustain" /\ Sustaining(e, p).level = p.sustain
<1>1. p.sustain \in 0 .. p.peak /\ p.decay \in Nat /\ p.attack \in Nat
  BY DEF AllPatches
<1>2. ASSUME NEW x \in Envelopes(p)
      PROVE  /\ Sustaining(x, p) \in Envelopes(p) /\ Sustaining(x, p).stage = "Sustain"
             /\ Sustaining(x, p).level = p.sustain
  BY <1>1 DEF Sustaining, Envelopes, Stages
<1> DEFINE r == Ramp(e, "Decay", p.sustain, p.decay)
<1>3. r \in Envelopes(p) /\ r.stage = "Decay" /\ r.frame = 0 /\ r.frames = p.decay
  <2>1. "Decay" \in Stages
    BY DEF Stages
  <2> QED
    BY <1>1, <2>1, StageBegins
<1>4. CASE p.decay = 0
  <2>1. Decaying(e, p) = Sustaining(r, p)
    BY <1>4 DEF Decaying
  <2> HIDE DEF r
  <2>2. /\ Sustaining(r, p) \in Envelopes(p) /\ Sustaining(r, p).stage = "Sustain"
        /\ Sustaining(r, p).level = p.sustain
    BY <1>2, <1>3
  <2> QED
    BY <1>2, <2>1, <2>2 DEF HeldFor
<1>5. CASE p.decay # 0
  <2>1. Decaying(e, p) = r
    BY <1>5 DEF Decaying
  <2> HIDE DEF r
  <2> QED
    BY <1>1, <1>2, <1>3, <1>5, <2>1 DEF HeldFor
<1> QED
  BY <1>4, <1>5

(* One frame on a ramp that has not ended.                                 *)
LEMMA RampStep ==
  ASSUME NEW p \in AllPatches, NEW e \in Envelopes(p), e.stage \in {"Attack", "Decay", "Release"}, e.frame < e.frames
  PROVE  \E r \in Envelopes(p) :
           /\ r.stage = e.stage /\ r.frame = e.frame + 1 /\ r.frames = e.frames
           /\ Stepped(e, p) = IF e.frame + 1 >= e.frames THEN AdvanceStage(r, p) ELSE r
<1> DEFINE frame == e.frame + 1
           level == e.start + (((e.target - e.start) * frame) \div e.frames)
           r == [e EXCEPT !.frame = frame, !.level = level]
<1>1. /\ p.peak \in Nat /\ e.start \in 0 .. p.peak /\ e.target \in 0 .. p.peak
      /\ e.frames \in Nat \ {0} /\ frame \in 0 .. e.frames /\ frame \in Nat
  BY DEF Envelopes, AllPatches
<1>2. level \in 0 .. p.peak
  <2> HIDE DEF frame
  <2> QED
    BY <1>1, RampBetween
<1>3. Stepped(e, p) = IF frame >= e.frames THEN AdvanceStage(r, p) ELSE r
  BY DEF Stepped
<1> HIDE DEF frame, level
<1>4. r \in Envelopes(p) /\ r.stage = e.stage /\ r.frame = frame /\ r.frames = e.frames
  BY <1>1, <1>2 DEF Envelopes
<1> QED
  BY <1>3, <1>4 DEF frame

(* A held note goes on from attack to decay to its sustain level.          *)
LEMMA HeldStep ==
  ASSUME NEW p \in AllPatches, p.sustain <= p.peak, NEW k \in Nat, NEW e, HeldFor(e, p, k)
  PROVE  HeldFor(Stepped(e, p), p, k + 1)
<1>1. e \in Envelopes(p) /\ p.attack \in Nat /\ p.decay \in Nat /\ e.frame \in Nat
  BY DEF HeldFor, AllPatches, Envelopes
<1>2. CASE e.stage = "Sustain"
  <2>1. Stepped(e, p) = e
    BY <1>2 DEF Stepped
  <2> QED
    BY <1>2, <2>1 DEF HeldFor
<1>3. CASE e.stage = "Attack"
  <2>1. e.frame = k /\ e.frames = p.attack /\ k < p.attack
    BY <1>3 DEF HeldFor
  <2>2. PICK r \in Envelopes(p) :
           /\ r.stage = e.stage /\ r.frame = e.frame + 1 /\ r.frames = e.frames
           /\ Stepped(e, p) = IF e.frame + 1 >= e.frames THEN AdvanceStage(r, p) ELSE r
    BY <1>1, <1>3, <2>1, RampStep
  <2>3. CASE k + 1 >= p.attack
    <3>1. Stepped(e, p) = Decaying(r, p) /\ k + 1 = p.attack
      BY <1>1, <1>3, <2>1, <2>2, <2>3 DEF AdvanceStage
    <3> QED
      BY <3>1, DecayBegins
  <2>4. CASE k + 1 < p.attack
    <3>1. Stepped(e, p) = r
      BY <1>1, <2>1, <2>2, <2>4
    <3> QED
      BY <1>1, <1>3, <2>1, <2>2, <2>4, <3>1 DEF HeldFor
  <2> QED
    BY <1>1, <2>3, <2>4
<1>4. CASE e.stage = "Decay"
  <2>1. e.frame + p.attack = k /\ e.frames = p.decay /\ e.frame < p.decay
    BY <1>4 DEF HeldFor
  <2>2. PICK r \in Envelopes(p) :
           /\ r.stage = e.stage /\ r.frame = e.frame + 1 /\ r.frames = e.frames
           /\ Stepped(e, p) = IF e.frame + 1 >= e.frames THEN AdvanceStage(r, p) ELSE r
    BY <1>1, <1>4, <2>1, RampStep
  <2>3. CASE e.frame + 1 >= p.decay
    <3>1. Stepped(e, p) = Sustaining(r, p)
      BY <1>1, <1>4, <2>1, <2>2, <2>3 DEF AdvanceStage
    <3>2. /\ Sustaining(r, p) \in Envelopes(p) /\ Sustaining(r, p).stage = "Sustain"
          /\ Sustaining(r, p).level = p.sustain
      BY DecayBegins
    <3> QED
      BY <3>1, <3>2 DEF HeldFor
  <2>4. CASE e.frame + 1 < p.decay
    <3>1. Stepped(e, p) = r
      BY <1>1, <2>1, <2>2, <2>4
    <3> QED
      BY <1>1, <1>4, <2>1, <2>2, <2>4, <3>1 DEF HeldFor
  <2> QED
    BY <1>1, <2>3, <2>4
<1> QED
  BY <1>2, <1>3, <1>4 DEF HeldFor

(* A released note goes on to its end.                                     *)
LEMMA ReleasedStep ==
  ASSUME NEW p \in AllPatches, NEW k \in Nat, NEW e, ReleasedFor(e, p, k)
  PROVE  ReleasedFor(Stepped(e, p), p, k + 1)
<1>1. e \in Envelopes(p) /\ p.release \in Nat /\ Finished \in Envelopes(p)
  BY DEF ReleasedFor, AllPatches, Envelopes, Finished, Stages
<1>2. CASE k >= p.release
  <2>1. Stepped(e, p) = Finished
    BY <1>2 DEF Stepped, Finished, ReleasedFor
  <2> QED
    BY <1>1, <1>2, <2>1 DEF ReleasedFor
<1>3. CASE k < p.release
  <2>1. e.stage = "Release" /\ e.frame = k /\ e.frames = p.release
    BY <1>3 DEF ReleasedFor
  <2>2. PICK r \in Envelopes(p) :
           /\ r.stage = e.stage /\ r.frame = e.frame + 1 /\ r.frames = e.frames
           /\ Stepped(e, p) = IF e.frame + 1 >= e.frames THEN AdvanceStage(r, p) ELSE r
    BY <1>1, <1>3, <2>1, RampStep
  <2>3. CASE k + 1 >= p.release
    <3>1. Stepped(e, p) = Finished
      BY <2>1, <2>2, <2>3 DEF AdvanceStage
    <3> QED
      BY <1>1, <2>3, <3>1 DEF ReleasedFor
  <2>4. CASE k + 1 < p.release
    <3>1. Stepped(e, p) = r
      BY <1>1, <2>1, <2>2, <2>4
    <3> QED
      BY <1>1, <2>1, <2>2, <2>4, <3>1 DEF ReleasedFor
  <2> QED
    BY <1>1, <2>3, <2>4
<1> QED
  BY <1>1, <1>2, <1>3

(* A voice that is free stays silent.                                      *)
LEMMA SilentStep ==
  ASSUME NEW p \in AllPatches, NEW k \in Nat, NEW e, SilentFor(e, p, k)
  PROVE  SilentFor(Stepped(e, p), p, k + 1)
BY DEF SilentFor, Stepped, Finished

(* A note that is held for some frames.                                    *)
LEMMA NoteHeld ==
  ASSUME NEW p \in AllPatches, p.sustain <= p.peak, NEW e, HeldFor(e, p, 0), NEW frames \in Nat
  PROVE  LET note == PlayNote(e, p, frames)
         IN HeldFor(note.envelope, p, frames) /\ note.heard \in Seq(0 .. p.peak) /\ Len(note.heard) = frames
<1>1. PICK g : /\ g[0] = [heard |-> <<>>, envelope |-> e]
               /\ \A k \in 1 .. frames : g[k] = HeardStep(g[k - 1], p)
               /\ PlayNote(e, p, frames) = g[frames]
  <2>1. PICK x : x = PlayNote(e, p, frames)
    OBVIOUS
  <2> QED
    BY <2>1, StepsInTurn
<1> DEFINE Levels == 0 .. p.peak
           Good(k) == HeldFor(g[k].envelope, p, k) /\ g[k].heard \in Seq(Levels) /\ Len(g[k].heard) = k
           bad == {k \in 0 .. frames : ~ Good(k)}
<1>2. Good(0)
  <2>1. <<>> \in Seq(Levels) /\ Len(<<>>) = 0
    OBVIOUS
  <2> QED
    BY <1>1, <2>1
<1>3. ASSUME NEW k \in 1 .. frames, Good(k - 1)
      PROVE  Good(k)
  <2> DEFINE t == g[k - 1]
             u == g[k]
  <2>1. u = [heard |-> Append(t.heard, t.envelope.level), envelope |-> Stepped(t.envelope, p)]
    BY <1>1 DEF HeardStep
  <2>2. HeldFor(t.envelope, p, k - 1) /\ t.heard \in Seq(Levels) /\ Len(t.heard) = k - 1
    BY <1>3
  <2> HIDE DEF t, u
  <2>3. t.envelope.level \in Levels /\ k - 1 \in Nat /\ k - 1 + 1 = k
    BY <2>2 DEF HeldFor, Envelopes
  <2>4. HeldFor(u.envelope, p, k)
    <3> DEFINE v == t.envelope
               j == k - 1
    <3>1. HeldFor(v, p, j) /\ j \in Nat /\ j + 1 = k
      BY <2>2, <2>3
    <3> HIDE DEF v, j
    <3>2. HeldFor(Stepped(v, p), p, j + 1)
      BY <3>1, HeldStep
    <3> QED
      BY <2>1, <3>1, <3>2 DEF v
  <2> HIDE DEF Levels
  <2>5. u.heard \in Seq(Levels) /\ Len(u.heard) = Len(t.heard) + 1
    BY <2>1, <2>2, <2>3, AppendProperties
  <2>6. u.heard \in Seq(Levels) /\ Len(u.heard) = k
    BY <2>2, <2>5
  <2> QED
    BY <2>4, <2>6 DEF u
<1>4. Good(frames)
  <2> HIDE DEF Good
  <2>1. SUFFICES ASSUME bad # {} PROVE FALSE
    OBVIOUS
  <2>2. bad \subseteq Nat
    OBVIOUS
  <2> HIDE DEF bad
  <2>3. PICK m \in bad : \A k \in bad : m <= k
    BY <2>1, <2>2, SmallestNumber
  <2> USE DEF bad
  <2>4. m # 0 /\ m \in 1 .. frames /\ m - 1 \in 0 .. frames /\ m - 1 \notin bad
    BY <1>2, <2>3
  <2>5. Good(m - 1)
    BY <2>4
  <2> QED
    BY <1>3, <2>3, <2>4, <2>5
<1> QED
  BY <1>1, <1>4

(* A note that was released, so many frames later.                         *)
LEMMA NoteReleased ==
  ASSUME NEW p \in AllPatches, p.sustain <= p.peak, NEW e, ReleasedFor(e, p, 0), NEW frames \in Nat
  PROVE  LET note == PlayNote(e, p, frames)
         IN ReleasedFor(note.envelope, p, frames) /\ note.heard \in Seq(0 .. p.peak) /\ Len(note.heard) = frames
<1>1. PICK g : /\ g[0] = [heard |-> <<>>, envelope |-> e]
               /\ \A k \in 1 .. frames : g[k] = HeardStep(g[k - 1], p)
               /\ PlayNote(e, p, frames) = g[frames]
  <2>1. PICK x : x = PlayNote(e, p, frames)
    OBVIOUS
  <2> QED
    BY <2>1, StepsInTurn
<1> DEFINE Levels == 0 .. p.peak
           Good(k) == ReleasedFor(g[k].envelope, p, k) /\ g[k].heard \in Seq(Levels) /\ Len(g[k].heard) = k
           bad == {k \in 0 .. frames : ~ Good(k)}
<1>2. Good(0)
  <2>1. <<>> \in Seq(Levels) /\ Len(<<>>) = 0
    OBVIOUS
  <2> QED
    BY <1>1, <2>1
<1>3. ASSUME NEW k \in 1 .. frames, Good(k - 1)
      PROVE  Good(k)
  <2> DEFINE t == g[k - 1]
             u == g[k]
  <2>1. u = [heard |-> Append(t.heard, t.envelope.level), envelope |-> Stepped(t.envelope, p)]
    BY <1>1 DEF HeardStep
  <2>2. ReleasedFor(t.envelope, p, k - 1) /\ t.heard \in Seq(Levels) /\ Len(t.heard) = k - 1
    BY <1>3
  <2> HIDE DEF t, u
  <2>3. t.envelope.level \in Levels /\ k - 1 \in Nat /\ k - 1 + 1 = k
    BY <2>2 DEF ReleasedFor, Envelopes
  <2>4. ReleasedFor(u.envelope, p, k)
    <3> DEFINE v == t.envelope
               j == k - 1
    <3>1. ReleasedFor(v, p, j) /\ j \in Nat /\ j + 1 = k
      BY <2>2, <2>3
    <3> HIDE DEF v, j
    <3>2. ReleasedFor(Stepped(v, p), p, j + 1)
      BY <3>1, ReleasedStep
    <3> QED
      BY <2>1, <3>1, <3>2 DEF v
  <2> HIDE DEF Levels
  <2>5. u.heard \in Seq(Levels) /\ Len(u.heard) = Len(t.heard) + 1
    BY <2>1, <2>2, <2>3, AppendProperties
  <2>6. u.heard \in Seq(Levels) /\ Len(u.heard) = k
    BY <2>2, <2>5
  <2> QED
    BY <2>4, <2>6 DEF u
<1>4. Good(frames)
  <2> HIDE DEF Good
  <2>1. SUFFICES ASSUME bad # {} PROVE FALSE
    OBVIOUS
  <2>2. bad \subseteq Nat
    OBVIOUS
  <2> HIDE DEF bad
  <2>3. PICK m \in bad : \A k \in bad : m <= k
    BY <2>1, <2>2, SmallestNumber
  <2> USE DEF bad
  <2>4. m # 0 /\ m \in 1 .. frames /\ m - 1 \in 0 .. frames /\ m - 1 \notin bad
    BY <1>2, <2>3
  <2>5. Good(m - 1)
    BY <2>4
  <2> QED
    BY <1>3, <2>3, <2>4, <2>5
<1> QED
  BY <1>1, <1>4

(* A voice that is free, so many frames later.                              *)
LEMMA NoteSilent ==
  ASSUME NEW p \in AllPatches, p.sustain <= p.peak, NEW e, SilentFor(e, p, 0), NEW frames \in Nat
  PROVE  LET note == PlayNote(e, p, frames)
         IN SilentFor(note.envelope, p, frames) /\ note.heard \in Seq(0 .. p.peak) /\ Len(note.heard) = frames
<1>1. PICK g : /\ g[0] = [heard |-> <<>>, envelope |-> e]
               /\ \A k \in 1 .. frames : g[k] = HeardStep(g[k - 1], p)
               /\ PlayNote(e, p, frames) = g[frames]
  <2>1. PICK x : x = PlayNote(e, p, frames)
    OBVIOUS
  <2> QED
    BY <2>1, StepsInTurn
<1> DEFINE Levels == 0 .. p.peak
           Good(k) == SilentFor(g[k].envelope, p, k) /\ g[k].heard \in Seq(Levels) /\ Len(g[k].heard) = k
           bad == {k \in 0 .. frames : ~ Good(k)}
<1>2. Good(0)
  <2>1. <<>> \in Seq(Levels) /\ Len(<<>>) = 0
    OBVIOUS
  <2> QED
    BY <1>1, <2>1
<1>3. ASSUME NEW k \in 1 .. frames, Good(k - 1)
      PROVE  Good(k)
  <2> DEFINE t == g[k - 1]
             u == g[k]
  <2>1. u = [heard |-> Append(t.heard, t.envelope.level), envelope |-> Stepped(t.envelope, p)]
    BY <1>1 DEF HeardStep
  <2>2. SilentFor(t.envelope, p, k - 1) /\ t.heard \in Seq(Levels) /\ Len(t.heard) = k - 1
    BY <1>3
  <2> HIDE DEF t, u
  <2>3. t.envelope.level \in Levels /\ k - 1 \in Nat /\ k - 1 + 1 = k
    BY <2>2 DEF SilentFor, Envelopes
  <2>4. SilentFor(u.envelope, p, k)
    <3> DEFINE v == t.envelope
               j == k - 1
    <3>1. SilentFor(v, p, j) /\ j \in Nat /\ j + 1 = k
      BY <2>2, <2>3
    <3> HIDE DEF v, j
    <3>2. SilentFor(Stepped(v, p), p, j + 1)
      BY <3>1, SilentStep
    <3> QED
      BY <2>1, <3>1, <3>2 DEF v
  <2> HIDE DEF Levels
  <2>5. u.heard \in Seq(Levels) /\ Len(u.heard) = Len(t.heard) + 1
    BY <2>1, <2>2, <2>3, AppendProperties
  <2>6. u.heard \in Seq(Levels) /\ Len(u.heard) = k
    BY <2>2, <2>5
  <2> QED
    BY <2>4, <2>6 DEF u
<1>4. Good(frames)
  <2> HIDE DEF Good
  <2>1. SUFFICES ASSUME bad # {} PROVE FALSE
    OBVIOUS
  <2>2. bad \subseteq Nat
    OBVIOUS
  <2> HIDE DEF bad
  <2>3. PICK m \in bad : \A k \in bad : m <= k
    BY <2>1, <2>2, SmallestNumber
  <2> USE DEF bad
  <2>4. m # 0 /\ m \in 1 .. frames /\ m - 1 \in 0 .. frames /\ m - 1 \notin bad
    BY <1>2, <2>3
  <2>5. Good(m - 1)
    BY <2>4
  <2> QED
    BY <1>3, <2>3, <2>4, <2>5
<1> QED
  BY <1>1, <1>4

(* A note begins with its attack.                                          *)
LEMMA NoteStarts ==
  ASSUME NEW p \in AllPatches, p.sustain <= p.peak
  PROVE  HeldFor(Started(p), p, 0)
<1> DEFINE a == Ramp(Finished, "Attack", p.peak, p.attack)
           b == [a EXCEPT !.level = p.peak]
<1>1. Finished \in Envelopes(p) /\ "Attack" \in Stages /\ p.peak \in 0 .. p.peak /\ p.attack \in Nat
  BY DEF Finished, Envelopes, Stages, AllPatches
<1>2. a \in Envelopes(p) /\ a.stage = "Attack" /\ a.frame = 0 /\ a.frames = p.attack
  BY <1>1, StageBegins
<1>3. Started(p) = IF p.attack = 0 THEN Decaying(b, p) ELSE a
  BY DEF Started
<1> HIDE DEF a
<1>4. b \in Envelopes(p)
  BY <1>1, <1>2 DEF Envelopes
<1> HIDE DEF b
<1>5. CASE p.attack = 0
  <2>1. HeldFor(Decaying(b, p), p, p.attack)
    BY <1>4, DecayBegins
  <2> QED
    BY <1>3, <1>5, <2>1
<1>6. CASE p.attack # 0
  BY <1>1, <1>2, <1>3, <1>6 DEF HeldFor
<1> QED
  BY <1>5, <1>6

(* A released voice is free again after exactly its release time, or at    *)
(* once when nothing is heard of it, for any times and levels, whenever it *)
(* is released.  Until then it is held at its sustain level once attack    *)
(* and decay are over, and its level never leaves 0 .. peak.               *)
THEOREM NoteEnds ==
  ASSUME NEW p \in AllPatches, p.sustain <= p.peak, NEW held \in Nat, NEW n \in Nat
  PROVE  LET on == PlayNote(Started(p), p, held)
             off == PlayNote(Released(on.envelope, p), p, n)
         IN /\ on.envelope.stage # "Idle"
            /\ held >= p.attack + p.decay => on.envelope.stage = "Sustain" /\ on.envelope.level = p.sustain
            /\ off.envelope.stage = "Idle" <=> on.envelope.level = 0 \/ n >= p.release
            /\ on.heard \in Seq(0 .. p.peak) /\ off.heard \in Seq(0 .. p.peak)
<1> DEFINE on == PlayNote(Started(p), p, held)
           e == on.envelope
           f == Released(e, p)
           off == PlayNote(f, p, n)
<1>1. HeldFor(e, p, held) /\ on.heard \in Seq(0 .. p.peak)
  BY NoteStarts, NoteHeld
<1> HIDE DEF on
<1> HIDE DEF e
<1>2. /\ e \in Envelopes(p) /\ e.stage \in {"Attack", "Decay", "Sustain"} /\ e.level \in 0 .. p.peak /\ e.frame \in Nat
      /\ p.attack \in Nat /\ p.decay \in Nat /\ p.release \in Nat /\ p.peak \in Nat
  BY <1>1 DEF HeldFor, Envelopes, AllPatches
<1>3. held >= p.attack + p.decay => e.stage = "Sustain" /\ e.level = p.sustain
  BY <1>1, <1>2 DEF HeldFor
<1>4. Finished \in Envelopes(p) /\ Finished.stage = "Idle"
  BY <1>2 DEF Finished, Envelopes, Stages
<1>5. CASE e.level > 0
  <2>1. ReleasedFor(f, p, 0)
    <3>1. CASE p.release = 0
      <4>1. f = Finished
        BY <1>2, <3>1 DEF Released
      <4> QED
        BY <1>4, <3>1, <4>1 DEF ReleasedFor
    <3>2. CASE p.release # 0
      <4>1. f = Ramp(e, "Release", 0, p.release)
        BY <1>2, <1>5, <3>2 DEF Released
      <4>2. 0 \in 0 .. p.peak /\ "Release" \in Stages
        BY <1>2 DEF Stages
      <4> DEFINE r == Ramp(e, "Release", 0, p.release)
      <4>3. r \in Envelopes(p) /\ r.stage = "Release" /\ r.frame = 0 /\ r.frames = p.release
        BY <1>2, <4>2, StageBegins
      <4> HIDE DEF f, r
      <4>4. f \in Envelopes(p) /\ f.stage = "Release" /\ f.frame = 0 /\ f.frames = p.release
        BY <4>1, <4>3 DEF r
      <4> QED
        BY <1>2, <3>2, <4>4 DEF ReleasedFor
    <3> QED
      BY <3>1, <3>2
  <2> HIDE DEF f
  <2>2. ReleasedFor(off.envelope, p, n) /\ off.heard \in Seq(0 .. p.peak)
    BY <2>1, NoteReleased
  <2> HIDE DEF off
  <2>3. off.envelope.stage = "Idle" <=> n >= p.release
    BY <1>2, <1>4, <2>2 DEF ReleasedFor
  <2> QED
    BY <1>1, <1>2, <1>3, <1>5, <2>2, <2>3 DEF e, f, off, on
<1>6. CASE e.level = 0
  <2>1. f = Finished
    BY <1>2, <1>6 DEF Released
  <2> HIDE DEF f
  <2>2. off.envelope = Finished /\ off.heard \in Seq(0 .. p.peak)
    <3>1. SilentFor(f, p, 0)
      BY <1>4, <2>1 DEF SilentFor
    <3> QED
      BY <3>1, NoteSilent DEF SilentFor
  <2> HIDE DEF off
  <2> QED
    BY <1>1, <1>2, <1>3, <1>4, <1>6, <2>2 DEF e, f, off, on
<1> QED
  BY <1>2, <1>5, <1>6
=============================================================================
