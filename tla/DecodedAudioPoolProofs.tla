-------------------------- MODULE DecodedAudioPoolProofs --------------------------
(***************************************************************************)
(* Proofs about the chunk pool, for every number of slots and every bound: *)
(* types, exclusive access to the audio blocks, whole publication, frozen  *)
(* leases, the implementation of ChunkStore, and the exact count of the    *)
(* resident frames.  The properties of DecodedAudioPool are not inductive: *)
(* they need to know which slot a running call holds (CallShape) and what  *)
(* a publication in progress has stored so far (PublishShape).             *)
(***************************************************************************)
EXTENDS DecodedAudioPool, FiniteSetTheorems, WellFoundedInduction, TLAPS

(* A call that works on a reservation names a slot, the other worker calls   *)
(* are made without one, and a release gives back a lease.                   *)
CallShape ==
  /\ w.pc \in {"clear", "pubStart", "pubGen", "pubCount", "pubAdd", "pubReady", "cancel"}
       => w.slot \in Slots
  /\ w.pc \in {"reserve", "discard", "discardCheck", "discardSub", "ready"} => w.slot = NoSlot
  /\ r.pc = "release" => r.at \in leases

(* The metadata a publication has stored already is that of the audio block. *)
PublishShape ==
  /\ w.pc \in {"pubStart", "pubGen", "pubCount", "pubAdd", "pubReady"}
       => w.from = audio[w.slot].from
  /\ w.pc \in {"pubGen", "pubCount", "pubAdd", "pubReady"} => start[w.slot] = w.from
  /\ w.pc \in {"pubCount", "pubAdd", "pubReady"} => gen[w.slot] = w.gen
  /\ w.pc \in {"pubAdd", "pubReady"} => count[w.slot] = audio[w.slot].frames

SlotInv == TypeOK /\ CallShape /\ ExclusiveAudio
PoolInv == SlotInv /\ PublishShape /\ PublishedWhole

USE ChunkCountAssumption, BoundsAssumption

(* Slot indices are naturals below ChunkCount, NoSlot is none of them; 0 and  *)
(* Free are in the types of an idle call.                                     *)
LEMMA SlotFacts ==
  /\ Slots \subseteq Nat /\ 0 \in Slots /\ NoSlot \notin Slots
  /\ 0 \in Generations /\ 0 \in Starts /\ 0 \in FrameCounts /\ "Free" \in SlotState
  /\ \A i \in Nat : i + 1 < ChunkCount => i + 1 \in Slots
BY DEF Slots, NoSlot, Generations, Starts, FrameCounts, SlotState

(* An index taken modulo ChunkCount is a slot.                               *)
LEMMA ModuloSlot == \A i \in Nat : i % ChunkCount \in Slots
BY DEF Slots

(* Min and Max of two naturals are naturals.                                 *)
LEMMA MinMaxNat == ASSUME NEW a \in Nat, NEW b \in Nat
                   PROVE Min({a, b}) \in Nat /\ Max({a, b}) \in Nat
<1>1. \E x \in {a, b} : \A y \in {a, b} : x =< y
  <2>1. CASE a =< b
    BY <2>1
  <2>2. CASE b =< a
    BY <2>2
  <2> QED
    BY <2>1, <2>2
<1>2. \E x \in {a, b} : \A y \in {a, b} : x >= y
  <2>1. CASE a =< b
    BY <2>1
  <2>2. CASE b =< a
    BY <2>2
  <2> QED
    BY <2>1, <2>2
<1> QED
  BY <1>1, <1>2 DEF Min, Max

(* The next iteration of a scan, or the end of it, is a typed call.          *)
LEMMA ScanTypes ==
  /\ w \in WorkerCalls => NextDiscard \in WorkerCalls
  /\ r \in RendererCalls => NextAcquire \in RendererCalls /\ NextRange \in RendererCalls
<1>1. ASSUME w \in WorkerCalls PROVE NextDiscard \in WorkerCalls
  <2>1. w.at \in Nat /\ (w.at + 1 < ChunkCount => w.at + 1 \in Slots)
    BY <1>1, SlotFacts DEF WorkerCalls
  <2>2. CASE w.at + 1 < ChunkCount
    BY <1>1, <2>1, <2>2 DEF NextDiscard, WorkerCalls, WorkerPcs
  <2>3. CASE ~ (w.at + 1 < ChunkCount)
    BY <2>3, SlotFacts DEF NextDiscard, WIdle, WorkerCalls, WorkerPcs
  <2> QED
    BY <2>2, <2>3
<1>2. ASSUME r \in RendererCalls PROVE NextAcquire \in RendererCalls /\ NextRange \in RendererCalls
  <2>1. r.at \in Nat /\ (r.at + 1 < ChunkCount => r.at + 1 \in Slots)
    BY <1>2, SlotFacts DEF RendererCalls
  <2>2. CASE r.at + 1 < ChunkCount
    <3>1. NextAcquire \in RendererCalls
      BY <1>2, <2>1, <2>2 DEF NextAcquire, RendererCalls, RendererPcs
    <3>2. NextRange \in RendererCalls
      BY <1>2, <2>1, <2>2, SlotFacts DEF NextRange, RIdle, RendererCalls, RendererPcs
    <3> QED
      BY <3>1, <3>2
  <2>3. CASE ~ (r.at + 1 < ChunkCount)
    BY <2>3, SlotFacts DEF NextAcquire, NextRange, RIdle, RendererCalls, RendererPcs
  <2> QED
    BY <2>2, <2>3
<1> QED
  BY <1>1, <1>2

(* Types are preserved by every step.                                        *)
LEMMA TypeStep == TypeOK /\ CallShape /\ [Next]_poolVars => TypeOK'
<1> SUFFICES ASSUME TypeOK, CallShape, [Next]_poolVars PROVE TypeOK'
  OBVIOUS
<1>0. w \in WorkerCalls /\ r \in RendererCalls
  BY DEF TypeOK
<1>a. \A i \in Slots : audio[i].from \in Starts /\ audio[i].frames \in FrameCounts
  BY DEF TypeOK
<1>b. \A i \in Slots : audio[i].frames \in Nat
  BY <1>a DEF FrameCounts
<1>c. \A i \in Slots : /\ state[i] \in SlotState /\ gen[i] \in Generations
                      /\ start[i] \in Starts /\ count[i] \in FrameCounts
                      /\ audio[i].frames \in FrameCounts
  BY DEF TypeOK
<1>d. nextWrite \in Nat /\ leases \subseteq Slots
  BY SlotFacts DEF TypeOK
<1>1. CASE BeginWriteCall
  <2>1. w' \in WorkerCalls
    BY <1>1, <1>0, SlotFacts
    DEF BeginWriteCall, WorkerCalls, WorkerPcs, WIdle
  <2> QED
    BY <1>1, <2>1, SlotFacts DEF BeginWriteCall, TypeOK, shared, fields
<1>2. ASSUME NEW f \in Starts, NEW n \in 1 .. MaxFrames, FillAudio(f, n) PROVE TypeOK'
  BY <1>2 DEF FillAudio, TypeOK, fields, FrameCounts
<1>3. ASSUME NEW g \in Generations, NEW v \in BOOLEAN, PublishCall(audio[w.slot].from, g, v) PROVE TypeOK'
  <2>1. w' \in WorkerCalls
    BY <1>3, <1>0, SlotFacts, <1>a
    DEF PublishCall, WorkerCalls, WorkerPcs, WIdle
  <2> QED
    BY <1>3, <2>1, SlotFacts DEF PublishCall, TypeOK, shared, fields
<1>4. CASE CancelCall
  <2>1. w' \in WorkerCalls
    BY <1>4, <1>0, SlotFacts
    DEF CancelCall, WorkerCalls, WorkerPcs, WIdle
  <2> QED
    BY <1>4, <2>1, SlotFacts DEF CancelCall, TypeOK, shared, fields
<1>5. ASSUME NEW g \in Generations, DiscardCall(g) PROVE TypeOK'
  <2>1. w' \in WorkerCalls
    BY <1>5, <1>0, SlotFacts
    DEF DiscardCall, WorkerCalls, WorkerPcs, WIdle
  <2> QED
    BY <1>5, <2>1, SlotFacts DEF DiscardCall, TypeOK, shared, fields
<1>6. CASE ReadyCountCall
  <2>1. w' \in WorkerCalls
    BY <1>6, <1>0, SlotFacts
    DEF ReadyCountCall, WorkerCalls, WorkerPcs, WIdle
  <2> QED
    BY <1>6, <2>1, SlotFacts DEF ReadyCountCall, TypeOK, shared, fields
<1>7. CASE BeginWriteCas
  <2>1. w' \in WorkerCalls
    <3>1. w.at \in Nat /\ (w.at + 1 < ChunkCount => w.at + 1 \in Slots)
      BY <1>0, SlotFacts DEF WorkerCalls
    <3>2. (nextWrite + w.at) % ChunkCount \in Slots
      BY <3>1, <1>d, ModuloSlot
    <3>3. CASE w' = [w EXCEPT !.pc = "clear", !.slot = (nextWrite + w.at) % ChunkCount]
      BY <1>0, <3>2, <3>3 DEF WorkerCalls, WorkerPcs
    <3>4. CASE w.at + 1 < ChunkCount /\ w' = [w EXCEPT !.at = @ + 1]
      BY <1>0, <3>1, <3>4 DEF WorkerCalls
    <3>5. CASE w' = WIdle(NoSlot, 0)
      BY <3>5, SlotFacts DEF WIdle, WorkerCalls, WorkerPcs
    <3> QED
      BY <1>7, <3>3, <3>4, <3>5 DEF BeginWriteCas
  <2> QED
    BY <1>7, <2>1, SlotFacts, ModuloSlot DEF BeginWriteCas, TypeOK, fields, SlotState
<1>8. CASE BeginWriteClear
  <2>1. w' \in WorkerCalls
    BY <1>8, <1>0, SlotFacts DEF BeginWriteClear, WorkerCalls, WorkerPcs, WIdle
  <2>2. nextWrite' \in Slots
    <3>1. w.slot \in Slots
      BY <1>8 DEF BeginWriteClear, CallShape
    <3>2. w.slot \in Nat
      BY <3>1, SlotFacts
    <3>3. w.slot + 1 \in Nat
      BY <3>2
    <3> QED
      BY <1>8, <3>3, ModuloSlot DEF BeginWriteClear, Following
  <2>3. audio' \in [Slots -> [frames : FrameCounts, from : Starts]]
    BY <1>8, SlotFacts DEF BeginWriteClear, TypeOK, NoAudio
  <2> QED
    BY <1>8, <2>1, SlotFacts, <2>2, <2>3 DEF BeginWriteClear, TypeOK, fields
<1>9. CASE PublishStart
  <2>1. w' \in WorkerCalls
    BY <1>9, <1>0, SlotFacts
    DEF PublishStart, WorkerCalls, WorkerPcs, WIdle
  <2> QED
    BY <1>9, <2>1, SlotFacts DEF PublishStart, TypeOK, WorkerCalls
<1>10. CASE PublishGeneration
  <2>1. w' \in WorkerCalls
    BY <1>10, <1>0, SlotFacts
    DEF PublishGeneration, WorkerCalls, WorkerPcs, WIdle
  <2> QED
    BY <1>10, <2>1, SlotFacts DEF PublishGeneration, TypeOK, WorkerCalls
<1>11. CASE PublishCount
  <2>1. w' \in WorkerCalls
    BY <1>11, <1>0, SlotFacts
    DEF PublishCount, WorkerCalls, WorkerPcs, WIdle
  <2> QED
    BY <1>11, <2>1, SlotFacts DEF PublishCount, TypeOK, CallShape
<1>12. CASE PublishAdd
  <2>1. w' \in WorkerCalls
    BY <1>12, <1>0, SlotFacts
    DEF PublishAdd, WorkerCalls, WorkerPcs, WIdle
  <2> QED
    BY <1>12, <2>1, SlotFacts DEF PublishAdd, TypeOK, fields, CallShape, FrameCounts
<1>13. CASE PublishReady
  <2>1. w' \in WorkerCalls
    BY <1>13, <1>0, SlotFacts
    DEF PublishReady, WorkerCalls, WorkerPcs, WIdle
  <2> QED
    BY <1>13, <2>1, SlotFacts DEF PublishReady, TypeOK, fields, SlotState
<1>14. CASE Cancel
  <2>1. w' \in WorkerCalls
    BY <1>14, <1>0, SlotFacts
    DEF Cancel, WorkerCalls, WorkerPcs, WIdle
  <2> QED
    BY <1>14, <2>1, SlotFacts DEF Cancel, TypeOK, fields, SlotState
<1>15. CASE DiscardCas
  <2>1. w' \in WorkerCalls
    BY <1>15, <1>0, SlotFacts, ScanTypes
    DEF DiscardCas, WorkerCalls, WorkerPcs, WIdle
  <2> QED
    BY <1>15, <2>1, SlotFacts DEF DiscardCas, TypeOK, fields, SlotState
<1>16. CASE DiscardCheck
  <2>1. w' \in WorkerCalls
    BY <1>16, <1>0, SlotFacts, <1>b, ScanTypes
    DEF DiscardCheck, WorkerCalls, WorkerPcs, WIdle
  <2> QED
    BY <1>16, <2>1, SlotFacts DEF DiscardCheck, TypeOK, fields, SlotState
<1>17. CASE DiscardSub
  <2>1. w' \in WorkerCalls
    BY <1>17, <1>0, SlotFacts, ScanTypes
    DEF DiscardSub, WorkerCalls, WorkerPcs, WIdle
  <2> QED
    BY <1>17, <2>1, SlotFacts DEF DiscardSub, TypeOK, fields, WorkerCalls
<1>18. CASE ReadyCountLoad
  <2>1. w' \in WorkerCalls
    <3>1. w.at \in Nat /\ (w.at + 1 < ChunkCount => w.at + 1 \in Slots)
      BY <1>0, SlotFacts DEF WorkerCalls
    <3> DEFINE n == IF state[w.at] = "Ready" THEN w.n + 1 ELSE w.n
    <3>2. n \in Nat
      BY <1>0 DEF WorkerCalls
    <3>a. w' = IF w.at + 1 < ChunkCount THEN [w EXCEPT !.at = @ + 1, !.n = n] ELSE WIdle(NoSlot, n)
      BY <1>18 DEF ReadyCountLoad
    <3> HIDE DEF n
    <3>3. CASE w.at + 1 < ChunkCount
      BY <1>0, <3>1, <3>2, <3>3, <3>a DEF WorkerCalls
    <3>4. CASE ~ (w.at + 1 < ChunkCount)
      BY <3>2, <3>4, <3>a, SlotFacts DEF WIdle, WorkerCalls, WorkerPcs
    <3> QED
      BY <3>3, <3>4
  <2> QED
    BY <1>18, <2>1, SlotFacts DEF ReadyCountLoad, TypeOK, shared, fields
<1>19. ASSUME NEW g \in Generations, AcquireCall(g) PROVE TypeOK'
  <2>1. r' \in RendererCalls
    BY <1>19, <1>0, <1>d, SlotFacts
    DEF AcquireCall, RendererCalls, RendererPcs, RIdle
  <2> QED
    BY <1>19, <2>1, SlotFacts DEF AcquireCall, TypeOK, shared, fields
<1>20. ASSUME NEW i \in leases, ReleaseCall(i) PROVE TypeOK'
  <2>1. r' \in RendererCalls
    BY <1>20, <1>0, <1>d, SlotFacts, <1>c
    DEF ReleaseCall, RendererCalls, RendererPcs, RIdle
  <2> QED
    BY <1>20, <2>1, SlotFacts DEF ReleaseCall, TypeOK, shared, fields
<1>21. CASE AcquireCas
  <2>1. r' \in RendererCalls
    BY <1>21, <1>0, <1>d, SlotFacts, ScanTypes
    DEF AcquireCas, RendererCalls, RendererPcs, RIdle
  <2> QED
    BY <1>21, <2>1, SlotFacts DEF AcquireCas, TypeOK, fields, SlotState
<1>22. CASE AcquireCheck
  <2>1. r' \in RendererCalls
    BY <1>22, <1>0, <1>d, SlotFacts, ScanTypes
    DEF AcquireCheck, RendererCalls, RendererPcs, RIdle
  <2>2. r.at \in Slots /\ state' \in [Slots -> SlotState] /\ leases' \subseteq Slots
    BY <1>22, SlotFacts DEF AcquireCheck, TypeOK, SlotState, RendererCalls
  <2> QED
    BY <1>22, <2>1, <2>2 DEF AcquireCheck, TypeOK, fields
<1>23. CASE ReleaseCas
  <2>1. r' \in RendererCalls
    BY <1>23, <1>0, <1>d, SlotFacts
    DEF ReleaseCas, RendererCalls, RendererPcs, RIdle
  <2> QED
    BY <1>23, <2>1, SlotFacts DEF ReleaseCas, TypeOK, fields, SlotState
<1>24. CASE ReleaseSub
  <2>1. r' \in RendererCalls
    BY <1>24, <1>0, <1>d, SlotFacts
    DEF ReleaseSub, RendererCalls, RendererPcs, RIdle
  <2> QED
    BY <1>24, <2>1, SlotFacts DEF ReleaseSub, TypeOK, fields, RendererCalls, FrameCounts
<1>25. CASE RangeState
  <2>1. r' \in RendererCalls
    BY <1>25, <1>0, <1>d, SlotFacts, <1>c, ScanTypes
    DEF RangeState, RendererCalls, RendererPcs, RIdle
  <2> QED
    BY <1>25, <2>1, SlotFacts DEF RangeState, TypeOK, shared, fields
<1>26. CASE RangeGen
  <2>1. r' \in RendererCalls
    BY <1>26, <1>0, <1>d, SlotFacts, <1>c
    DEF RangeGen, RendererCalls, RendererPcs, RIdle
  <2> QED
    BY <1>26, <2>1, SlotFacts DEF RangeGen, TypeOK, shared, fields
<1>27. CASE RangeStart
  <2>1. r' \in RendererCalls
    BY <1>27, <1>0, <1>d, SlotFacts, <1>c
    DEF RangeStart, RendererCalls, RendererPcs, RIdle
  <2> QED
    BY <1>27, <2>1, SlotFacts DEF RangeStart, TypeOK, shared, fields
<1>28. CASE RangeCount
  <2>1. r' \in RendererCalls
    BY <1>28, <1>0, <1>d, SlotFacts, <1>c
    DEF RangeCount, RendererCalls, RendererPcs, RIdle
  <2> QED
    BY <1>28, <2>1, SlotFacts DEF RangeCount, TypeOK, shared, fields
<1>29. CASE RangeCheck
  <2>1. r' \in RendererCalls
    BY <1>29, <1>0, ScanTypes DEF RangeCheck
  <2>2. r.seenStart \in Nat /\ r.seenStart + r.n \in Nat
    BY <1>0 DEF RendererCalls, Starts, FrameCounts
  <2>3. range.lo \in Nat /\ range.hi \in Nat
    BY DEF TypeOK
  <2>4. Widen(range, r.seenStart, r.seenStart + r.n) \in [lo : Nat, hi : Nat]
    BY <2>2, <2>3, MinMaxNat DEF Widen
  <2> QED
    BY <1>29, <2>1, SlotFacts, <2>4 DEF RangeCheck, TypeOK, shared, fields
<1>30. CASE UNCHANGED poolVars
  BY <1>30 DEF poolVars, TypeOK
<1>31. ASSUME NEW g \in Generations, RangeCall(g) PROVE TypeOK'
  <2>1. r' \in RendererCalls
    BY <1>31, <1>0, <1>d, SlotFacts
    DEF RangeCall, RendererCalls, RendererPcs, RIdle
  <2> QED
    BY <1>31, <2>1, SlotFacts DEF RangeCall, TypeOK, shared, fields, NoRange
<1> QED
  BY <1>1, <1>2, <1>3, <1>4, <1>5, <1>6, <1>7, <1>8, <1>9, <1>10, <1>11, <1>12,
     <1>13, <1>14, <1>15, <1>16, <1>17, <1>18, <1>19, <1>20, <1>21, <1>22, <1>23,
     <1>24, <1>25, <1>26, <1>27, <1>28, <1>29, <1>30, <1>31
     DEF Next, WorkerCall, WorkerStep, RendererCall, RendererStep

(* The next iteration of a scan stays in the scan or ends it, and holds nothing. *)
LEMMA ScanShape ==
  /\ w \in WorkerCalls => /\ NextDiscard.pc \in {"idle", "discard"}
                          /\ w.slot = NoSlot => NextDiscard.slot = NoSlot
  /\ r \in RendererCalls => /\ NextAcquire.pc \in {"idle", "acquire"}
                            /\ NextRange.pc \in {"idle", "rangeState"}
BY DEF NextDiscard, NextAcquire, NextRange, WIdle, RIdle, WorkerCalls, RendererCalls

(* What a running call holds is kept by every step.                          *)
LEMMA ShapeStep == TypeOK /\ CallShape /\ [Next]_poolVars => CallShape'
<1> SUFFICES ASSUME TypeOK, CallShape, [Next]_poolVars PROVE CallShape'
  OBVIOUS
<1>0. w \in WorkerCalls /\ r \in RendererCalls
  BY DEF TypeOK
<1>1. CASE BeginWriteCall
  BY <1>1, <1>0, SlotFacts
  DEF BeginWriteCall, WIdle, WorkerCalls, CallShape
<1>2. ASSUME NEW g \in Generations, NEW v \in BOOLEAN, PublishCall(audio[w.slot].from, g, v) PROVE CallShape'
  BY <1>2, <1>0, SlotFacts
  DEF PublishCall, WIdle, WorkerCalls, CallShape
<1>3. CASE CancelCall
  BY <1>3, <1>0, SlotFacts
  DEF CancelCall, WIdle, WorkerCalls, CallShape
<1>4. ASSUME NEW g \in Generations, DiscardCall(g) PROVE CallShape'
  BY <1>4, <1>0, SlotFacts
  DEF DiscardCall, WIdle, WorkerCalls, CallShape
<1>5. CASE ReadyCountCall
  BY <1>5, <1>0, SlotFacts
  DEF ReadyCountCall, WIdle, WorkerCalls, CallShape
<1>6. CASE BeginWriteCas
  <2>1. w.at \in Nat /\ nextWrite \in Nat
    BY <1>0, SlotFacts DEF WorkerCalls, TypeOK
  <2>2. (nextWrite + w.at) % ChunkCount \in Slots
    BY <2>1, ModuloSlot
  <2>3. CASE w' = [w EXCEPT !.pc = "clear", !.slot = (nextWrite + w.at) % ChunkCount]
    BY <1>6, <1>0, <2>2, <2>3 DEF BeginWriteCas, WorkerCalls, CallShape
  <2>4. CASE w' = [w EXCEPT !.at = @ + 1]
    BY <1>6, <1>0, <2>4 DEF BeginWriteCas, WorkerCalls, CallShape
  <2>5. CASE w' = WIdle(NoSlot, 0)
    BY <1>6, <2>5 DEF BeginWriteCas, WIdle, CallShape
  <2> QED
    BY <1>6, <2>3, <2>4, <2>5 DEF BeginWriteCas
<1>7. CASE BeginWriteClear
  BY <1>7, <1>0, SlotFacts
  DEF BeginWriteClear, WIdle, WorkerCalls, CallShape
<1>8. CASE PublishStart
  BY <1>8, <1>0, SlotFacts
  DEF PublishStart, WIdle, WorkerCalls, CallShape
<1>9. CASE PublishGeneration
  BY <1>9, <1>0, SlotFacts
  DEF PublishGeneration, WIdle, WorkerCalls, CallShape
<1>10. CASE PublishCount
  BY <1>10, <1>0, SlotFacts
  DEF PublishCount, WIdle, WorkerCalls, CallShape
<1>11. CASE PublishAdd
  BY <1>11, <1>0, SlotFacts
  DEF PublishAdd, WIdle, WorkerCalls, CallShape
<1>12. CASE PublishReady
  BY <1>12, <1>0, SlotFacts
  DEF PublishReady, WIdle, WorkerCalls, CallShape
<1>13. CASE Cancel
  BY <1>13, <1>0, SlotFacts
  DEF Cancel, WIdle, WorkerCalls, CallShape
<1>14. CASE DiscardCas
  BY <1>14, <1>0, SlotFacts, ScanShape
  DEF DiscardCas, Discardable, WIdle, WorkerCalls, CallShape
<1>15. CASE DiscardCheck
  BY <1>15, <1>0, SlotFacts, ScanShape
  DEF DiscardCheck, Stale, WIdle, WorkerCalls, CallShape
<1>16. CASE DiscardSub
  BY <1>16, <1>0, SlotFacts, ScanShape
  DEF DiscardSub, WIdle, WorkerCalls, CallShape
<1>17. CASE ReadyCountLoad
  BY <1>17, <1>0, SlotFacts
  DEF ReadyCountLoad, WIdle, WorkerCalls, CallShape
<1>18. ASSUME NEW f \in Starts, NEW n \in 1 .. MaxFrames, FillAudio(f, n) PROVE CallShape'
  BY <1>18, <1>0, SlotFacts
  DEF FillAudio, CallShape
<1>19. ASSUME NEW g \in Generations, AcquireCall(g) PROVE CallShape'
  BY <1>19, <1>0, SlotFacts
  DEF AcquireCall, RIdle, RendererCalls, CallShape
<1>20. ASSUME NEW k \in leases, ReleaseCall(k) PROVE CallShape'
  BY <1>20, <1>0, SlotFacts
  DEF ReleaseCall, RIdle, RendererCalls, CallShape
<1>21. CASE AcquireCas
  BY <1>21, <1>0, SlotFacts, ScanShape
  DEF AcquireCas, RIdle, RendererCalls, CallShape
<1>22. CASE AcquireCheck
  BY <1>22, <1>0, SlotFacts, ScanShape
  DEF AcquireCheck, RIdle, RendererCalls, CallShape
<1>23. CASE ReleaseCas
  BY <1>23, <1>0, SlotFacts
  DEF ReleaseCas, RIdle, RendererCalls, CallShape
<1>24. CASE ReleaseSub
  BY <1>24, <1>0, SlotFacts
  DEF ReleaseSub, RIdle, RendererCalls, CallShape
<1>25. CASE RangeState
  BY <1>25, <1>0, SlotFacts, ScanShape
  DEF RangeState, RIdle, RendererCalls, CallShape
<1>26. CASE RangeGen
  BY <1>26, <1>0, SlotFacts
  DEF RangeGen, RIdle, RendererCalls, CallShape
<1>27. CASE RangeStart
  BY <1>27, <1>0, SlotFacts
  DEF RangeStart, RIdle, RendererCalls, CallShape
<1>28. CASE RangeCount
  BY <1>28, <1>0, SlotFacts
  DEF RangeCount, RIdle, RendererCalls, CallShape
<1>29. CASE RangeCheck
  BY <1>29, <1>0, SlotFacts, ScanShape
  DEF RangeCheck, RIdle, RendererCalls, CallShape
<1>30. CASE UNCHANGED poolVars
  BY <1>30 DEF poolVars, CallShape
<1>31. ASSUME NEW g \in Generations, RangeCall(g) PROVE CallShape'
  BY <1>31, <1>0, SlotFacts
  DEF RangeCall, RIdle, RendererCalls, CallShape
<1> QED
  BY <1>1, <1>2, <1>3, <1>4, <1>5, <1>6, <1>7, <1>8, <1>9, <1>10, <1>11, <1>12,
     <1>13, <1>14, <1>15, <1>16, <1>17, <1>18, <1>19, <1>20, <1>21, <1>22, <1>23,
     <1>24, <1>25, <1>26, <1>27, <1>28, <1>29, <1>30, <1>31
  DEF Next, WorkerCall, WorkerStep, RendererCall, RendererStep

SlotExclusive(i) ==
  /\ (state[i] = "Writing") <=> Writes(i)
  /\ (state[i] = "Reading") <=> (Discards(i) \/ Probes(i) \/ Leases(i))
  /\ ~ (Discards(i) /\ (Probes(i) \/ Leases(i)))
  /\ ~ (Probes(i) /\ Leases(i))

(* No step breaks the exclusive use of a slot.                               *)
LEMMA ExclusiveStep == SlotInv /\ [Next]_poolVars => ExclusiveAudio'
<1> SUFFICES ASSUME SlotInv, [Next]_poolVars, NEW i \in Slots PROVE SlotExclusive(i)'
  BY DEF ExclusiveAudio, SlotExclusive
<1>0. w \in WorkerCalls /\ r \in RendererCalls /\ state \in [Slots -> SlotState] /\ i # NoSlot
  BY SlotFacts DEF SlotInv, TypeOK
<1>a. SlotExclusive(i)
  BY DEF SlotInv, ExclusiveAudio, SlotExclusive
<1>b. CallShape /\ leases \subseteq Slots
  BY DEF SlotInv, TypeOK
<1> USE DEF SlotExclusive, Writes, Discards, Probes, Leases
<1>1. CASE BeginWriteCall
  BY <1>1, <1>0, <1>a, <1>b
  DEF BeginWriteCall, WIdle, WorkerCalls, CallShape, shared
<1>2. ASSUME NEW g \in Generations, NEW v \in BOOLEAN, PublishCall(audio[w.slot].from, g, v) PROVE SlotExclusive(i)'
  BY <1>2, <1>0, <1>a, <1>b
  DEF PublishCall, WIdle, WorkerCalls, CallShape, shared
<1>3. CASE CancelCall
  BY <1>3, <1>0, <1>a, <1>b
  DEF CancelCall, WIdle, WorkerCalls, CallShape, shared
<1>4. ASSUME NEW g \in Generations, DiscardCall(g) PROVE SlotExclusive(i)'
  BY <1>4, <1>0, <1>a, <1>b
  DEF DiscardCall, WIdle, WorkerCalls, CallShape, shared
<1>5. CASE ReadyCountCall
  BY <1>5, <1>0, <1>a, <1>b
  DEF ReadyCountCall, WIdle, WorkerCalls, CallShape, shared
<1>6. CASE BeginWriteCas
  <2>1. PICK j \in Nat : \/ /\ state[j] = "Free" /\ state' = [state EXCEPT ![j] = "Writing"]
                           /\ w' = [w EXCEPT !.pc = "clear", !.slot = j]
                        \/ /\ UNCHANGED state
                           /\ w' = [w EXCEPT !.at = @ + 1] \/ w' = WIdle(NoSlot, 0)
    <3>1. w.at \in Nat /\ nextWrite \in Nat
      BY <1>0, SlotFacts DEF SlotInv, TypeOK, WorkerCalls
    <3>2. (nextWrite + w.at) % ChunkCount \in Nat
      BY <3>1, ModuloSlot, SlotFacts
    <3> QED
      BY <1>6, <3>2 DEF BeginWriteCas
  <2>2. w.pc = "reserve" /\ w.slot = NoSlot /\ UNCHANGED <<leases, r>>
    BY <1>6, <1>b DEF BeginWriteCas, CallShape
  <2>3. CASE state[j] = "Free" /\ state' = [state EXCEPT ![j] = "Writing"]
             /\ w' = [w EXCEPT !.pc = "clear", !.slot = j]
    <3>1. w'.pc = "clear" /\ w'.slot = j
      BY <2>3, <1>0 DEF WorkerCalls
    <3>2. CASE i = j
      <4>1. state[i] = "Free" /\ state'[i] = "Writing"
        BY <2>3, <3>2, <1>0
      <4> QED
        BY <4>1, <3>1, <3>2, <2>2, <1>a
    <3>3. CASE i # j
      <4>1. state'[i] = state[i]
        BY <2>3, <3>3, <1>0
      <4> QED
        BY <4>1, <3>1, <3>3, <2>2, <1>a, <1>0
    <3> QED
      BY <3>2, <3>3
  <2>4. CASE UNCHANGED state /\ (w' = [w EXCEPT !.at = @ + 1] \/ w' = WIdle(NoSlot, 0))
    BY <2>2, <2>4, <1>0, <1>a DEF WIdle, WorkerCalls
  <2> QED
    BY <2>1, <2>3, <2>4
<1>7. CASE BeginWriteClear
  BY <1>7, <1>0, <1>a, <1>b
  DEF BeginWriteClear, WIdle, WorkerCalls, CallShape, shared
<1>8. CASE PublishStart
  BY <1>8, <1>0, <1>a, <1>b
  DEF PublishStart, WIdle, WorkerCalls, CallShape, shared
<1>9. CASE PublishGeneration
  BY <1>9, <1>0, <1>a, <1>b
  DEF PublishGeneration, WIdle, WorkerCalls, CallShape, shared
<1>10. CASE PublishCount
  BY <1>10, <1>0, <1>a, <1>b
  DEF PublishCount, WIdle, WorkerCalls, CallShape, shared
<1>11. CASE PublishAdd
  BY <1>11, <1>0, <1>a, <1>b
  DEF PublishAdd, WIdle, WorkerCalls, CallShape, shared
<1>12. CASE PublishReady
  BY <1>12, <1>0, <1>a, <1>b
  DEF PublishReady, WIdle, WorkerCalls, CallShape, shared
<1>13. CASE Cancel
  BY <1>13, <1>0, <1>a, <1>b
  DEF Cancel, WIdle, WorkerCalls, CallShape, shared
<1>14. CASE DiscardCas
  BY <1>14, <1>0, <1>a, <1>b, ScanShape
  DEF DiscardCas, Discardable, WIdle, WorkerCalls, CallShape, shared
<1>15. CASE DiscardCheck
  BY <1>15, <1>0, <1>a, <1>b, ScanShape
  DEF DiscardCheck, Stale, WIdle, WorkerCalls, CallShape, shared
<1>16. CASE DiscardSub
  BY <1>16, <1>0, <1>a, <1>b, ScanShape
  DEF DiscardSub, WIdle, WorkerCalls, CallShape, shared
<1>17. CASE ReadyCountLoad
  BY <1>17, <1>0, <1>a, <1>b
  DEF ReadyCountLoad, WIdle, WorkerCalls, CallShape, shared
<1>18. ASSUME NEW f \in Starts, NEW n \in 1 .. MaxFrames, FillAudio(f, n) PROVE SlotExclusive(i)'
  BY <1>18, <1>0, <1>a, <1>b
  DEF FillAudio, fields
<1>19. ASSUME NEW g \in Generations, AcquireCall(g) PROVE SlotExclusive(i)'
  BY <1>19, <1>0, <1>a, <1>b
  DEF AcquireCall, RIdle, RendererCalls, CallShape, shared
<1>20. ASSUME NEW k \in leases, ReleaseCall(k) PROVE SlotExclusive(i)'
  BY <1>20, <1>0, <1>a, <1>b
  DEF ReleaseCall, RIdle, RendererCalls, CallShape, shared
<1>21. CASE AcquireCas
  BY <1>21, <1>0, <1>a, <1>b, ScanShape
  DEF AcquireCas, RIdle, RendererCalls, CallShape, shared
<1>22. CASE AcquireCheck
  BY <1>22, <1>0, <1>a, <1>b, ScanShape
  DEF AcquireCheck, RIdle, RendererCalls, CallShape, shared
<1>23. CASE ReleaseCas
  BY <1>23, <1>0, <1>a, <1>b
  DEF ReleaseCas, RIdle, RendererCalls, CallShape, shared
<1>24. CASE ReleaseSub
  BY <1>24, <1>0, <1>a, <1>b
  DEF ReleaseSub, RIdle, RendererCalls, CallShape, shared
<1>25. CASE RangeState
  BY <1>25, <1>0, <1>a, <1>b, ScanShape
  DEF RangeState, RIdle, RendererCalls, CallShape, shared
<1>26. CASE RangeGen
  BY <1>26, <1>0, <1>a, <1>b
  DEF RangeGen, RIdle, RendererCalls, CallShape, shared
<1>27. CASE RangeStart
  BY <1>27, <1>0, <1>a, <1>b
  DEF RangeStart, RIdle, RendererCalls, CallShape, shared
<1>28. CASE RangeCount
  BY <1>28, <1>0, <1>a, <1>b
  DEF RangeCount, RIdle, RendererCalls, CallShape, shared
<1>29. CASE RangeCheck
  BY <1>29, <1>0, <1>a, <1>b, ScanShape
  DEF RangeCheck, RIdle, RendererCalls, CallShape, shared
<1>30. CASE UNCHANGED poolVars
  BY <1>30, <1>a DEF poolVars, SlotState
<1>31. ASSUME NEW g \in Generations, RangeCall(g) PROVE SlotExclusive(i)'
  BY <1>31, <1>0, <1>a, <1>b
  DEF RangeCall, RIdle, RendererCalls, CallShape, shared
<1> QED
  BY <1>1, <1>2, <1>3, <1>4, <1>5, <1>6, <1>7, <1>8, <1>9, <1>10, <1>11, <1>12,
     <1>13, <1>14, <1>15, <1>16, <1>17, <1>18, <1>19, <1>20, <1>21, <1>22, <1>23,
     <1>24, <1>25, <1>26, <1>27, <1>28, <1>29, <1>30, <1>31
  DEF Next, WorkerCall, WorkerStep, RendererCall, RendererStep

SlotWhole(i) == state[i] \in {"Ready", "Reading"} =>
                  start[i] = audio[i].from /\ count[i] = audio[i].frames

(* A publication in progress and the published chunks keep their metadata whole. *)
LEMMA WholeStep == PoolInv /\ [Next]_poolVars => PublishShape' /\ PublishedWhole'
<1> SUFFICES ASSUME PoolInv, [Next]_poolVars, NEW i \in Slots
             PROVE  PublishShape' /\ SlotWhole(i)'
  BY SlotFacts DEF PublishedWhole, SlotWhole
<1>0. /\ w \in WorkerCalls /\ r \in RendererCalls /\ i # NoSlot
      /\ state \in [Slots -> SlotState] /\ start \in [Slots -> Starts]
      /\ count \in [Slots -> FrameCounts] /\ audio \in [Slots -> [frames : FrameCounts, from : Starts]]
  BY SlotFacts DEF PoolInv, SlotInv, TypeOK
<1>a. PublishShape /\ SlotWhole(i) /\ CallShape
  BY DEF PoolInv, SlotInv, PublishedWhole, SlotWhole
<1>b. /\ w.slot = i => state[i] = "Writing"
      /\ w.pc = "discardCheck" /\ w.at = i => state[i] = "Reading"
      /\ r.pc = "acquireCheck" /\ r.at = i => state[i] = "Reading"
  BY DEF PoolInv, SlotInv, ExclusiveAudio, Writes, Discards, Probes
<1>1. CASE BeginWriteCall
  BY <1>1, <1>0, <1>a, <1>b
  DEF BeginWriteCall, WIdle, WorkerCalls, CallShape, PublishShape, SlotWhole, shared, fields
<1>2. ASSUME NEW g \in Generations, NEW v \in BOOLEAN, PublishCall(audio[w.slot].from, g, v) PROVE PublishShape' /\ SlotWhole(i)'
  BY <1>2, <1>0, <1>a, <1>b
  DEF PublishCall, WIdle, WorkerCalls, CallShape, PublishShape, SlotWhole, shared, fields
<1>3. CASE CancelCall
  BY <1>3, <1>0, <1>a, <1>b
  DEF CancelCall, WIdle, WorkerCalls, CallShape, PublishShape, SlotWhole, shared, fields
<1>4. ASSUME NEW g \in Generations, DiscardCall(g) PROVE PublishShape' /\ SlotWhole(i)'
  BY <1>4, <1>0, <1>a, <1>b
  DEF DiscardCall, WIdle, WorkerCalls, CallShape, PublishShape, SlotWhole, shared, fields
<1>5. CASE ReadyCountCall
  BY <1>5, <1>0, <1>a, <1>b
  DEF ReadyCountCall, WIdle, WorkerCalls, CallShape, PublishShape, SlotWhole, shared, fields
<1>6. CASE BeginWriteCas
  <2>1. w.pc = "reserve" /\ UNCHANGED <<start, count, audio>>
    BY <1>6 DEF BeginWriteCas, fields
  <2>2. w'.pc \in {"clear", "reserve", "idle"}
    <3>1. PICK j : \/ w' = [w EXCEPT !.pc = "clear", !.slot = j]
                   \/ w' = [w EXCEPT !.at = @ + 1] \/ w' = WIdle(NoSlot, 0)
      BY <1>6 DEF BeginWriteCas
    <3>2. CASE w' = [w EXCEPT !.pc = "clear", !.slot = j]
      BY <3>2, <1>0 DEF WorkerCalls
    <3>3. CASE w' = [w EXCEPT !.at = @ + 1]
      BY <2>1, <3>3, <1>0 DEF WorkerCalls
    <3>4. CASE w' = WIdle(NoSlot, 0)
      BY <3>4 DEF WIdle
    <3> QED
      BY <3>1, <3>2, <3>3, <3>4
  <2>3. state'[i] \in {"Ready", "Reading"} => state[i] \in {"Ready", "Reading"}
    BY <1>6, <1>0 DEF BeginWriteCas
  <2> QED
    BY <2>1, <2>2, <2>3, <1>a DEF PublishShape, SlotWhole
<1>7. CASE BeginWriteClear
  BY <1>7, <1>0, <1>a, <1>b
  DEF BeginWriteClear, WIdle, WorkerCalls, CallShape, PublishShape, SlotWhole, shared, fields
<1>8. CASE PublishStart
  BY <1>8, <1>0, <1>a, <1>b
  DEF PublishStart, WIdle, WorkerCalls, CallShape, PublishShape, SlotWhole, shared, fields
<1>9. CASE PublishGeneration
  <2>1. w.pc = "pubGen" /\ w' = [w EXCEPT !.pc = "pubCount"]
        /\ UNCHANGED <<state, start, count, audio>> /\ gen' = [gen EXCEPT ![w.slot] = w.gen]
    BY <1>9 DEF PublishGeneration
  <2>2. w'.pc = "pubCount" /\ w'.slot = w.slot /\ w'.gen = w.gen /\ w'.from = w.from
    BY <2>1, <1>0 DEF WorkerCalls
  <2>3. w.slot \in Slots
    BY <2>1, <1>a DEF CallShape
  <2>4. gen \in [Slots -> Generations]
    BY DEF PoolInv, SlotInv, TypeOK
  <2>5. gen'[w.slot] = w.gen
    BY <2>1, <2>3, <2>4
  <2>6. PublishShape'
    BY <2>1, <2>2, <2>5, <1>a DEF PublishShape
  <2> QED
    BY <2>1, <2>6, <1>a DEF SlotWhole
<1>10. CASE PublishCount
  BY <1>10, <1>0, <1>a, <1>b
  DEF PublishCount, WIdle, WorkerCalls, CallShape, PublishShape, SlotWhole, shared, fields
<1>11. CASE PublishAdd
  BY <1>11, <1>0, <1>a, <1>b
  DEF PublishAdd, WIdle, WorkerCalls, CallShape, PublishShape, SlotWhole, shared, fields
<1>12. CASE PublishReady
  BY <1>12, <1>0, <1>a, <1>b
  DEF PublishReady, WIdle, WorkerCalls, CallShape, PublishShape, SlotWhole, shared, fields
<1>13. CASE Cancel
  BY <1>13, <1>0, <1>a, <1>b
  DEF Cancel, WIdle, WorkerCalls, CallShape, PublishShape, SlotWhole, shared, fields
<1>14. CASE DiscardCas
  BY <1>14, <1>0, <1>a, <1>b, ScanShape
  DEF DiscardCas, Discardable, WIdle, WorkerCalls, CallShape, PublishShape, SlotWhole, shared, fields
<1>15. CASE DiscardCheck
  BY <1>15, <1>0, <1>a, <1>b, ScanShape
  DEF DiscardCheck, Stale, WIdle, WorkerCalls, CallShape, PublishShape, SlotWhole, shared, fields
<1>16. CASE DiscardSub
  BY <1>16, <1>0, <1>a, <1>b, ScanShape
  DEF DiscardSub, WIdle, WorkerCalls, CallShape, PublishShape, SlotWhole, shared, fields
<1>17. CASE ReadyCountLoad
  BY <1>17, <1>0, <1>a, <1>b
  DEF ReadyCountLoad, WIdle, WorkerCalls, CallShape, PublishShape, SlotWhole, shared, fields
<1>18. ASSUME NEW f \in Starts, NEW n \in 1 .. MaxFrames, FillAudio(f, n) PROVE PublishShape' /\ SlotWhole(i)'
  BY <1>18, <1>0, <1>a, <1>b
  DEF FillAudio, PublishShape, SlotWhole, fields
<1>19. ASSUME NEW g \in Generations, AcquireCall(g) PROVE PublishShape' /\ SlotWhole(i)'
  BY <1>19, <1>0, <1>a, <1>b
  DEF AcquireCall, PublishShape, SlotWhole, shared, fields
<1>20. ASSUME NEW k \in leases, ReleaseCall(k) PROVE PublishShape' /\ SlotWhole(i)'
  BY <1>20, <1>0, <1>a, <1>b
  DEF ReleaseCall, PublishShape, SlotWhole, shared, fields
<1>21. CASE AcquireCas
  BY <1>21, <1>0, <1>a, <1>b, ScanShape
  DEF AcquireCas, PublishShape, SlotWhole, shared, fields
<1>22. CASE AcquireCheck
  BY <1>22, <1>0, <1>a, <1>b, ScanShape
  DEF AcquireCheck, PublishShape, SlotWhole, shared, fields
<1>23. CASE ReleaseCas
  BY <1>23, <1>0, <1>a, <1>b
  DEF ReleaseCas, PublishShape, SlotWhole, shared, fields
<1>24. CASE ReleaseSub
  BY <1>24, <1>0, <1>a, <1>b
  DEF ReleaseSub, PublishShape, SlotWhole, shared, fields
<1>25. CASE RangeState
  BY <1>25, <1>0, <1>a, <1>b, ScanShape
  DEF RangeState, PublishShape, SlotWhole, shared, fields
<1>26. CASE RangeGen
  BY <1>26, <1>0, <1>a, <1>b
  DEF RangeGen, PublishShape, SlotWhole, shared, fields
<1>27. CASE RangeStart
  BY <1>27, <1>0, <1>a, <1>b
  DEF RangeStart, PublishShape, SlotWhole, shared, fields
<1>28. CASE RangeCount
  BY <1>28, <1>0, <1>a, <1>b
  DEF RangeCount, PublishShape, SlotWhole, shared, fields
<1>29. CASE RangeCheck
  BY <1>29, <1>0, <1>a, <1>b, ScanShape
  DEF RangeCheck, PublishShape, SlotWhole, shared, fields
<1>30. CASE UNCHANGED poolVars
  BY <1>30, <1>a DEF poolVars, PublishShape, SlotWhole
<1>31. ASSUME NEW g \in Generations, RangeCall(g) PROVE PublishShape' /\ SlotWhole(i)'
  BY <1>31, <1>0, <1>a, <1>b
  DEF RangeCall, PublishShape, SlotWhole, shared, fields
<1> QED
  BY <1>1, <1>2, <1>3, <1>4, <1>5, <1>6, <1>7, <1>8, <1>9, <1>10, <1>11, <1>12,
     <1>13, <1>14, <1>15, <1>16, <1>17, <1>18, <1>19, <1>20, <1>21, <1>22, <1>23,
     <1>24, <1>25, <1>26, <1>27, <1>28, <1>29, <1>30, <1>31
  DEF Next, WorkerCall, WorkerStep, RendererCall, RendererStep

----------------------------------------------------------------------------
(* The pool starts in the invariant.                                         *)
LEMMA PoolInitInv == PoolInit => PoolInv
<1> SUFFICES ASSUME PoolInit PROVE PoolInv
  OBVIOUS
<1>1. TypeOK
  <2>1. w \in WorkerCalls /\ r \in RendererCalls
    BY SlotFacts DEF PoolInit, WIdle, RIdle, WorkerCalls, RendererCalls, WorkerPcs, RendererPcs
  <2> QED
    BY <2>1, SlotFacts DEF PoolInit, TypeOK, NoAudio, NoRange, SlotState
<1>2. CallShape /\ PublishShape
  BY DEF PoolInit, CallShape, PublishShape, WIdle, RIdle
<1>3. ExclusiveAudio
  BY SlotFacts DEF PoolInit, ExclusiveAudio, Writes, Discards, Probes, Leases, WIdle, RIdle
<1>4. PublishedWhole
  BY DEF PoolInit, PublishedWhole
<1> QED
  BY <1>1, <1>2, <1>3, <1>4 DEF PoolInv, SlotInv

(* The pool stays in the invariant.                                          *)
THEOREM PoolInvariant == Spec => []PoolInv
<1>1. PoolInit => PoolInv
  BY PoolInitInv
<1>2. PoolInv /\ [Next]_poolVars => PoolInv'
  BY TypeStep, ShapeStep, ExclusiveStep, WholeStep DEF PoolInv, SlotInv
<1> QED
  BY <1>1, <1>2, PTL DEF Spec

(* Types hold for every number of slots and every bound.                     *)
THEOREM TypeCorrect == Spec => []TypeOK
<1>1. PoolInv => TypeOK
  BY DEF PoolInv, SlotInv
<1> QED
  BY <1>1, PoolInvariant, PTL

(* However the calls of the two threads interleave, no audio block is ever    *)
(* touched by both: try_begin_write, publish, discard, try_acquire_ready and  *)
(* release hand each slot on through its state.                               *)
THEOREM Exclusive == Spec => []ExclusiveAudio
<1>1. PoolInv => ExclusiveAudio
  BY DEF PoolInv, SlotInv
<1> QED
  BY <1>1, PoolInvariant, PTL

(* Every chunk that can be acquired carries the metadata of its own audio,    *)
(* although publish stores the fields one by one.                             *)
THEOREM Whole == Spec => []PublishedWhole
<1>1. PoolInv => PublishedWhole
  BY DEF PoolInv
<1> QED
  BY <1>1, PoolInvariant, PTL

Frozen(i) == /\ audio'[i] = audio[i] /\ gen'[i] = gen[i]
             /\ start'[i] = start[i] /\ count'[i] = count[i]

(* No step writes to another slot than the one the worker has reserved.      *)
LEMMA FrozenStep == PoolInv /\ [Next]_poolVars => \A i \in Slots : w.slot # i => Frozen(i)
<1> SUFFICES ASSUME PoolInv, [Next]_poolVars, NEW i \in Slots, w.slot # i PROVE Frozen(i)
  OBVIOUS
<1>0. i \in Slots
  OBVIOUS
<1>a. /\ w.slot # i
      /\ gen \in [Slots -> Generations] /\ start \in [Slots -> Starts]
      /\ count \in [Slots -> FrameCounts]
      /\ audio \in [Slots -> [frames : FrameCounts, from : Starts]]
  BY DEF PoolInv, SlotInv, TypeOK
<1>1. CASE BeginWriteCall
  BY <1>1, <1>0, <1>a
  DEF BeginWriteCall, Frozen, shared, fields
<1>2. ASSUME NEW g \in Generations, NEW v \in BOOLEAN, PublishCall(audio[w.slot].from, g, v) PROVE Frozen(i)
  BY <1>2, <1>0, <1>a
  DEF PublishCall, Frozen, shared, fields
<1>3. CASE CancelCall
  BY <1>3, <1>0, <1>a
  DEF CancelCall, Frozen, shared, fields
<1>4. ASSUME NEW g \in Generations, DiscardCall(g) PROVE Frozen(i)
  BY <1>4, <1>0, <1>a
  DEF DiscardCall, Frozen, shared, fields
<1>5. CASE ReadyCountCall
  BY <1>5, <1>0, <1>a
  DEF ReadyCountCall, Frozen, shared, fields
<1>6. CASE BeginWriteCas
  BY <1>6, <1>0, <1>a
  DEF BeginWriteCas, Frozen, shared, fields
<1>7. CASE BeginWriteClear
  BY <1>7, <1>0, <1>a
  DEF BeginWriteClear, Frozen, shared, fields
<1>8. CASE PublishStart
  BY <1>8, <1>0, <1>a
  DEF PublishStart, Frozen, shared, fields
<1>9. CASE PublishGeneration
  BY <1>9, <1>0, <1>a
  DEF PublishGeneration, Frozen, shared, fields
<1>10. CASE PublishCount
  BY <1>10, <1>0, <1>a
  DEF PublishCount, Frozen, shared, fields
<1>11. CASE PublishAdd
  BY <1>11, <1>0, <1>a
  DEF PublishAdd, Frozen, shared, fields
<1>12. CASE PublishReady
  BY <1>12, <1>0, <1>a
  DEF PublishReady, Frozen, shared, fields
<1>13. CASE Cancel
  BY <1>13, <1>0, <1>a
  DEF Cancel, Frozen, shared, fields
<1>14. CASE DiscardCas
  BY <1>14, <1>0, <1>a, ScanShape
  DEF DiscardCas, Discardable, Frozen, shared, fields
<1>15. CASE DiscardCheck
  BY <1>15, <1>0, <1>a, ScanShape
  DEF DiscardCheck, Stale, Frozen, shared, fields
<1>16. CASE DiscardSub
  BY <1>16, <1>0, <1>a, ScanShape
  DEF DiscardSub, Frozen, shared, fields
<1>17. CASE ReadyCountLoad
  BY <1>17, <1>0, <1>a
  DEF ReadyCountLoad, Frozen, shared, fields
<1>18. ASSUME NEW f \in Starts, NEW n \in 1 .. MaxFrames, FillAudio(f, n) PROVE Frozen(i)
  BY <1>18, <1>0, <1>a
  DEF FillAudio, Frozen, fields
<1>19. ASSUME NEW g \in Generations, AcquireCall(g) PROVE Frozen(i)
  BY <1>19, <1>0, <1>a
  DEF AcquireCall, Frozen, shared, fields
<1>20. ASSUME NEW k \in leases, ReleaseCall(k) PROVE Frozen(i)
  BY <1>20, <1>0, <1>a
  DEF ReleaseCall, Frozen, shared, fields
<1>21. CASE AcquireCas
  BY <1>21, <1>0, <1>a, ScanShape
  DEF AcquireCas, Frozen, shared, fields
<1>22. CASE AcquireCheck
  BY <1>22, <1>0, <1>a, ScanShape
  DEF AcquireCheck, Frozen, shared, fields
<1>23. CASE ReleaseCas
  BY <1>23, <1>0, <1>a
  DEF ReleaseCas, Frozen, shared, fields
<1>24. CASE ReleaseSub
  BY <1>24, <1>0, <1>a
  DEF ReleaseSub, Frozen, shared, fields
<1>25. CASE RangeState
  BY <1>25, <1>0, <1>a, ScanShape
  DEF RangeState, Frozen, shared, fields
<1>26. CASE RangeGen
  BY <1>26, <1>0, <1>a
  DEF RangeGen, Frozen, shared, fields
<1>27. CASE RangeStart
  BY <1>27, <1>0, <1>a
  DEF RangeStart, Frozen, shared, fields
<1>28. CASE RangeCount
  BY <1>28, <1>0, <1>a
  DEF RangeCount, Frozen, shared, fields
<1>29. CASE RangeCheck
  BY <1>29, <1>0, <1>a, ScanShape
  DEF RangeCheck, Frozen, shared, fields
<1>30. CASE UNCHANGED poolVars
  BY <1>30 DEF poolVars, Frozen
<1>31. ASSUME NEW g \in Generations, RangeCall(g) PROVE Frozen(i)
  BY <1>31, <1>0, <1>a
  DEF RangeCall, Frozen, shared, fields
<1> QED
  BY <1>1, <1>2, <1>3, <1>4, <1>5, <1>6, <1>7, <1>8, <1>9, <1>10, <1>11, <1>12,
     <1>13, <1>14, <1>15, <1>16, <1>17, <1>18, <1>19, <1>20, <1>21, <1>22, <1>23,
     <1>24, <1>25, <1>26, <1>27, <1>28, <1>29, <1>30, <1>31
  DEF Next, WorkerCall, WorkerStep, RendererCall, RendererStep

(* While the renderer holds a lease, nothing the worker does changes the chunk: *)
(* neither a discard after a seek nor a write reaches it before its release.    *)
THEOREM LeasesFrozen == Spec => LeaseFrozen
<1> DEFINE Kept == \A i \in leases : i \in leases' =>
                     /\ state'[i] = "Reading" /\ audio'[i] = audio[i]
                     /\ gen'[i] = gen[i] /\ start'[i] = start[i]
<1>1. PoolInv /\ PoolInv' /\ [Next]_poolVars => Kept
  <2> SUFFICES ASSUME PoolInv, PoolInv', [Next]_poolVars, NEW i \in leases, i \in leases'
               PROVE  state'[i] = "Reading" /\ Frozen(i)
    BY DEF Frozen
  <2>1. i \in Slots
    BY DEF PoolInv, SlotInv, TypeOK
  <2>2. state'[i] = "Reading"
    BY <2>1 DEF PoolInv, SlotInv, ExclusiveAudio, Leases
  <2>3. w.slot # i
    BY <2>1 DEF PoolInv, SlotInv, ExclusiveAudio, Writes, Leases
  <2> QED
    BY <2>1, <2>2, <2>3, FrozenStep
<1> QED
  BY <1>1, PoolInvariant, PTL DEF Spec, LeaseFrozen

Resides(i) == state[i] \in {"Ready", "Reading"}

(* A chunk appears by the last step of its publication only, and goes only   *)
(* when a discard finds it stale or the renderer releases it.                *)
LEMMA ResidenceStep ==
  ASSUME PoolInv, [Next]_poolVars, NEW i \in Slots
  PROVE  /\ Resides(i)' /\ ~ Resides(i) => PublishReady /\ i = w.slot
         /\ Resides(i) /\ ~ Resides(i)' =>
              (DiscardCheck /\ i = w.at /\ Stale(i)) \/ (ReleaseCas /\ i = r.at)
<1>0. /\ state \in [Slots -> SlotState] /\ w \in WorkerCalls /\ r \in RendererCalls
      /\ CallShape /\ ExclusiveAudio /\ leases \subseteq Slots
  BY DEF PoolInv, SlotInv, TypeOK
<1>1. CASE UNCHANGED state
  BY <1>1 DEF Resides
<1>2. CASE BeginWriteCas
  BY <1>2, <1>0 DEF BeginWriteCas, Resides
<1>3. CASE PublishReady
  BY <1>3, <1>0 DEF PublishReady, Resides
<1>4. CASE Cancel
  BY <1>4, <1>0 DEF Cancel, Resides
<1>5. CASE DiscardCas
  BY <1>5, <1>0 DEF DiscardCas, Discardable, Resides
<1>6. CASE DiscardCheck
  <2>1. w.at \in Slots /\ state[w.at] = "Reading"
    BY <1>6, <1>0 DEF DiscardCheck, ExclusiveAudio, Discards, WorkerCalls
  <2>2. CASE Stale(w.at) /\ state' = [state EXCEPT ![w.at] = "Free"]
    <3>1. i # w.at => (Resides(i)' <=> Resides(i))
      BY <1>0, <2>1, <2>2 DEF Resides
    <3>2. i = w.at => ~ Resides(i)' /\ Stale(i)
      BY <1>0, <2>1, <2>2 DEF Resides
    <3> QED
      BY <3>1, <3>2, <1>6
  <2>3. CASE state' = [state EXCEPT ![w.at] = "Ready"]
    BY <1>0, <2>1, <2>3 DEF Resides
  <2> QED
    BY <1>6, <2>2, <2>3 DEF DiscardCheck
<1>7. CASE AcquireCas
  BY <1>7, <1>0 DEF AcquireCas, Resides
<1>8. CASE AcquireCheck
  <2>1. r.at \in Slots /\ state[r.at] = "Reading"
    BY <1>8, <1>0 DEF AcquireCheck, ExclusiveAudio, Probes, RendererCalls
  <2> QED
    BY <1>8, <1>0, <2>1 DEF AcquireCheck, Resides
<1>9. CASE ReleaseCas
  BY <1>9, <1>0 DEF ReleaseCas, Resides
<1>10. \/ UNCHANGED state \/ BeginWriteCas \/ PublishReady \/ Cancel \/ DiscardCas
       \/ DiscardCheck \/ AcquireCas \/ AcquireCheck \/ ReleaseCas
  BY DEF Next, WorkerCall, WorkerStep, RendererCall, RendererStep, BeginWriteCall, FillAudio,
     PublishCall, CancelCall, DiscardCall, ReadyCountCall, BeginWriteClear, PublishStart,
     PublishGeneration, PublishCount, PublishAdd, DiscardSub, ReadyCountLoad, AcquireCall,
     ReleaseCall, RangeCall, ReleaseSub, RangeState, RangeGen, RangeStart, RangeCount, RangeCheck,
     shared, poolVars
<1> QED
  BY <1>1, <1>2, <1>3, <1>4, <1>5, <1>6, <1>7, <1>8, <1>9, <1>10
----------------------------------------------------------------------------
(* The pool implements the chunk store.  Seen from the store only four       *)
(* things of a slot matter; Same says that a step does not show in it.       *)
Same(i) == PhaseOf(i)' = PhaseOf(i) /\ ChunkOf(i)' = ChunkOf(i)
Kept(i) == /\ state'[i] = state[i] /\ (i \in leases' <=> i \in leases)
           /\ gen'[i] = gen[i] /\ start'[i] = start[i] /\ audio'[i] = audio[i]

(* What the store sees of a slot, before a step and after it.                *)
LEMMA PhaseFacts ==
  ASSUME NEW i \in Slots
  PROVE  /\ state[i] = "Free" => PhaseOf(i) = "Free" /\ ChunkOf(i) = NoChunkHere
         /\ state[i] = "Writing" => PhaseOf(i) = "Filling" /\ ChunkOf(i) = NoChunkHere
         /\ state[i] = "Ready" => PhaseOf(i) = "Ready"
         /\ state[i] = "Reading" => PhaseOf(i) = IF i \in leases THEN "Leased" ELSE "Ready"
         /\ state[i] \in {"Ready", "Reading"} =>
              ChunkOf(i) = [gen |-> gen[i], start |-> start[i], frames |-> audio[i].frames]
BY DEF PhaseOf, ChunkOf

LEMMA PhaseFactsAfter ==
  ASSUME NEW i \in Slots
  PROVE  /\ state'[i] = "Free" => PhaseOf(i)' = "Free" /\ ChunkOf(i)' = NoChunkHere
         /\ state'[i] = "Writing" => PhaseOf(i)' = "Filling" /\ ChunkOf(i)' = NoChunkHere
         /\ state'[i] = "Ready" => PhaseOf(i)' = "Ready"
         /\ state'[i] = "Reading" => PhaseOf(i)' = IF i \in leases' THEN "Leased" ELSE "Ready"
         /\ state'[i] \in {"Ready", "Reading"} =>
              ChunkOf(i)' = [gen |-> gen'[i], start |-> start'[i], frames |-> audio'[i].frames]
BY DEF PhaseOf, ChunkOf, NoChunkHere

(* A slot whose state, lease, metadata and audio stay looks the same.        *)
LEMMA KeptIsSame == ASSUME NEW i \in Slots, Kept(i) PROVE Same(i)
BY DEF Kept, Same, PhaseOf, ChunkOf

(* A slot that is being written shows none of its fields.                    *)
LEMMA HiddenIsSame ==
  ASSUME NEW i \in Slots, state[i] \in {"Free", "Writing"}, state'[i] = state[i] PROVE Same(i)
BY PhaseFacts, PhaseFactsAfter DEF Same

(* Nothing that the store sees changed.                                      *)
LEMMA AllSame == (\A i \in Slots : Same(i)) => UNCHANGED Abstract!storeVars
BY DEF Same, Abstract!storeVars

(* One slot changed.                                                         *)
LEMMA OneMoves ==
  ASSUME NEW c \in Slots, \A i \in Slots \ {c} : Same(i)
  PROVE  /\ [i \in Slots |-> PhaseOf(i)]' = [[i \in Slots |-> PhaseOf(i)] EXCEPT ![c] = PhaseOf(c)']
         /\ [i \in Slots |-> ChunkOf(i)]' = [[i \in Slots |-> ChunkOf(i)] EXCEPT ![c] = ChunkOf(c)']
         /\ ChunkOf(c)' = ChunkOf(c) => UNCHANGED [i \in Slots |-> ChunkOf(i)]
BY DEF Same

(* Every step of the two threads is one of the store's, or none of them.     *)
LEMMA StoreStep == PoolInv /\ [Next]_poolVars => [Abstract!StoreNext]_Abstract!storeVars
<1> SUFFICES ASSUME PoolInv, [Next]_poolVars
             PROVE  Abstract!StoreNext \/ UNCHANGED Abstract!storeVars
  OBVIOUS
<1> USE DEF Kept
<1>0. /\ state \in [Slots -> SlotState] /\ gen \in [Slots -> Generations]
      /\ start \in [Slots -> Starts] /\ audio \in [Slots -> [frames : FrameCounts, from : Starts]]
      /\ leases \subseteq Slots /\ w \in WorkerCalls /\ r \in RendererCalls
  BY DEF PoolInv, SlotInv, TypeOK
<1>s. w.at \in Slots /\ r.at \in Slots /\ w.gen \in Generations
  BY <1>0 DEF WorkerCalls, RendererCalls
<1>w. \A i \in Slots : (state[i] = "Writing") <=> (w.slot = i)
  BY DEF PoolInv, SlotInv, ExclusiveAudio, Writes
<1>l. \A i \in Slots : i \in leases => state[i] = "Reading"
  BY DEF PoolInv, SlotInv, ExclusiveAudio, Leases
<1>h. w.pc \in {"clear", "pubStart", "pubGen", "pubCount", "pubAdd", "pubReady", "cancel"} => w.slot \in Slots
  BY DEF PoolInv, SlotInv, CallShape
<1>1. ASSUME \A i \in Slots : Kept(i) PROVE UNCHANGED Abstract!storeVars
  BY <1>1, KeptIsSame, AllSame
<1>2. ASSUME \A i \in Slots : Kept(i) \/ (state[i] \in {"Free", "Writing"} /\ state'[i] = state[i])
      PROVE  UNCHANGED Abstract!storeVars
  BY <1>2, KeptIsSame, HiddenIsSame, AllSame
<1>3. CASE \/ BeginWriteCall \/ CancelCall \/ ReadyCountCall \/ DiscardSub \/ ReadyCountLoad
           \/ ReleaseSub \/ RangeState \/ RangeGen \/ RangeStart \/ RangeCount \/ RangeCheck
           \/ PublishAdd \/ PublishCount \/ UNCHANGED poolVars
  BY <1>3, <1>1
  DEF BeginWriteCall, CancelCall, ReadyCountCall, DiscardSub, ReadyCountLoad, ReleaseSub,
      RangeState, RangeGen, RangeStart, RangeCount, RangeCheck, PublishAdd, PublishCount,
      shared, fields, poolVars
<1>4. ASSUME NEW g, NEW v, NEW k,
             \/ PublishCall(audio[w.slot].from, g, v) \/ DiscardCall(g)
             \/ AcquireCall(g) \/ ReleaseCall(k) \/ RangeCall(g)
      PROVE  UNCHANGED Abstract!storeVars
  BY <1>4, <1>1 DEF PublishCall, DiscardCall, AcquireCall, ReleaseCall, RangeCall, shared, fields
<1>5. CASE \/ BeginWriteClear \/ PublishStart \/ PublishGeneration
           \/ \E f \in Starts, n \in 1 .. MaxFrames : FillAudio(f, n)
  <2>1. state' = state /\ leases' = leases /\ w.slot \in Slots
    BY <1>5, <1>h DEF BeginWriteClear, PublishStart, PublishGeneration, FillAudio, fields
  <2>2. \A i \in Slots \ {w.slot} : gen'[i] = gen[i] /\ start'[i] = start[i] /\ audio'[i] = audio[i]
    BY <1>5, <1>0 DEF BeginWriteClear, PublishStart, PublishGeneration, FillAudio, fields
  <2> QED
    BY <2>1, <2>2, <1>w, <1>2
<1>6. CASE BeginWriteCas
  <2>a. nextWrite \in Slots
    BY DEF PoolInv, SlotInv, TypeOK
  <2>b. nextWrite \in Nat /\ w.at \in Nat
    BY <1>s, <2>a, SlotFacts
  <2>c. PICK c \in Slots : c = (nextWrite + w.at) % ChunkCount
    BY <2>b, ModuloSlot
  <2>0. UNCHANGED <<gen, start, audio, leases>>
    BY <1>6 DEF BeginWriteCas, fields
  <2>1. CASE UNCHANGED state
    BY <2>0, <2>1, <1>1
  <2>2. CASE state[c] = "Free" /\ state' = [state EXCEPT ![c] = "Writing"]
    <3>1. \A i \in Slots \ {c} : Same(i)
      BY <2>0, <2>2, <1>0, KeptIsSame
    <3>2. /\ PhaseOf(c) = "Free" /\ PhaseOf(c)' = "Filling" /\ ChunkOf(c)' = ChunkOf(c)
      BY <2>c, <2>2, <1>0, PhaseFacts, PhaseFactsAfter
    <3>3. Abstract!Reserve(c)
      BY <2>c, <3>1, <3>2, OneMoves DEF Abstract!Reserve, Abstract!Move
    <3> QED
      BY <2>c, <3>3 DEF Abstract!StoreNext
  <2> QED
    BY <1>6, <2>1, <2>2, <2>c DEF BeginWriteCas
<1>7. CASE PublishReady
  <2>c. PICK c \in Slots : c = w.slot
    BY <1>7, <1>h DEF PublishReady
  <2>k. PICK k : k = [gen |-> gen[c], start |-> start[c], frames |-> audio[c].frames]
    OBVIOUS
  <2>0. /\ state[c] = "Writing" /\ state' = [state EXCEPT ![c] = "Ready"]
        /\ UNCHANGED <<gen, start, audio, leases>>
    BY <1>7, <1>w, <2>c DEF PublishReady, fields
  <2>1. \A i \in Slots \ {c} : Same(i)
    BY <2>0, <1>0, KeptIsSame
  <2>2. PhaseOf(c) = "Filling" /\ PhaseOf(c)' = "Ready" /\ ChunkOf(c)' = k
    BY <2>0, <2>k, <1>0, PhaseFacts, PhaseFactsAfter
  <2>3. k \in [gen : Generations, start : Starts, frames : FrameCounts]
    BY <2>k, <1>0
  <2>4. Abstract!Publish(c, k)
    BY <2>0, <2>1, <2>2, OneMoves DEF Abstract!Publish, Abstract!Move
  <2> QED
    BY <2>0, <2>3, <2>4 DEF Abstract!StoreNext
<1>8. CASE Cancel
  <2>c. PICK c \in Slots : c = w.slot
    BY <1>8, <1>h DEF Cancel
  <2>0. /\ state[c] = "Writing" /\ state' = [state EXCEPT ![c] = "Free"]
        /\ UNCHANGED <<gen, start, audio, leases>>
    BY <1>8, <1>w, <2>c DEF Cancel, fields
  <2>1. \A i \in Slots \ {c} : Same(i)
    BY <2>0, <1>0, KeptIsSame
  <2>2. /\ PhaseOf(c) = "Filling" /\ PhaseOf(c)' = "Free"
        /\ ChunkOf(c)' = ChunkOf(c)
    BY <2>0, <1>0, PhaseFacts, PhaseFactsAfter
  <2>3. Abstract!Abandon(c)
    BY <2>0, <2>1, <2>2, OneMoves DEF Abstract!Abandon, Abstract!Move
  <2> QED
    BY <2>0, <2>3 DEF Abstract!StoreNext
<1>9. CASE DiscardCas \/ AcquireCas
  <2>1. PICK c \in Slots : \/ UNCHANGED state
                           \/ state[c] = "Ready" /\ state' = [state EXCEPT ![c] = "Reading"]
    BY <1>9, <1>s DEF DiscardCas, AcquireCas, Discardable
  <2>0. UNCHANGED <<gen, start, audio, leases>>
    BY <1>9 DEF DiscardCas, AcquireCas, fields
  <2>2. \A i \in Slots \ {c} : Same(i)
    BY <2>0, <2>1, <1>0, KeptIsSame
  <2>3. Same(c)
    <3>1. CASE UNCHANGED state
      BY <3>1, <2>0, KeptIsSame
    <3>2. CASE state[c] = "Ready" /\ state'[c] = "Reading"
      <4>1. c \notin leases'
        BY <3>2, <2>0, <1>l
      <4> QED
        BY <3>2, <4>1, <2>0, PhaseFacts, PhaseFactsAfter DEF Same
    <3> QED
      BY <2>1, <3>1, <3>2, <1>0
  <2> QED
    BY <2>2, <2>3, AllSame
<1>10. CASE DiscardCheck
  <2>c. PICK c \in Slots : c = w.at
    BY <1>s
  <2>0. UNCHANGED <<gen, start, audio, leases>>
    BY <1>10, <2>c DEF DiscardCheck, fields
  <2>1. state[c] = "Reading" /\ c \notin leases
    BY <1>10, <2>c DEF DiscardCheck, PoolInv, SlotInv, ExclusiveAudio, Discards, Leases
  <2>2. PhaseOf(c) = "Ready" /\ ChunkOf(c) = [gen |-> gen[c], start |-> start[c], frames |-> audio[c].frames]
    BY <2>1, PhaseFacts
  <2>3. \A i \in Slots \ {c} : Same(i)
    BY <1>10, <2>c, <2>0, <1>0, KeptIsSame DEF DiscardCheck
  <2>4. CASE gen[c] < w.gen /\ state' = [state EXCEPT ![c] = "Free"]
    <3>1. PhaseOf(c)' = "Free" /\ ChunkOf(c)' = NoChunkHere
      BY <2>4, <1>0, PhaseFactsAfter
    <3>2. GenOf(ChunkOf(c)) < w.gen
      BY <2>2, <2>4 DEF GenOf
    <3>3. Abstract!Drop(c, w.gen)
      BY <2>2, <2>3, <3>1, <3>2, OneMoves DEF Abstract!Drop, Abstract!Move
    <3> QED
      BY <3>3, <1>s DEF Abstract!StoreNext
  <2>5. CASE state' = [state EXCEPT ![c] = "Ready"]
    <3>1. Same(c)
      BY <2>0, <2>2, <2>5, <1>0, PhaseFactsAfter DEF Same
    <3> QED
      BY <2>3, <3>1, AllSame
  <2> QED
    BY <1>10, <2>c, <2>4, <2>5 DEF DiscardCheck, Stale
<1>11. CASE AcquireCheck
  <2>c. PICK c \in Slots : c = r.at
    BY <1>s
  <2>0. UNCHANGED <<gen, start, audio>>
    BY <1>11, <2>c DEF AcquireCheck, fields
  <2>1. state[c] = "Reading" /\ c \notin leases
    BY <1>11, <2>c DEF AcquireCheck, PoolInv, SlotInv, ExclusiveAudio, Probes, Leases
  <2>2. PhaseOf(c) = "Ready" /\ ChunkOf(c) = [gen |-> gen[c], start |-> start[c], frames |-> audio[c].frames]
    BY <2>1, PhaseFacts
  <2>3. \A i \in Slots \ {c} : Same(i)
    BY <1>11, <2>c, <2>0, <1>0, KeptIsSame DEF AcquireCheck
  <2>4. CASE leases' = leases \union {c} /\ UNCHANGED state
    <3>1. PhaseOf(c)' = "Leased" /\ ChunkOf(c)' = ChunkOf(c)
      BY <2>0, <2>1, <2>2, <2>4, PhaseFactsAfter
    <3>2. Abstract!Lease(c)
      BY <2>2, <2>3, <3>1, OneMoves DEF Abstract!Lease, Abstract!Move
    <3> QED
      BY <3>2 DEF Abstract!StoreNext
  <2>5. CASE state' = [state EXCEPT ![c] = "Ready"] /\ UNCHANGED leases
    <3>1. Same(c)
      BY <2>0, <2>2, <2>5, <1>0, PhaseFactsAfter DEF Same
    <3> QED
      BY <2>3, <3>1, AllSame
  <2> QED
    BY <1>11, <2>c, <2>4, <2>5 DEF AcquireCheck
<1>12. CASE ReleaseCas
  <2>c. PICK c \in Slots : c = r.at
    BY <1>s
  <2>0. UNCHANGED <<gen, start, audio>> /\ leases' = leases \ {c}
    BY <1>12, <2>c DEF ReleaseCas, fields
  <2>1. c \in leases /\ state[c] = "Reading"
    BY <1>12, <2>c, <1>l DEF ReleaseCas, PoolInv, SlotInv, CallShape
  <2>2. state' = [state EXCEPT ![c] = "Free"]
    BY <1>12, <2>c, <2>1 DEF ReleaseCas
  <2>3. \A i \in Slots \ {c} : Same(i)
    BY <2>0, <2>2, <1>0, KeptIsSame
  <2>4. PhaseOf(c) = "Leased" /\ PhaseOf(c)' = "Free" /\ ChunkOf(c)' = NoChunkHere
    BY <2>1, <2>2, <1>0, PhaseFacts, PhaseFactsAfter
  <2>5. Abstract!Return(c)
    BY <2>3, <2>4, OneMoves DEF Abstract!Return, Abstract!Move
  <2> QED
    BY <2>5 DEF Abstract!StoreNext
<1> QED
  BY <1>3, <1>4, <1>5, <1>6, <1>7, <1>8, <1>9, <1>10, <1>11, <1>12
  DEF Next, WorkerCall, WorkerStep, RendererCall, RendererStep

(* The pool implements the chunk store: whatever the interleaving, a chunk    *)
(* appears whole, does not change until it leaves, is leased to one reader    *)
(* and is dropped unread only by a discard of older generations.              *)
THEOREM StoreImplemented == Spec => Store
<1>1. PoolInit => Abstract!StoreInit
  BY DEF PoolInit, Abstract!StoreInit, PhaseOf, ChunkOf
<1>2. PoolInv /\ [Next]_poolVars => [Abstract!StoreNext]_Abstract!storeVars
  BY StoreStep
<1> QED
  BY <1>1, <1>2, PoolInvariant, PTL DEF Spec, Store, Abstract!StoreSpec

----------------------------------------------------------------------------
(* The resident frames                                                       *)

(* The naturals are well ordered.                                            *)
LEMMA LeastNumber ==
  ASSUME NEW T, T \subseteq Nat, T # {}
  PROVE  \E n \in T : \A m \in T : n <= m
<1> DEFINE R == OpToRel(<, Nat)
<1>1. IsWellFoundedOn(R, Nat)
  BY NatLessThanWellFounded
<1>2. \A m, n \in Nat : m < n => <<m, n>> \in R
  BY DEF OpToRel
<1> HIDE DEF R
<1>3. PICK n \in T : \A m \in T : ~ (<<m, n>> \in R)
  BY <1>1, WFMin
<1>4. \A m \in T : ~ (m < n)
  BY <1>2, <1>3
<1> QED
  BY <1>4

(* There are finitely many slots.                                            *)
LEMMA SlotsFinite == IsFiniteSet(Slots)
<1>1. 0 \in Int /\ ChunkCount - 1 \in Int
  BY ChunkCountAssumption
<1>2. IsFiniteSet(0 .. ChunkCount - 1)
  BY <1>1, FS_Interval
<1> QED
  BY <1>2 DEF Slots

(* A non-empty set of sets of slots has one that no longer is in it when any *)
(* slot is left out: a property that carries over from the sets with one     *)
(* slot less holds of every set of slots.                                    *)
LEMMA SmallestSet ==
  ASSUME NEW B, B \subseteq SUBSET Slots, B # {}
  PROVE  \E s \in B : \A c \in s : s \ {c} \notin B
<1> DEFINE sizes == {Cardinality(s) : s \in B}
<1>1. IsFiniteSet(Slots)
  BY SlotsFinite
<1>2. \A s \in B : IsFiniteSet(s) /\ Cardinality(s) \in Nat
  BY <1>1, FS_Subset, FS_CardinalityType
<1>3. \A s \in B : \A c \in s : Cardinality(s \ {c}) = Cardinality(s) - 1
  BY <1>2, FS_RemoveElement
<1>4. sizes \subseteq Nat /\ sizes # {}
  BY <1>2
<1>5. PICK n \in sizes : \A m \in sizes : n <= m
  <2> HIDE DEF sizes
  <2> QED
    BY <1>4, LeastNumber
<1>6. n \in Nat
  BY <1>4
<1>7. PICK s \in B : n = Cardinality(s)
  BY <1>5
<1>8. ASSUME NEW c \in s, s \ {c} \in B
      PROVE  FALSE
  <2>1. n - 1 \in sizes
    BY <1>3, <1>7, <1>8
  <2>2. n <= n - 1
    BY <1>5, <2>1
  <2> QED
    BY <1>6, <2>2
<1> QED
  BY <1>8

(* The sum ResidentExact takes, of any blocks and over any slots.            *)
Total(blocks, set) == MapThenSumSet(LAMBDA i : blocks[i].frames, set)
Chosen(s) == CHOOSE i \in s : TRUE
Sums(blocks, f, s) == IF s = {} THEN 0 ELSE blocks[Chosen(s)].frames + f[s \ {Chosen(s)}]

(* The library's fold has a value for every set of slots.                    *)
LEMMA SumExists ==
  ASSUME NEW blocks, NEW S \in SUBSET Slots
  PROVE  \E f : f[S] = Total(blocks, S) /\ \A s \in SUBSET S : f[s] = Sums(blocks, f, s)
<1> DEFINE n == Cardinality(S)
           Upto(m, f) == \A s \in SUBSET S : Cardinality(s) <= m => f[s] = Sums(blocks, f, s)
           T == {m \in Nat : ~ \E f : Upto(m, f)}
<1>1. /\ n \in Nat /\ \A s \in SUBSET S : Cardinality(s) \in Nat /\ Cardinality(s) <= n
      /\ \A s \in SUBSET S : s = {} <=> Cardinality(s) = 0
      /\ \A s \in SUBSET S : \A c \in s : Cardinality(s \ {c}) = Cardinality(s) - 1
  <2>1. IsFiniteSet(S)
    BY SlotsFinite, FS_Subset
  <2>2. \A s \in SUBSET S : IsFiniteSet(s) /\ Cardinality(s) <= n
    BY <2>1, FS_Subset
  <2>3. n \in Nat /\ \A s \in SUBSET S : Cardinality(s) \in Nat
    BY <2>1, <2>2, FS_CardinalityType
  <2>4. \A s \in SUBSET S : s = {} <=> Cardinality(s) = 0
    BY <2>2, FS_EmptySet
  <2>5. ASSUME NEW s \in SUBSET S, NEW c \in s
        PROVE  Cardinality(s \ {c}) = Cardinality(s) - 1
    BY <2>2, FS_RemoveElement
  <2> QED
    BY <2>2, <2>3, <2>4, <2>5
<1> HIDE DEF n
<1>2. \E f : Upto(0, f)
  <2> DEFINE f == [s \in SUBSET S |-> 0]
  <2>1. \A s \in SUBSET S : Cardinality(s) <= 0 => s = {}
    BY <1>1
  <2>2. Upto(0, f)
    BY <2>1 DEF Sums
  <2> QED
    BY <2>2
<1>3. ASSUME NEW m \in Nat, NEW f, Upto(m, f)
      PROVE  \E h : Upto(m + 1, h)
  <2> DEFINE h == [s \in SUBSET S |-> IF Cardinality(s) <= m THEN f[s] ELSE Sums(blocks, f, s)]
  <2>1. ASSUME NEW s \in SUBSET S, Cardinality(s) <= m + 1
        PROVE  h[s] = Sums(blocks, h, s)
    <3>1. h[s] = Sums(blocks, f, s)
      BY <1>3
    <3>2. CASE s = {}
      BY <3>1, <3>2 DEF Sums
    <3>3. CASE s # {}
      <4> DEFINE c == Chosen(s)
      <4>1. c \in s /\ s \ {c} \in SUBSET S
        BY <3>3 DEF Chosen
      <4>2. Cardinality(s \ {c}) <= m
        <5>1. Cardinality(s \ {c}) = Cardinality(s) - 1 /\ Cardinality(s) \in Nat
          BY <1>1, <4>1
        <5> QED
          BY <2>1, <5>1
      <4>3. h[s \ {c}] = f[s \ {c}]
        BY <4>1, <4>2
      <4> HIDE DEF h
      <4> QED
        BY <3>1, <3>3, <4>3 DEF Sums
    <3> QED
      BY <3>2, <3>3
  <2> HIDE DEF h
  <2>2. Upto(m + 1, h)
    BY <2>1
  <2> QED
    BY <2>2
<1>4. \E f : Upto(n, f)
  <2> HIDE DEF Upto
  <2>1. SUFFICES ASSUME n \in T PROVE FALSE
    BY <1>1
  <2>2. PICK m \in T : \A k \in T : m <= k
    <3>1. T \subseteq Nat
      OBVIOUS
    <3> HIDE DEF T
    <3> QED
      BY <2>1, <3>1, LeastNumber
  <2>4. m \in Nat /\ m # 0
    BY <1>2
  <2>5. m - 1 \in Nat /\ ~ (m <= m - 1)
    BY <2>4
  <2>6. m - 1 \notin T
    BY <2>2, <2>5
  <2>7. PICK f : Upto(m - 1, f)
    BY <2>5, <2>6
  <2>8. \E h : Upto(m - 1 + 1, h)
    BY <1>3, <2>5, <2>7
  <2>9. m - 1 + 1 = m
    BY <2>4
  <2> QED
    BY <2>8, <2>9
<1> DEFINE Iterates(f) == f = [s \in SUBSET S |-> Sums(blocks, f, s)]
           f == CHOOSE f : Iterates(f)
<1>5. \E h : Iterates(h)
  <2>1. PICK h : Upto(n, h)
    BY <1>4
  <2> DEFINE e == [s \in SUBSET S |-> h[s]]
  <2>2. ASSUME NEW s \in SUBSET S
        PROVE  e[s] = Sums(blocks, e, s)
    <3>1. h[s] = Sums(blocks, h, s)
      BY <1>1, <2>1
    <3>2. s # {} => e[s \ {Chosen(s)}] = h[s \ {Chosen(s)}]
      OBVIOUS
    <3>3. e[s] = h[s]
      OBVIOUS
    <3> HIDE DEF e
    <3> QED
      BY <3>1, <3>2, <3>3 DEF Sums
  <2>3. e = [s \in SUBSET S |-> e[s]]
    OBVIOUS
  <2>4. Iterates(e)
    <3> HIDE DEF e
    <3> QED
      BY <2>2, <2>3
  <2> QED
    BY <2>4
<1>6. Iterates(f)
  BY <1>5
<1>7. Total(blocks, S) = f[S]
  BY Zenon DEF Total, MapThenSumSet, MapThenFoldSet, Sums, Chosen
<1> HIDE DEF f
<1>8. \A s \in SUBSET S : f[s] = Sums(blocks, f, s)
  BY <1>6
<1> QED
  BY <1>7, <1>8

(* Two functions that unfold the sum alike agree on it.                      *)
LEMMA SumsAgree ==
  ASSUME NEW blocks, NEW S \in SUBSET Slots, NEW f, NEW h,
         \A s \in SUBSET S : f[s] = Sums(blocks, f, s),
         \A s \in SUBSET S : h[s] = Sums(blocks, h, s)
  PROVE  f[S] = h[S]
<1> DEFINE B == {s \in SUBSET S : f[s] # h[s]}
<1>1. SUFFICES ASSUME B # {} PROVE FALSE
  OBVIOUS
<1>2. PICK s \in B : \A c \in s : s \ {c} \notin B
  <2>1. B \subseteq SUBSET Slots
    OBVIOUS
  <2> HIDE DEF B
  <2> QED
    BY <1>1, <2>1, SmallestSet
<1>3. f[s] = Sums(blocks, f, s) /\ h[s] = Sums(blocks, h, s) /\ f[s] # h[s]
  OBVIOUS
<1>4. s # {}
  BY <1>3 DEF Sums
<1>5. Chosen(s) \in s /\ s \ {Chosen(s)} \in SUBSET S
  BY <1>4 DEF Chosen
<1>6. f[s \ {Chosen(s)}] = h[s \ {Chosen(s)}]
  BY <1>2, <1>5
<1> QED
  BY <1>3, <1>4, <1>6 DEF Sums

(* The sum over a set is that over the set less the chosen slot, and that    *)
(* slot's frames.                                                            *)
LEMMA SumUnfolds ==
  ASSUME NEW blocks
  PROVE  /\ Total(blocks, {}) = 0
         /\ \A S \in SUBSET Slots : S # {} =>
              Total(blocks, S) = blocks[Chosen(S)].frames + Total(blocks, S \ {Chosen(S)})
<1>1. Total(blocks, {}) = 0
  <2>1. {} \in SUBSET Slots
    OBVIOUS
  <2>2. PICK f : f[{}] = Total(blocks, {}) /\ \A s \in SUBSET {} : f[s] = Sums(blocks, f, s)
    BY <2>1, SumExists
  <2> QED
    BY <2>2 DEF Sums
<1>2. ASSUME NEW S \in SUBSET Slots, S # {}
      PROVE  Total(blocks, S) = blocks[Chosen(S)].frames + Total(blocks, S \ {Chosen(S)})
  <2> DEFINE s == S \ {Chosen(S)}
  <2>1. PICK f : f[S] = Total(blocks, S) /\ \A t \in SUBSET S : f[t] = Sums(blocks, f, t)
    BY SumExists
  <2>2. s \in SUBSET S /\ s \in SUBSET Slots /\ SUBSET s \subseteq SUBSET S
    OBVIOUS
  <2>3. PICK h : h[s] = Total(blocks, s) /\ \A t \in SUBSET s : h[t] = Sums(blocks, h, t)
    BY <2>2, SumExists
  <2> HIDE DEF s
  <2>4. f[s] = h[s]
    <3>1. \A t \in SUBSET s : f[t] = Sums(blocks, f, t)
      BY <2>1, <2>2
    <3>2. \A t \in SUBSET s : h[t] = Sums(blocks, h, t)
      BY <2>3
    <3> HIDE ChunkCountAssumption, BoundsAssumption
    <3> QED
      BY <2>2, <3>1, <3>2, SumsAgree
  <2>5. f[S] = blocks[Chosen(S)].frames + f[s]
    BY <1>2, <2>1 DEF Sums, s
  <2> QED
    BY <2>1, <2>3, <2>4, <2>5 DEF s
<1> QED
  BY <1>1, <1>2

(* The frames of blocks whose counts are naturals.                           *)
LEMMA TotalNat ==
  ASSUME NEW blocks, NEW S \in SUBSET Slots, \A i \in S : blocks[i].frames \in Nat
  PROVE  Total(blocks, S) \in Nat
<1> DEFINE B == {s \in SUBSET S : Total(blocks, s) \notin Nat}
<1>1. SUFFICES ASSUME B # {} PROVE FALSE
  OBVIOUS
<1>2. PICK s \in B : \A c \in s : s \ {c} \notin B
  <2>1. B \subseteq SUBSET Slots
    OBVIOUS
  <2> HIDE DEF B
  <2> QED
    BY <1>1, <2>1, SmallestSet
<1>3. s \in SUBSET Slots /\ s \in SUBSET S /\ Total(blocks, s) \notin Nat
  OBVIOUS
<1>4. s # {}
  BY <1>3, SumUnfolds
<1>5. Chosen(s) \in s /\ s \ {Chosen(s)} \in SUBSET S
  BY <1>4 DEF Chosen
<1>6. Total(blocks, s \ {Chosen(s)}) \in Nat /\ blocks[Chosen(s)].frames \in Nat
  BY <1>2, <1>5
<1>7. Total(blocks, s) = blocks[Chosen(s)].frames + Total(blocks, s \ {Chosen(s)})
  BY <1>3, <1>4, SumUnfolds
<1> QED
  BY <1>3, <1>6, <1>7

(* Any slot of the set may be taken out first.                               *)
LEMMA TotalLess ==
  ASSUME NEW blocks, NEW S \in SUBSET Slots, \A i \in S : blocks[i].frames \in Nat, NEW i \in S
  PROVE  Total(blocks, S) = blocks[i].frames + Total(blocks, S \ {i})
<1> DEFINE Less(s, c) == Total(blocks, s) = blocks[c].frames + Total(blocks, s \ {c})
           B == {s \in SUBSET S : \E c \in s : ~ Less(s, c)}
<1>1. SUFFICES ASSUME B # {} PROVE FALSE
  <2>1. S \notin B => Less(S, i)
    OBVIOUS
  <2> QED
    BY <2>1
<1>2. PICK s \in B : \A c \in s : s \ {c} \notin B
  <2>1. B \subseteq SUBSET Slots
    OBVIOUS
  <2> HIDE DEF B
  <2> QED
    BY <1>1, <2>1, SmallestSet
<1>3. PICK c \in s : ~ Less(s, c)
  OBVIOUS
<1> DEFINE x == Chosen(s)
<1>4. x \in s /\ s \in SUBSET S /\ s \in SUBSET Slots /\ s # {}
  BY <1>3 DEF Chosen
<1>5. Less(s, x)
  BY <1>4, SumUnfolds
<1> HIDE DEF x
<1>6. x # c
  BY <1>3, <1>5
<1>7. s \ {x} \in SUBSET S /\ s \ {c} \in SUBSET S /\ c \in s \ {x} /\ x \in s \ {c}
      /\ (s \ {x}) \ {c} = (s \ {c}) \ {x}
  BY <1>4, <1>6
<1>8. Less(s \ {x}, c) /\ Less(s \ {c}, x)
  BY <1>2, <1>4, <1>7
<1>9. /\ blocks[x].frames \in Nat /\ blocks[c].frames \in Nat
      /\ Total(blocks, (s \ {x}) \ {c}) \in Nat
  <2>1. (s \ {x}) \ {c} \in SUBSET Slots /\ \A j \in (s \ {x}) \ {c} : blocks[j].frames \in Nat
    BY <1>4
  <2>2. Total(blocks, (s \ {x}) \ {c}) \in Nat
    BY <2>1, TotalNat
  <2> QED
    BY <1>4, <2>2
<1>10. /\ Total(blocks, s \ {x}) = blocks[c].frames + Total(blocks, (s \ {x}) \ {c})
       /\ Total(blocks, s \ {c}) = blocks[x].frames + Total(blocks, (s \ {x}) \ {c})
       /\ Total(blocks, s) = blocks[x].frames + Total(blocks, s \ {x})
  BY <1>5, <1>7, <1>8
<1>11. Total(blocks, s) = blocks[c].frames + Total(blocks, s \ {c})
  BY <1>9, <1>10
<1> QED
  BY <1>3, <1>11

(* A sum depends on the counts of its slots only.                            *)
LEMMA TotalSame ==
  ASSUME NEW blocks, NEW others, NEW S \in SUBSET Slots,
         \A i \in S : blocks[i].frames = others[i].frames
  PROVE  Total(blocks, S) = Total(others, S)
<1> DEFINE B == {s \in SUBSET S : Total(blocks, s) # Total(others, s)}
<1>1. SUFFICES ASSUME B # {} PROVE FALSE
  OBVIOUS
<1>2. PICK s \in B : \A c \in s : s \ {c} \notin B
  <2>1. B \subseteq SUBSET Slots
    OBVIOUS
  <2> HIDE DEF B
  <2> QED
    BY <1>1, <2>1, SmallestSet
<1>3. s \in SUBSET Slots /\ s \in SUBSET S /\ Total(blocks, s) # Total(others, s)
  OBVIOUS
<1>4. s # {}
  BY <1>3, SumUnfolds
<1>5. Chosen(s) \in s /\ s \ {Chosen(s)} \in SUBSET S
  BY <1>4 DEF Chosen
<1>6. /\ Total(blocks, s \ {Chosen(s)}) = Total(others, s \ {Chosen(s)})
      /\ blocks[Chosen(s)].frames = others[Chosen(s)].frames
  BY <1>2, <1>5
<1>7. /\ Total(blocks, s) = blocks[Chosen(s)].frames + Total(blocks, s \ {Chosen(s)})
      /\ Total(others, s) = others[Chosen(s)].frames + Total(others, s \ {Chosen(s)})
  BY <1>3, <1>4, SumUnfolds
<1> QED
  BY <1>3, <1>6, <1>7

(* The slots whose frames count, and what the counter should be.             *)
ResidentSlots == {i \in Slots : Resides(i)}
Exact == resident = PendingFrames + Total(audio, ResidentSlots)

(* A release takes the frames of the chunk it gives back off the counter.    *)
ReleaseShape == r.pc = "release" => r.n = audio[r.at].frames
ResidentInv == PoolInv /\ ReleaseShape /\ Exact

(* ResidentExact in the terms of this section.                               *)
LEMMA ResidentSum == Exact <=> ResidentExact
BY Zenon DEF Exact, ResidentExact, Total, ResidentSlots, Resides

(* Every term of the count is a natural.                                     *)
LEMMA FrameTypes ==
  ASSUME TypeOK
  PROVE  /\ \A i \in Slots : audio[i].frames \in Nat
         /\ w.n \in Nat /\ r.n \in Nat /\ w \in WorkerCalls /\ r \in RendererCalls
         /\ resident \in Int /\ Total(audio, ResidentSlots) \in Nat /\ ResidentSlots \in SUBSET Slots
<1>1. \A i \in Slots : audio[i].frames \in Nat
  BY DEF TypeOK, FrameCounts
<1>2. ResidentSlots \in SUBSET Slots
  BY DEF ResidentSlots
<1>3. Total(audio, ResidentSlots) \in Nat
  BY <1>1, <1>2, TotalNat
<1>4. w.n \in Nat /\ r.n \in Nat /\ w \in WorkerCalls /\ r \in RendererCalls /\ resident \in Int
  BY DEF TypeOK, WorkerCalls, RendererCalls, FrameCounts
<1> QED
  BY <1>1, <1>2, <1>3, <1>4

(* No step touches the audio of a slot that is resident, so the sum changes  *)
(* only with the set it is taken over.                                       *)
LEMMA SumMoves ==
  ASSUME PoolInv, [Next]_poolVars
  PROVE  /\ Total(audio, ResidentSlots)' = Total(audio', ResidentSlots')
         /\ Total(audio', ResidentSlots) = Total(audio, ResidentSlots)
         /\ \A i \in Slots : Resides(i) => w.slot # i /\ audio'[i] = audio[i]
<1>1. ASSUME NEW i \in Slots, Resides(i)
      PROVE  w.slot # i /\ audio'[i] = audio[i]
  <2>1. w.slot # i
    BY <1>1 DEF PoolInv, SlotInv, ExclusiveAudio, Writes, Resides
  <2> QED
    BY <2>1, FrozenStep DEF Frozen
<1>2. ResidentSlots \in SUBSET Slots /\ \A i \in ResidentSlots : audio'[i].frames = audio[i].frames
  BY <1>1 DEF ResidentSlots
<1>3. Total(audio', ResidentSlots) = Total(audio, ResidentSlots)
  BY <1>2, TotalSame
<1>4. Total(audio, ResidentSlots)' = Total(audio', ResidentSlots')
  OBVIOUS
<1> QED
  BY <1>1, <1>3, <1>4

(* Only a publication, a discard and a release change the resident slots.    *)
LEMMA StaysResident ==
  ASSUME PoolInv, [Next]_poolVars, ~ PublishReady, ~ (DiscardCheck /\ Stale(w.at)), ~ ReleaseCas
  PROVE  ResidentSlots' = ResidentSlots
<1>1. \A i \in Slots : Resides(i)' <=> Resides(i)
  BY ResidenceStep
<1> QED
  BY <1>1 DEF ResidentSlots

(* A step that is none of these keeps the count if it moves the counter and  *)
(* the updates under way alike.                                              *)
LEMMA ExactKept ==
  ASSUME ResidentInv, [Next]_poolVars, ~ PublishReady, ~ (DiscardCheck /\ Stale(w.at)), ~ ReleaseCas,
         resident' - PendingFrames' = resident - PendingFrames,
         resident' \in Int, PendingFrames' \in Int, PendingFrames \in Int
  PROVE  Exact'
<1>1. PoolInv /\ resident = PendingFrames + Total(audio, ResidentSlots)
  BY DEF ResidentInv, Exact
<1>2. Total(audio, ResidentSlots) \in Nat
  BY <1>1, FrameTypes DEF PoolInv, SlotInv
<1>3. ResidentSlots' = ResidentSlots
  BY <1>1, StaysResident
<1>4. Total(audio, ResidentSlots)' = Total(audio, ResidentSlots)
  BY <1>1, <1>3, SumMoves
<1>5. resident' = PendingFrames' + Total(audio, ResidentSlots)
  BY <1>1, <1>2
<1> QED
  BY <1>4, <1>5 DEF Exact

(* Every step keeps the count exact.                                         *)
LEMMA ExactStep == ResidentInv /\ [Next]_poolVars => Exact'
<1> SUFFICES ASSUME ResidentInv, [Next]_poolVars PROVE Exact'
  OBVIOUS
<1>0. /\ PoolInv /\ TypeOK /\ CallShape /\ ExclusiveAudio
      /\ resident = PendingFrames + Total(audio, ResidentSlots)
      /\ r.pc = "release" => r.n = audio[r.at].frames
  BY DEF ResidentInv, PoolInv, SlotInv, ReleaseShape, Exact
<1>1. /\ \A i \in Slots : audio[i].frames \in Nat
      /\ w.n \in Nat /\ r.n \in Nat /\ w \in WorkerCalls /\ r \in RendererCalls
      /\ resident \in Int /\ Total(audio, ResidentSlots) \in Nat /\ ResidentSlots \in SUBSET Slots
  BY <1>0, FrameTypes
<1>2. w.at \in Slots /\ r.at \in Slots /\ (w.pc = "pubReady" => w.slot \in Slots /\ audio[w.slot].frames \in Nat)
  BY <1>0, <1>1 DEF CallShape, WorkerCalls, RendererCalls
<1> DEFINE P == (IF w.pc = "discardSub" THEN w.n ELSE 0) + (IF w.pc = "pubReady" THEN audio[w.slot].frames ELSE 0)
           Q == IF r.pc = "releaseSub" THEN r.n ELSE 0
<1>3. P \in Nat /\ Q \in Nat /\ PendingFrames = P + Q
  BY <1>1, <1>2 DEF PendingFrames
<1>w. PendingFrames' = (IF w'.pc = "discardSub" THEN w'.n ELSE 0) + (IF r'.pc = "releaseSub" THEN r'.n ELSE 0)
                       + (IF w'.pc = "pubReady" THEN audio'[w'.slot].frames ELSE 0)
  BY DEF PendingFrames
(* A worker's step that leaves the counter alone. *)
<1>4. ASSUME w.pc \notin {"discardSub", "pubReady", "discardCheck"}, w'.pc \notin {"discardSub", "pubReady"},
             r' = r, resident' = resident
      PROVE  Exact'
  <2>1. PendingFrames = Q /\ PendingFrames' = Q
    BY <1>1, <1>3, <1>4, <1>w
  <2>2. ~ PublishReady /\ ~ DiscardCheck
    BY <1>4 DEF PublishReady, DiscardCheck
  <2>3. ~ ReleaseCas
    <3>1. SUFFICES ASSUME ReleaseCas PROVE FALSE
      OBVIOUS
    <3>2. r.pc = "release" /\ r'.pc # "release"
      BY <1>1, <3>1 DEF ReleaseCas, RIdle, RendererCalls
    <3> QED
      BY <1>4, <3>2
  <2> QED
    BY <1>1, <1>3, <1>4, <2>1, <2>2, <2>3, ExactKept
(* A renderer's step that leaves the counter alone. *)
<1>5. ASSUME r.pc \notin {"release", "releaseSub"}, r'.pc # "releaseSub", w' = w, audio' = audio, resident' = resident
      PROVE  Exact'
  <2>1. PendingFrames = P /\ PendingFrames' = P
    BY <1>1, <1>2, <1>3, <1>5, <1>w
  <2>2. ~ PublishReady /\ ~ DiscardCheck
    <3>1. PublishReady => w.pc = "pubReady" /\ w'.pc = "idle"
      BY DEF PublishReady, WIdle
    <3>2. DiscardCheck => w.pc = "discardCheck" /\ w'.pc # "discardCheck"
      BY <1>1, ScanShape DEF DiscardCheck, WorkerCalls
    <3> QED
      BY <1>5, <3>1, <3>2
  <2>3. ~ ReleaseCas
    BY <1>5 DEF ReleaseCas
  <2> QED
    BY <1>1, <1>3, <1>5, <2>1, <2>2, <2>3, ExactKept
<1> HIDE DEF P, Q
<1> USE <1>1 DEF WIdle, RIdle, shared, fields, WorkerCalls, RendererCalls
<1>10. CASE BeginWriteCall
  BY <1>4, <1>10 DEF BeginWriteCall
<1>11. CASE \E f \in Starts, n \in 1 .. MaxFrames : FillAudio(f, n)
  BY <1>4, <1>11 DEF FillAudio
<1>12. CASE \E g \in Generations, v \in BOOLEAN : PublishCall(audio[w.slot].from, g, v)
  BY <1>4, <1>12 DEF PublishCall
<1>13. CASE CancelCall
  BY <1>4, <1>13 DEF CancelCall
<1>14. CASE \E g \in Generations : DiscardCall(g)
  BY <1>4, <1>14 DEF DiscardCall
<1>15. CASE ReadyCountCall
  BY <1>4, <1>15 DEF ReadyCountCall
<1>16. CASE BeginWriteCas
  <2>1. w.pc = "reserve" /\ r' = r /\ resident' = resident
    BY <1>16 DEF BeginWriteCas
  <2>2. PICK j : \/ w' = [w EXCEPT !.pc = "clear", !.slot = j]
                 \/ w' = [w EXCEPT !.at = @ + 1] \/ w' = WIdle(NoSlot, 0)
    BY <1>16 DEF BeginWriteCas
  <2>3. w'.pc \in {"clear", "reserve", "idle"}
    <3>1. CASE w' = [w EXCEPT !.pc = "clear", !.slot = j]
      BY <3>1
    <3>2. CASE w' = [w EXCEPT !.at = @ + 1]
      BY <2>1, <3>2
    <3>3. CASE w' = WIdle(NoSlot, 0)
      BY <3>3
    <3> QED
      BY <2>2, <3>1, <3>2, <3>3
  <2> QED
    BY <1>4, <2>1, <2>3
<1>17. CASE BeginWriteClear
  BY <1>4, <1>17 DEF BeginWriteClear
<1>18. CASE PublishStart
  BY <1>4, <1>18 DEF PublishStart
<1>19. CASE PublishGeneration
  BY <1>4, <1>19 DEF PublishGeneration
<1>20. CASE PublishCount
  BY <1>4, <1>20 DEF PublishCount
<1>21. CASE Cancel
  BY <1>4, <1>21 DEF Cancel
<1>22. CASE DiscardCas
  BY <1>4, <1>22, ScanShape DEF DiscardCas
<1>23. CASE ReadyCountLoad
  BY <1>4, <1>23 DEF ReadyCountLoad
<1>24. CASE PublishAdd
  <2>1. /\ w.pc = "pubAdd" /\ w'.pc = "pubReady" /\ w'.slot = w.slot /\ r' = r /\ audio' = audio
        /\ resident' = resident + audio[w.slot].frames
    BY <1>24 DEF PublishAdd
  <2>2. w.slot \in Slots
    BY <1>0, <2>1 DEF CallShape
  <2>3. PendingFrames = Q /\ PendingFrames' = Q + audio[w.slot].frames /\ audio[w.slot].frames \in Nat
    BY <1>3, <1>w, <2>1, <2>2 DEF P, Q
  <2>4. ~ PublishReady /\ ~ DiscardCheck
    BY <2>1 DEF PublishReady, DiscardCheck
  <2>5. ~ ReleaseCas
    <3>1. ReleaseCas => r.pc = "release" /\ r'.pc # "release"
      BY DEF ReleaseCas
    <3> QED
      BY <2>1, <3>1
  <2> QED
    BY <1>3, <2>1, <2>3, <2>4, <2>5, ExactKept
<1>25. CASE PublishReady
  <2>1. /\ w.pc = "pubReady" /\ w'.pc = "idle" /\ r' = r /\ audio' = audio /\ resident' = resident
        /\ state' = [state EXCEPT ![w.slot] = "Ready"] /\ w.slot \in Slots
    BY <1>0, <1>25 DEF PublishReady, CallShape
  <2>2. ResidentSlots' = ResidentSlots \cup {w.slot} /\ w.slot \notin ResidentSlots
    <3>1. state \in [Slots -> SlotState] /\ state[w.slot] = "Writing"
      BY <1>0, <2>1 DEF TypeOK, ExclusiveAudio, Writes
    <3> QED
      BY <2>1, <3>1 DEF ResidentSlots, Resides
  <2>3. PendingFrames = Q + audio[w.slot].frames /\ PendingFrames' = Q /\ audio[w.slot].frames \in Nat
    BY <1>3, <1>w, <2>1 DEF P, Q
  <2>4. Total(audio, ResidentSlots') = audio[w.slot].frames + Total(audio, ResidentSlots)
    <3>1. /\ ResidentSlots' \in SUBSET Slots /\ w.slot \in ResidentSlots'
          /\ ResidentSlots' \ {w.slot} = ResidentSlots /\ \A i \in ResidentSlots' : audio[i].frames \in Nat
      BY <2>1, <2>2
    <3> QED
      BY <3>1, TotalLess
  <2>5. Total(audio, ResidentSlots)' = Total(audio, ResidentSlots')
    BY <1>0, <2>1, SumMoves
  <2>6. resident' = PendingFrames' + Total(audio, ResidentSlots')
    BY <1>0, <1>3, <2>1, <2>3, <2>4
  <2> QED
    BY <2>5, <2>6 DEF Exact
<1>26. CASE DiscardCheck
  <2>0. w.pc = "discardCheck" /\ r' = r /\ audio' = audio /\ resident' = resident
    BY <1>26 DEF DiscardCheck
  <2>1. CASE ~ Stale(w.at)
    <3>1. w'.pc \in {"idle", "discard"}
      BY <1>26, <2>1, ScanShape DEF DiscardCheck
    <3>2. PendingFrames = Q /\ PendingFrames' = Q
      BY <1>3, <1>w, <2>0, <3>1 DEF P, Q
    <3>3. ~ PublishReady
      BY <2>0 DEF PublishReady
    <3>4. ~ ReleaseCas
      <4>1. ReleaseCas => r.pc = "release" /\ r'.pc # "release"
        BY DEF ReleaseCas
      <4> QED
        BY <2>0, <4>1
    <3> QED
      BY <1>3, <2>0, <2>1, <3>2, <3>3, <3>4, ExactKept
  <2>2. CASE Stale(w.at)
    <3>1. /\ w'.pc = "discardSub" /\ w'.n = audio[w.at].frames
          /\ state' = [state EXCEPT ![w.at] = "Free"]
      BY <1>26, <2>2 DEF DiscardCheck
    <3>2. ResidentSlots' = ResidentSlots \ {w.at} /\ w.at \in ResidentSlots
      <4>1. state \in [Slots -> SlotState] /\ state[w.at] = "Reading"
        BY <1>0, <1>2, <2>0 DEF TypeOK, ExclusiveAudio, Discards
      <4> QED
        BY <1>2, <3>1, <4>1 DEF ResidentSlots, Resides
    <3>3. PendingFrames = Q /\ PendingFrames' = Q + audio[w.at].frames /\ audio[w.at].frames \in Nat
      BY <1>2, <1>3, <1>w, <2>0, <3>1 DEF P, Q
    <3>4. Total(audio, ResidentSlots) = audio[w.at].frames + Total(audio, ResidentSlots')
      <4>1. \A i \in ResidentSlots : audio[i].frames \in Nat
        OBVIOUS
      <4> QED
        BY <3>2, <4>1, TotalLess
    <3>5. Total(audio, ResidentSlots') \in Nat /\ Total(audio, ResidentSlots)' = Total(audio, ResidentSlots')
      <4>1. ResidentSlots' \in SUBSET Slots /\ \A i \in ResidentSlots' : audio[i].frames \in Nat
        BY <3>2
      <4> QED
        BY <1>0, <2>0, <4>1, SumMoves, TotalNat
    <3>6. resident' = PendingFrames' + Total(audio, ResidentSlots')
      BY <1>0, <1>3, <2>0, <3>3, <3>4, <3>5
    <3> QED
      BY <3>5, <3>6 DEF Exact
  <2> QED
    BY <2>1, <2>2
<1>27. CASE DiscardSub
  <2>1. w.pc = "discardSub" /\ w'.pc \in {"idle", "discard"} /\ r' = r /\ audio' = audio /\ resident' = resident - w.n
    BY <1>27, ScanShape DEF DiscardSub
  <2>2. PendingFrames = Q + w.n /\ PendingFrames' = Q
    BY <1>3, <1>w, <2>1 DEF P, Q
  <2>3. ~ PublishReady /\ ~ DiscardCheck
    BY <2>1 DEF PublishReady, DiscardCheck
  <2>4. ~ ReleaseCas
    <3>1. ReleaseCas => r.pc = "release" /\ r'.pc # "release"
      BY DEF ReleaseCas
    <3> QED
      BY <2>1, <3>1
  <2> QED
    BY <1>3, <2>1, <2>2, <2>3, <2>4, ExactKept
<1>30. CASE \E g \in Generations : AcquireCall(g)
  BY <1>5, <1>30 DEF AcquireCall
<1>31. CASE \E i \in leases : ReleaseCall(i)
  BY <1>5, <1>31 DEF ReleaseCall
<1>32. CASE \E g \in Generations : RangeCall(g)
  BY <1>5, <1>32 DEF RangeCall
<1>33. CASE AcquireCas
  BY <1>5, <1>33, ScanShape DEF AcquireCas
<1>34. CASE AcquireCheck
  BY <1>5, <1>34, ScanShape DEF AcquireCheck
<1>35. CASE RangeState
  BY <1>5, <1>35, ScanShape DEF RangeState
<1>36. CASE RangeGen \/ RangeStart \/ RangeCount
  BY <1>5, <1>36 DEF RangeGen, RangeStart, RangeCount
<1>37. CASE RangeCheck
  BY <1>5, <1>37, ScanShape DEF RangeCheck
<1>38. CASE ReleaseCas
  <2>0. r.pc = "release" /\ w' = w /\ audio' = audio /\ resident' = resident /\ r.n = audio[r.at].frames
        /\ r.at \in leases
    BY <1>0, <1>38 DEF ReleaseCas, CallShape
  <2>1. state \in [Slots -> SlotState] /\ state[r.at] = "Reading"
    BY <1>0, <1>2, <2>0 DEF TypeOK, ExclusiveAudio, Leases
  <2>2. state' = [state EXCEPT ![r.at] = "Free"] /\ r'.pc = "releaseSub" /\ r'.n = r.n
    BY <1>38, <2>1 DEF ReleaseCas
  <2>3. ResidentSlots' = ResidentSlots \ {r.at} /\ r.at \in ResidentSlots
    BY <1>2, <2>1, <2>2 DEF ResidentSlots, Resides
  <2>4. PendingFrames = P /\ PendingFrames' = P + r.n
    BY <1>2, <1>3, <1>w, <2>0, <2>2 DEF P, Q
  <2>5. Total(audio, ResidentSlots) = r.n + Total(audio, ResidentSlots')
    <3>1. \A i \in ResidentSlots : audio[i].frames \in Nat
      OBVIOUS
    <3> QED
      BY <2>0, <2>3, <3>1, TotalLess
  <2>6. Total(audio, ResidentSlots') \in Nat /\ Total(audio, ResidentSlots)' = Total(audio, ResidentSlots')
    <3>1. ResidentSlots' \in SUBSET Slots /\ \A i \in ResidentSlots' : audio[i].frames \in Nat
      BY <2>3
    <3> QED
      BY <1>0, <2>0, <3>1, SumMoves, TotalNat
  <2>7. resident' = PendingFrames' + Total(audio, ResidentSlots')
    BY <1>0, <1>3, <2>0, <2>4, <2>5, <2>6
  <2> QED
    BY <2>6, <2>7 DEF Exact
<1>39. CASE ReleaseSub
  <2>1. r.pc = "releaseSub" /\ r'.pc = "idle" /\ w' = w /\ audio' = audio /\ resident' = resident - r.n
    BY <1>39 DEF ReleaseSub
  <2>2. PendingFrames = P + r.n /\ PendingFrames' = P
    BY <1>2, <1>3, <1>w, <2>1 DEF P, Q
  <2>3. ~ PublishReady /\ ~ DiscardCheck
    <3>1. PublishReady => w.pc = "pubReady" /\ w'.pc = "idle"
      BY DEF PublishReady
    <3>2. DiscardCheck => w.pc = "discardCheck" /\ w'.pc # "discardCheck"
      BY ScanShape DEF DiscardCheck
    <3> QED
      BY <2>1, <3>1, <3>2
  <2>4. ~ ReleaseCas
    BY <2>1 DEF ReleaseCas
  <2> QED
    BY <1>3, <2>1, <2>2, <2>3, <2>4, ExactKept
<1>40. CASE UNCHANGED poolVars
  BY <1>0, <1>40, <1>w DEF poolVars, Exact, PendingFrames, ResidentSlots, Resides
<1> QED
  BY <1>10, <1>11, <1>12, <1>13, <1>14, <1>15, <1>16, <1>17, <1>18, <1>19, <1>20, <1>21, <1>22, <1>23,
     <1>24, <1>25, <1>26, <1>27, <1>30, <1>31, <1>32, <1>33, <1>34, <1>35, <1>36, <1>37, <1>38, <1>39, <1>40
  DEF Next, WorkerCall, WorkerStep, RendererCall, RendererStep

(* A chunk being released keeps its frames until it is free.                 *)
LEMMA ReleaseShapeStep == ResidentInv /\ [Next]_poolVars => ReleaseShape'
<1> SUFFICES ASSUME ResidentInv, [Next]_poolVars, r'.pc = "release"
             PROVE  r'.n = audio'[r'.at].frames
  BY DEF ReleaseShape
<1>0. /\ PoolInv /\ TypeOK /\ CallShape /\ ExclusiveAudio
      /\ r.pc = "release" => r.n = audio[r.at].frames
  BY DEF ResidentInv, PoolInv, SlotInv, ReleaseShape
<1>1. r \in RendererCalls /\ r.at \in Slots /\ leases \subseteq Slots
  BY <1>0 DEF TypeOK, RendererCalls
<1>2. CASE r' = r
  <2>1. Resides(r.at)
    BY <1>0, <1>1, <1>2 DEF CallShape, ExclusiveAudio, Leases, Resides
  <2>2. audio'[r.at] = audio[r.at]
    BY <1>0, <1>1, <2>1, SumMoves
  <2> QED
    BY <1>0, <1>2, <2>2
<1>3. CASE \E i \in leases : ReleaseCall(i)
  BY <1>1, <1>3 DEF ReleaseCall, RIdle, shared
<1>4. CASE \/ \E g \in Generations : AcquireCall(g) \/ RangeCall(g)
           \/ AcquireCas \/ AcquireCheck \/ ReleaseCas \/ ReleaseSub
           \/ RangeState \/ RangeGen \/ RangeStart \/ RangeCount \/ RangeCheck
  <2>1. CASE \/ \E g \in Generations : AcquireCall(g) \/ RangeCall(g)
             \/ ReleaseCas \/ ReleaseSub \/ RangeGen \/ RangeStart \/ RangeCount
    <3>1. CASE \E g \in Generations : AcquireCall(g) \/ RangeCall(g)
      BY <3>1 DEF AcquireCall, RangeCall, RIdle
    <3>2. CASE ReleaseCas
      BY <1>1, <3>2 DEF ReleaseCas, RIdle, RendererCalls
    <3>3. CASE ReleaseSub
      BY <3>3 DEF ReleaseSub, RIdle
    <3>4. CASE RangeGen \/ RangeStart \/ RangeCount
      BY <1>1, <3>4 DEF RangeGen, RangeStart, RangeCount, RendererCalls
    <3> QED
      BY <2>1, <3>1, <3>2, <3>3, <3>4
  <2>2. CASE AcquireCas \/ AcquireCheck
    <3>1. r'.pc \in {"acquireCheck", "idle", "acquire"}
      BY <1>1, <2>2, ScanShape DEF AcquireCas, AcquireCheck, RIdle, RendererCalls
    <3> QED
      BY <3>1
  <2>3. CASE RangeState \/ RangeCheck
    <3>1. r'.pc \in {"rangeGen", "idle", "rangeState"}
      BY <1>1, <2>3, ScanShape DEF RangeState, RangeCheck, RendererCalls
    <3> QED
      BY <3>1
  <2> QED
    BY <1>4, <2>1, <2>2, <2>3
<1>5. r' = r \/ RendererCall \/ RendererStep
  BY DEF Next, WorkerCall, WorkerStep, BeginWriteCall, FillAudio, PublishCall, CancelCall,
     DiscardCall, ReadyCountCall, BeginWriteCas, BeginWriteClear, PublishStart, PublishGeneration,
     PublishCount, PublishAdd, PublishReady, Cancel, DiscardCas, DiscardCheck, DiscardSub,
     ReadyCountLoad, poolVars
<1> QED
  BY <1>2, <1>3, <1>4, <1>5 DEF RendererCall, RendererStep

(* The counter of resident frames is exact for every number of slots, up to  *)
(* the updates that are under way; so it never wraps below zero.             *)
THEOREM ResidentIsExact == Spec => []ResidentExact
<1>1. PoolInit => ResidentInv
  <2> SUFFICES ASSUME PoolInit PROVE ReleaseShape /\ Exact
    BY PoolInitInv DEF ResidentInv
  <2>1. ResidentSlots = {}
    BY DEF PoolInit, ResidentSlots, Resides
  <2>2. PendingFrames = 0
    BY DEF PoolInit, PendingFrames, WIdle, RIdle
  <2> QED
    BY <2>1, <2>2, SumUnfolds DEF PoolInit, ReleaseShape, Exact, RIdle
<1>2. ResidentInv /\ [Next]_poolVars => ResidentInv'
  <2>1. PoolInv /\ [Next]_poolVars => PoolInv'
    BY TypeStep, ShapeStep, ExclusiveStep, WholeStep DEF PoolInv, SlotInv
  <2> QED
    BY <2>1, ExactStep, ReleaseShapeStep DEF ResidentInv
<1>3. ResidentInv => ResidentExact
  BY ResidentSum DEF ResidentInv
<1> QED
  BY <1>1, <1>2, <1>3, PTL DEF Spec
=============================================================================
