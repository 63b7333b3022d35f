---------------------------- MODULE DecodedAudioPool ----------------------------
(***************************************************************************)
(* The lock-free pool of decoded chunks that the decode worker and the     *)
(* audio callback share (backends/media/decoded_audio_pool.hpp).           *)
(*                                                                         *)
(* Two threads call it: the worker reserves, publishes, cancels, discards  *)
(* and counts; the renderer acquires and releases leases and reads the     *)
(* buffered range.  A call is a thread-local program (w for the worker, r  *)
(* for the renderer) whose every step makes at most one atomic access to   *)
(* shared memory, so calls of the two threads interleave as the hardware   *)
(* may interleave them (sequential consistency is assumed).                *)
(*                                                                         *)
(* A call starts with ...Call and has ended when the thread's pc is "idle" *)
(* again; its result stays in w.slot, w.n (worker), r.slot or range        *)
(* (renderer).  Next drives the calls with arbitrary legal arguments;      *)
(* PlaybackCoordinator drives them as the player does.                     *)
(*                                                                         *)
(* M_X is a plausible bug in X: the properties are checked to notice it.   *)
(***************************************************************************)
EXTENDS Integers, FiniteSets, FiniteSetsExt

CONSTANTS
  ChunkCount,     \* template parameter ChunkCount: number of slots
  MaxGeneration,  \* bound on the 64-bit generations
  MaxFrame,       \* bound on the media frames that start a chunk
  MaxFrames       \* AudioBlock::MAX_FRAMES: bound on the frames of a chunk

ASSUME ChunkCountAssumption == ChunkCount \in Nat /\ ChunkCount > 1
ASSUME BoundsAssumption == MaxGeneration \in Nat /\ MaxFrame \in Nat /\ MaxFrames \in Nat

Slots == 0 .. ChunkCount - 1
NoSlot == ChunkCount                \* invalid_index
Generations == 0 .. MaxGeneration
Starts == 0 .. MaxFrame
FrameCounts == 0 .. MaxFrames

VARIABLES
  state,      \* slot.state
  gen,        \* slot.generation
  start,      \* slot.start_frame
  count,      \* slot.frame_count
  audio,      \* slot.audio: its frame_count and the media frame it was decoded from
  resident,   \* resident_frames_
  nextWrite,  \* next_write_index_
  leases,     \* slots the renderer holds a ReadReservation for
  w,          \* the worker's call
  r,          \* the renderer's call
  range       \* BufferedFrameRange last computed by the renderer

fields == <<gen, start, count>>
shared == <<state, gen, start, count, audio, resident>>
poolVars == <<state, gen, start, count, audio, resident, nextWrite, leases, w, r, range>>

SlotState == {"Free", "Writing", "Ready", "Reading"}
NoAudio == [frames |-> 0, from |-> 0]
NoRange == [lo |-> 0, hi |-> 0]

(* A thread between two calls; slot and n hold the result of the last one. *)
WIdle(slot, n) == [pc |-> "idle", at |-> 0, slot |-> slot, gen |-> 0, from |-> 0, n |-> n]
RIdle(slot) == [pc |-> "idle", at |-> 0, slot |-> slot, gen |-> 0, n |-> 0,
                seenGen |-> 0, seenStart |-> 0, seenState |-> "Free"]

PoolInit ==
  /\ state = [i \in Slots |-> "Free"]
  /\ gen = [i \in Slots |-> 0]
  /\ start = [i \in Slots |-> 0]
  /\ count = [i \in Slots |-> 0]
  /\ audio = [i \in Slots |-> NoAudio]
  /\ resident = 0
  /\ nextWrite = 0
  /\ leases = {}
  /\ w = WIdle(NoSlot, 0)
  /\ r = RIdle(NoSlot)
  /\ range = NoRange

----------------------------------------------------------------------------
(* Worker: try_begin_write *)

M_Following(i) == i + 1
Following(i) == (i + 1) % ChunkCount

BeginWriteCall ==
  /\ w.pc = "idle" /\ w.slot = NoSlot
  /\ w' = [WIdle(NoSlot, 0) EXCEPT !.pc = "reserve"]
  /\ UNCHANGED <<shared, nextWrite, leases, r, range>>

(* One iteration of the scan: the compare-exchange Free -> Writing. *)
BeginWriteCas ==
  /\ w.pc = "reserve"
  /\ LET i == (nextWrite + w.at) % ChunkCount
     IN \/ /\ state[i] = "Free"
           /\ state' = [state EXCEPT ![i] = "Writing"]
           /\ w' = [w EXCEPT !.pc = "clear", !.slot = i]
        \/ /\ state[i] # "Free"
           /\ w' = IF w.at + 1 < ChunkCount THEN [w EXCEPT !.at = @ + 1]
                                            ELSE WIdle(NoSlot, 0)
           /\ UNCHANGED state
  /\ UNCHANGED <<fields, audio, resident, nextWrite, leases, r, range>>

BeginWriteClear ==
  /\ w.pc = "clear"
  /\ audio' = [audio EXCEPT ![w.slot] = NoAudio]
  /\ nextWrite' = Following(w.slot)
  /\ w' = WIdle(w.slot, 0)
  /\ UNCHANGED <<state, fields, resident, leases, r, range>>

(* The holder of a WriteReservation decodes into it (DecodeAhead::refill). *)
FillAudio(from, frames) ==
  /\ w.pc = "idle" /\ w.slot \in Slots
  /\ audio' = [audio EXCEPT ![w.slot] = [frames |-> frames, from |-> from]]
  /\ UNCHANGED <<state, fields, resident, nextWrite, leases, w, r, range>>

(* Worker: publish and cancel.  Publish of an invalid block is a cancel. *)

PublishCall(from, g, valid) ==
  /\ w.pc = "idle" /\ w.slot \in Slots
  /\ w' = [w EXCEPT !.pc = IF valid THEN "pubStart" ELSE "cancel", !.gen = g, !.from = from]
  /\ UNCHANGED <<shared, nextWrite, leases, r, range>>

M_PublishStart ==
  /\ w.pc = "pubStart"
  /\ w' = [w EXCEPT !.pc = "pubGen"]
  /\ UNCHANGED <<shared, nextWrite, leases, r, range>>
PublishStart ==
  /\ w.pc = "pubStart"
  /\ start' = [start EXCEPT ![w.slot] = w.from]
  /\ w' = [w EXCEPT !.pc = "pubGen"]
  /\ UNCHANGED <<state, gen, count, audio, resident, nextWrite, leases, r, range>>

PublishGeneration ==
  /\ w.pc = "pubGen"
  /\ gen' = [gen EXCEPT ![w.slot] = w.gen]
  /\ w' = [w EXCEPT !.pc = "pubCount"]
  /\ UNCHANGED <<state, start, count, audio, resident, nextWrite, leases, r, range>>

PublishCount ==
  /\ w.pc = "pubCount"
  /\ count' = [count EXCEPT ![w.slot] = audio[w.slot].frames]
  /\ w' = [w EXCEPT !.pc = "pubAdd"]
  /\ UNCHANGED <<state, gen, start, audio, resident, nextWrite, leases, r, range>>

PublishAdd ==
  /\ w.pc = "pubAdd"
  /\ resident' = resident + audio[w.slot].frames
  /\ w' = [w EXCEPT !.pc = "pubReady"]
  /\ UNCHANGED <<state, fields, audio, nextWrite, leases, r, range>>

PublishReady ==
  /\ w.pc = "pubReady"
  /\ state' = [state EXCEPT ![w.slot] = "Ready"]
  /\ w' = WIdle(NoSlot, 1)
  /\ UNCHANGED <<fields, audio, resident, nextWrite, leases, r, range>>

CancelCall ==
  /\ w.pc = "idle" /\ w.slot \in Slots
  /\ w' = [w EXCEPT !.pc = "cancel"]
  /\ UNCHANGED <<shared, nextWrite, leases, r, range>>

Cancel ==
  /\ w.pc = "cancel"
  /\ state' = IF state[w.slot] = "Writing" THEN [state EXCEPT ![w.slot] = "Free"] ELSE state
  /\ w' = WIdle(NoSlot, 0)
  /\ UNCHANGED <<fields, audio, resident, nextWrite, leases, r, range>>

(* Worker: discard_before_generation *)

DiscardCall(g) ==
  /\ w.pc = "idle" /\ w.slot = NoSlot
  /\ w' = [WIdle(NoSlot, 0) EXCEPT !.pc = "discard", !.gen = g]
  /\ UNCHANGED <<shared, nextWrite, leases, r, range>>

NextDiscard == IF w.at + 1 < ChunkCount
               THEN [w EXCEPT !.pc = "discard", !.at = @ + 1, !.n = 0]
               ELSE WIdle(NoSlot, 0)

M_Discardable(i) == state[i] \in {"Ready", "Reading"}
Discardable(i) == state[i] = "Ready"
M_Stale(i) == gen[i] <= w.gen
Stale(i) == gen[i] < w.gen

(* The compare-exchange Ready -> Reading; a slot in any other state is skipped. *)
DiscardCas ==
  /\ w.pc = "discard"
  /\ \/ /\ Discardable(w.at)
        /\ state' = [state EXCEPT ![w.at] = "Reading"]
        /\ w' = [w EXCEPT !.pc = "discardCheck"]
     \/ /\ ~ Discardable(w.at)
        /\ w' = NextDiscard
        /\ UNCHANGED state
  /\ UNCHANGED <<fields, audio, resident, nextWrite, leases, r, range>>

DiscardCheck ==
  /\ w.pc = "discardCheck"
  /\ \/ /\ Stale(w.at)
        /\ state' = [state EXCEPT ![w.at] = "Free"]
        /\ w' = [w EXCEPT !.pc = "discardSub", !.n = audio[w.at].frames]
     \/ /\ ~ Stale(w.at)
        /\ state' = [state EXCEPT ![w.at] = "Ready"]
        /\ w' = NextDiscard
  /\ UNCHANGED <<fields, audio, resident, nextWrite, leases, r, range>>

M_DiscardSub ==
  /\ w.pc = "discardSub"
  /\ w' = NextDiscard
  /\ UNCHANGED <<shared, nextWrite, leases, r, range>>
DiscardSub ==
  /\ w.pc = "discardSub"
  /\ resident' = resident - w.n
  /\ w' = NextDiscard
  /\ UNCHANGED <<state, fields, audio, nextWrite, leases, r, range>>

(* Worker: ready_count, one load per slot; the result is w.n. *)

ReadyCountCall ==
  /\ w.pc = "idle" /\ w.slot = NoSlot
  /\ w' = [WIdle(NoSlot, 0) EXCEPT !.pc = "ready"]
  /\ UNCHANGED <<shared, nextWrite, leases, r, range>>

ReadyCountLoad ==
  /\ w.pc = "ready"
  /\ LET n == IF state[w.at] = "Ready" THEN w.n + 1 ELSE w.n
     IN w' = IF w.at + 1 < ChunkCount THEN [w EXCEPT !.at = @ + 1, !.n = n]
                                      ELSE WIdle(NoSlot, n)
  /\ UNCHANGED <<shared, nextWrite, leases, r, range>>

WorkerStep ==
  \/ BeginWriteCas \/ BeginWriteClear
  \/ PublishStart \/ PublishGeneration \/ PublishCount \/ PublishAdd \/ PublishReady
  \/ Cancel
  \/ DiscardCas \/ DiscardCheck \/ DiscardSub
  \/ ReadyCountLoad

----------------------------------------------------------------------------
(* Renderer: try_acquire_ready.  A lease is the reservation it returns. *)

AcquireCall(g) ==
  /\ r.pc = "idle"
  /\ r' = [RIdle(NoSlot) EXCEPT !.pc = "acquire", !.gen = g]
  /\ UNCHANGED <<shared, nextWrite, leases, w, range>>

NextAcquire == IF r.at + 1 < ChunkCount
               THEN [r EXCEPT !.pc = "acquire", !.at = @ + 1]
               ELSE RIdle(NoSlot)

AcquireCas ==
  /\ r.pc = "acquire"
  /\ \/ /\ state[r.at] = "Ready"
        /\ state' = [state EXCEPT ![r.at] = "Reading"]
        /\ r' = [r EXCEPT !.pc = "acquireCheck"]
     \/ /\ state[r.at] # "Ready"
        /\ r' = NextAcquire
        /\ UNCHANGED state
  /\ UNCHANGED <<fields, audio, resident, nextWrite, leases, w, range>>

AcquireCheck ==
  /\ r.pc = "acquireCheck"
  /\ \/ /\ gen[r.at] = r.gen
        /\ leases' = leases \union {r.at}
        /\ r' = RIdle(r.at)
        /\ UNCHANGED state
     \/ /\ gen[r.at] # r.gen
        /\ state' = [state EXCEPT ![r.at] = "Ready"]
        /\ r' = NextAcquire
        /\ UNCHANGED leases
  /\ UNCHANGED <<fields, audio, resident, nextWrite, w, range>>

(* Renderer: release.  The caller forgets the reservation it passed. *)

ReleaseCall(i) ==
  /\ r.pc = "idle" /\ i \in leases
  /\ r' = [RIdle(NoSlot) EXCEPT !.pc = "release", !.at = i, !.n = audio[i].frames]
  /\ UNCHANGED <<shared, nextWrite, leases, w, range>>

ReleaseCas ==
  /\ r.pc = "release"
  /\ leases' = leases \ {r.at}
  /\ \/ /\ state[r.at] = "Reading"
        /\ state' = [state EXCEPT ![r.at] = "Free"]
        /\ r' = [r EXCEPT !.pc = "releaseSub"]
     \/ /\ state[r.at] # "Reading"
        /\ r' = RIdle(NoSlot)
        /\ UNCHANGED state
  /\ UNCHANGED <<fields, audio, resident, nextWrite, w, range>>

ReleaseSub ==
  /\ r.pc = "releaseSub"
  /\ resident' = resident - r.n
  /\ r' = RIdle(NoSlot)
  /\ UNCHANGED <<state, fields, audio, nextWrite, leases, w, range>>

(* Renderer: buffered_range.  Five loads per slot, the range widens when *)
(* the slot kept its state and holds the wanted generation.              *)

RangeCall(g) ==
  /\ r.pc = "idle"
  /\ r' = [RIdle(NoSlot) EXCEPT !.pc = "rangeState", !.gen = g]
  /\ range' = NoRange
  /\ UNCHANGED <<shared, nextWrite, leases, w>>

NextRange == IF r.at + 1 < ChunkCount
             THEN [RIdle(NoSlot) EXCEPT !.pc = "rangeState", !.at = r.at + 1, !.gen = r.gen]
             ELSE RIdle(NoSlot)

RangeState ==
  /\ r.pc = "rangeState"
  /\ r' = IF state[r.at] \in {"Ready", "Reading"}
          THEN [r EXCEPT !.pc = "rangeGen", !.seenState = state[r.at]] ELSE NextRange
  /\ UNCHANGED <<shared, nextWrite, leases, w, range>>

RangeGen ==
  /\ r.pc = "rangeGen"
  /\ r' = [r EXCEPT !.pc = "rangeStart", !.seenGen = gen[r.at]]
  /\ UNCHANGED <<shared, nextWrite, leases, w, range>>

RangeStart ==
  /\ r.pc = "rangeStart"
  /\ r' = [r EXCEPT !.pc = "rangeCount", !.seenStart = start[r.at]]
  /\ UNCHANGED <<shared, nextWrite, leases, w, range>>

RangeCount ==
  /\ r.pc = "rangeCount"
  /\ r' = [r EXCEPT !.pc = "rangeCheck", !.n = count[r.at]]
  /\ UNCHANGED <<shared, nextWrite, leases, w, range>>

Widen(span, lo, hi) ==
  IF span.hi = 0 THEN [lo |-> lo, hi |-> hi]
  ELSE [lo |-> Min({span.lo, lo}), hi |-> Max({span.hi, hi})]

M_Counts == state[r.at] = r.seenState /\ r.n > 0
Counts == state[r.at] = r.seenState /\ r.seenGen = r.gen /\ r.n > 0

RangeCheck ==
  /\ r.pc = "rangeCheck"
  /\ range' = IF Counts
              THEN Widen(range, r.seenStart, r.seenStart + r.n) ELSE range
  /\ r' = NextRange
  /\ UNCHANGED <<shared, nextWrite, leases, w>>

RendererStep ==
  \/ AcquireCas \/ AcquireCheck
  \/ ReleaseCas \/ ReleaseSub
  \/ RangeState \/ RangeGen \/ RangeStart \/ RangeCount \/ RangeCheck

----------------------------------------------------------------------------
(* The most general pair of callers: any arguments are legal here, in any     *)
(* order.                                                                     *)

WorkerCall ==
  \/ BeginWriteCall
  \/ \E f \in Starts, n \in 1 .. MaxFrames : FillAudio(f, n)
  \/ \E g \in Generations, v \in BOOLEAN : PublishCall(audio[w.slot].from, g, v)
  \/ CancelCall
  \/ \E g \in Generations : DiscardCall(g)
  \/ ReadyCountCall

RendererCall ==
  \/ \E g \in Generations : AcquireCall(g)
  \/ \E i \in leases : ReleaseCall(i)
  \/ \E g \in Generations : RangeCall(g)

Next == WorkerCall \/ WorkerStep \/ RendererCall \/ RendererStep

Spec == PoolInit /\ [][Next]_poolVars

----------------------------------------------------------------------------
(* Properties *)

WorkerPcs == {"idle", "reserve", "clear", "pubStart", "pubGen", "pubCount", "pubAdd",
              "pubReady", "cancel", "discard", "discardCheck", "discardSub", "ready"}
RendererPcs == {"idle", "acquire", "acquireCheck", "release", "releaseSub", "rangeState",
                "rangeGen", "rangeStart", "rangeCount", "rangeCheck"}

WorkerCalls == [pc : WorkerPcs, at : Slots, slot : Slots \union {NoSlot}, gen : Generations,
                from : Starts, n : Nat]
RendererCalls == [pc : RendererPcs, at : Slots, slot : Slots \union {NoSlot}, gen : Generations,
                  n : FrameCounts, seenGen : Generations, seenStart : Starts,
                  seenState : SlotState]

(* Every variable has its type; the indices of a running call name a slot. *)
TypeOK ==
  /\ state \in [Slots -> SlotState]
  /\ gen \in [Slots -> Generations]
  /\ start \in [Slots -> Starts]
  /\ count \in [Slots -> FrameCounts]
  /\ audio \in [Slots -> [frames : FrameCounts, from : Starts]]
  /\ resident \in Int
  /\ nextWrite \in Slots
  /\ leases \subseteq Slots
  /\ w \in WorkerCalls /\ r \in RendererCalls
  /\ range \in [lo : Nat, hi : Nat]

Writes(i) == w.slot = i                             \* WriteReservation, or inside its calls
Discards(i) == w.pc = "discardCheck" /\ w.at = i
Probes(i) == r.pc = "acquireCheck" /\ r.at = i      \* try_acquire_ready looks at the slot
Leases(i) == i \in leases

(* The slot state is the lock of the slot's non-atomic audio block: a slot is *)
(* Writing exactly while the worker holds its reservation, and Reading exactly *)
(* while one of the two threads looks at it, so no audio block is ever touched *)
(* by both threads (no data race) and no slot is lost.                         *)
ExclusiveAudio ==
  \A i \in Slots :
    /\ (state[i] = "Writing") <=> Writes(i)
    /\ (state[i] = "Reading") <=> (Discards(i) \/ Probes(i) \/ Leases(i))
    /\ ~ (Discards(i) /\ (Probes(i) \/ Leases(i)))
    /\ ~ (Probes(i) /\ Leases(i))

(* A chunk that can be acquired, discarded or played was published whole: its *)
(* metadata is that of the audio the slot holds.                               *)
PublishedWhole ==
  \A i \in Slots : state[i] \in {"Ready", "Reading"} =>
     start[i] = audio[i].from /\ count[i] = audio[i].frames

(* What the two threads have still to add to or take from resident_frames_. *)
PendingFrames ==
  (IF w.pc \in {"discardSub"} THEN w.n ELSE 0)
  + (IF r.pc = "releaseSub" THEN r.n ELSE 0)
  + (IF w.pc = "pubReady" THEN audio[w.slot].frames ELSE 0)

(* The relaxed counter behind the status message is exact at every moment up  *)
(* to the updates still in flight; in particular it never wraps below zero.   *)
ResidentExact ==
  resident = PendingFrames
             + MapThenSumSet(LAMBDA i : audio[i].frames,
                             {i \in Slots : state[i] \in {"Ready", "Reading"}})

(* A leased chunk is frozen: nothing the worker does changes its audio or its *)
(* metadata until the renderer gives it back.                                  *)
LeaseFrozen ==
  [][\A i \in leases : i \in leases' =>
       /\ state'[i] = "Reading" /\ audio'[i] = audio[i]
       /\ gen'[i] = gen[i] /\ start'[i] = start[i]]_poolVars

(* The chunk store the pool implements: a slot that is merely being probed or *)
(* examined by a discard still counts as Ready.                               *)
PhaseOf(i) ==
  CASE state[i] = "Free" -> "Free"
    [] state[i] = "Writing" -> "Filling"
    [] state[i] = "Ready" \/ (state[i] = "Reading" /\ i \notin leases) -> "Ready"
    [] OTHER -> "Leased"
NoChunkHere == [gen |-> 0, start |-> 0, frames |-> 0]
ChunkOf(i) == IF PhaseOf(i) \in {"Ready", "Leased"}
              THEN [gen |-> gen[i], start |-> start[i], frames |-> audio[i].frames]
              ELSE NoChunkHere
GenOf(c) == c.gen

Abstract == INSTANCE ChunkStore WITH
  Cells <- Slots, Gens <- Generations, NoChunk <- NoChunkHere, GenerationOf <- GenOf,
  Chunks <- [gen : Generations, start : Starts, frames : FrameCounts],
  phase <- [i \in Slots |-> PhaseOf(i)], chunk <- [i \in Slots |-> ChunkOf(i)]

(* Every step of the two threads is a step of the chunk store or none: chunks *)
(* appear whole, never change, are leased once and dropped only when stale.    *)
Store == Abstract!StoreSpec
=============================================================================
