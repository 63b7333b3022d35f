--------------------------- MODULE PlaybackCoordinator ---------------------------
(***************************************************************************)
(* One deck's playback path: DecodeAhead fills the pool on the worker,     *)
(* DecodeAheadRenderer drains it on the audio callback, and a versioned    *)
(* snapshot (a sequence lock: odd while a transition runs) tells the       *)
(* renderer which generation to play and from where.                       *)
(*                                                                         *)
(* wk and rk are the program counters of the two threads above the pool's  *)
(* w and r.  A step that only touches thread-local data is joined to the   *)
(* shared access next to it; every atomic load or store stays a step.      *)
(*                                                                         *)
(* Data kept: media frames, generations, track length.  The channel count  *)
(* identifies the track (a track is its length), the other metadata and    *)
(* the decode error are published beside it and left out.  The render loop *)
(* advances one media frame per output frame (rate 1); a loop (its         *)
(* retained chunks and the wrap) is left out.                              *)
(*                                                                         *)
(* M_X is a plausible bug in X: the properties are checked to notice it.   *)
(***************************************************************************)
EXTENDS DecodedAudioPool, Sequences

CONSTANTS
  Tracks,         \* lengths in frames of the files that can be opened
  SeekTargets,    \* frames worker_seek is called with; one past the end is rejected
  ChunkFrames,    \* chunk_frames_: frames per decoded chunk
  HighWatermark,  \* high_watermark_
  Quantum,        \* requested_frames of a render call
  DecodeFaults,   \* how a decoder read may fail: subset of {"Error", "Invalid"}
  MaxVersion      \* bound on transition_version_ (two per transition)

ASSUME TracksAssumption == Tracks \subseteq 1 .. MaxFrame
ASSUME SeekAssumption == SeekTargets \subseteq Nat
ASSUME FramesAssumption == /\ ChunkFrames \in 1 .. MaxFrames
                           /\ Quantum \in Nat /\ Quantum > 0
ASSUME WatermarkAssumption == HighWatermark \in 1 .. ChunkCount
ASSUME FaultsAssumption == DecodeFaults \subseteq {"Error", "Invalid"}
ASSUME VersionAssumption == MaxVersion \in Nat /\ 2 * MaxGeneration >= MaxVersion

VARIABLES
  wk,         \* worker: what the coordinator call in progress does next
  todo,       \* worker: published_* stores still to make, in order
  decoder,    \* Decoder: length of the open track (0: closed), current_frame
  decGen,     \* DecodeAhead::generation_
  decState,   \* DecodeAhead::state_
  version,    \* transition_version_
  published,  \* the published_* atomics
  refused,    \* history: a seek of this generation was refused
  rk,         \* audio thread: what the coordinator call in progress does next
  snap,       \* audio thread: the snapshot it is reading, and the attempt
  adopted,    \* adopted_generation_
  renderGen,  \* VarispeedRenderer::generation_
  pos         \* VarispeedRenderer::media_position_

workerVars == <<wk, todo, decoder, decGen, decState, version, published, refused>>
audioVars == <<rk, snap, adopted, renderGen, pos>>
vars == <<poolVars, workerVars, audioVars>>

DecodeAheadState == {"Closed", "Ready", "EndOfStream", "Error"}
Closed == [length |-> 0, at |-> 0]
Unpublished == [gen |-> 0, frame |-> 0, channels |-> 0, duration |-> 0, state |-> "Closed"]
NoSnap == [attempt |-> 0, version |-> 0, gen |-> 0, frame |-> 0, channels |-> 0, duration |-> 0]

Init ==
  /\ PoolInit
  /\ wk = "idle" /\ todo = <<>>
  /\ decoder = Closed /\ decGen = 0 /\ decState = "Closed"
  /\ version = 0 /\ published = Unpublished /\ refused = FALSE
  /\ rk = "idle" /\ snap = NoSnap
  /\ adopted = 0 /\ renderGen = 0 /\ pos = 0

----------------------------------------------------------------------------
(* Worker: open, seek, close.  begin_transition makes the version odd, the  *)
(* decode-ahead object moves to the next generation and discards the older  *)
(* ones, the fields are stored one by one, finish_transition makes the      *)
(* version even.                                                            *)

WorkerIdle == wk = "idle" /\ w.pc = "idle"

M_NextGeneration == decGen
NextGeneration == decGen + 1

(* advance_generation and discard_before_generation inside a transition. *)
Transition(dec, st, stores) ==
  /\ WorkerIdle /\ version + 2 <= MaxVersion
  /\ version' = version + 1
  /\ decGen' = NextGeneration
  /\ DiscardCall(decGen')
  /\ decoder' = dec /\ decState' = st
  /\ todo' = stores
  /\ wk' = "publish"
  /\ refused' = FALSE
  /\ UNCHANGED <<published, audioVars>>

Duration(n) == <<"duration", n>>
State(s) == <<"state", s>>
(* publish_transition *)
Snapshot(f, n) == << <<"gen", NextGeneration>>, <<"frame", f>>, <<"channels", n>> >>

WorkerOpen(n) ==
  Transition([length |-> n, at |-> 0], "Ready",
             <<Duration(n), State("Ready")>> \o Snapshot(0, n))

WorkerOpenFails ==
  Transition(Closed, "Error", <<Duration(0), State("Error")>> \o Snapshot(0, 0))

WorkerClose ==
  Transition(Closed, "Closed", <<Duration(0), State("Closed")>> \o Snapshot(0, 0))

M_SeekState(f) == decState
SeekState(f) == IF f = decoder.length THEN "EndOfStream" ELSE "Ready"

WorkerSeek(f) ==
  /\ decoder.length > 0 /\ f <= decoder.length
  /\ Transition([decoder EXCEPT !.at = f], SeekState(f),
                << <<"gen", NextGeneration>>, <<"frame", f>>, State(SeekState(f))>>)

(* Decoder::seek_frame refuses: the transition changes the version only. *)
WorkerSeekRejected(f) ==
  /\ WorkerIdle /\ version + 2 <= MaxVersion
  /\ decoder.length = 0 \/ f > decoder.length
  /\ version' = version + 1
  /\ wk' = "publish" /\ todo' = <<>> /\ refused' = TRUE
  /\ UNCHANGED <<poolVars, decoder, decGen, decState, published, audioVars>>

WorkerPublish ==
  /\ wk = "publish" /\ w.pc = "idle" /\ todo # <<>>
  /\ published' = [published EXCEPT ![todo[1][1]] = todo[1][2]]
  /\ todo' = Tail(todo)
  /\ UNCHANGED <<poolVars, wk, decoder, decGen, decState, version, refused, audioVars>>

WorkerFinish ==
  /\ wk = "publish" /\ todo = <<>>
  /\ version' = version + 1
  /\ wk' = "idle"
  /\ UNCHANGED <<poolVars, todo, decoder, decGen, decState, published, refused, audioVars>>

----------------------------------------------------------------------------
(* Worker: refill.  DecodeAhead::refill, then one store of the state. *)

(* refill returns with state st: worker_refill publishes it. *)
RefillReturns(st) ==
  /\ decState' = st
  /\ published' = [published EXCEPT !.state = st]
  /\ wk' = "idle"

WorkerRefill ==
  /\ WorkerIdle
  /\ \/ decState # "Ready" /\ RefillReturns(decState) /\ UNCHANGED poolVars
     \/ /\ decState = "Ready" /\ ReadyCountCall
        /\ wk' = "refillCount" /\ UNCHANGED <<decState, published>>
  /\ UNCHANGED <<todo, decoder, decGen, version, refused, audioVars>>

RefillReserve ==
  /\ wk = "refillCount" /\ w.pc = "idle"
  /\ \/ /\ w.n < HighWatermark /\ BeginWriteCall
        /\ wk' = "refillReserve" /\ UNCHANGED <<decState, published>>
     \/ /\ w.n >= HighWatermark /\ RefillReturns("Ready") /\ UNCHANGED poolVars
  /\ UNCHANGED <<todo, decoder, decGen, version, refused, audioVars>>

Remaining == decoder.length - decoder.at
M_ReadFrames == ChunkFrames
ReadFrames == Min({ChunkFrames, Remaining})

(* Decoder::read into the reserved block, or no free slot. *)
RefillRead ==
  /\ wk = "refillReserve" /\ w.pc = "idle"
  /\ \/ /\ w.slot = NoSlot
        /\ RefillReturns("Ready") /\ UNCHANGED <<poolVars, decoder>>
     \/ /\ w.slot # NoSlot /\ Remaining = 0 /\ CancelCall
        /\ wk' = "refillEnd" /\ UNCHANGED <<decState, published, decoder>>
     \/ /\ w.slot # NoSlot /\ "Error" \in DecodeFaults /\ Remaining > 0 /\ CancelCall
        /\ wk' = "refillError" /\ UNCHANGED <<decState, published, decoder>>
     \/ /\ w.slot # NoSlot /\ Remaining > 0
        /\ FillAudio(decoder.at, ReadFrames)
        /\ decoder' = [decoder EXCEPT !.at = @ + ReadFrames]
        /\ wk' = "refillPublish" /\ UNCHANGED <<decState, published>>
  /\ UNCHANGED <<todo, decGen, version, refused, audioVars>>

RefillPublish ==
  /\ wk = "refillPublish"
  /\ \/ /\ PublishCall(audio[w.slot].from, decGen, TRUE)
        /\ wk' = "refillPublished"
     \/ /\ "Invalid" \in DecodeFaults
        /\ PublishCall(audio[w.slot].from, decGen, FALSE)
        /\ wk' = "refillError"
  /\ UNCHANGED <<todo, decoder, decGen, decState, version, published, refused, audioVars>>

(* The chunk is in: stop after the final one, else count again. *)
RefillPublished ==
  /\ wk = "refillPublished" /\ w.pc = "idle"
  /\ \/ Remaining = 0 /\ RefillReturns("EndOfStream") /\ UNCHANGED poolVars
     \/ /\ Remaining > 0 /\ ReadyCountCall
        /\ wk' = "refillCount" /\ UNCHANGED <<decState, published>>
  /\ UNCHANGED <<todo, decoder, decGen, version, refused, audioVars>>

RefillStops ==
  /\ w.pc = "idle"
  /\ \/ wk = "refillEnd" /\ RefillReturns("EndOfStream")
     \/ wk = "refillError" /\ RefillReturns("Error")
  /\ UNCHANGED <<poolVars, todo, decoder, decGen, version, refused, audioVars>>

WorkerCallNext ==
  \/ \E n \in Tracks : WorkerOpen(n)
  \/ WorkerOpenFails \/ WorkerClose
  \/ \E f \in SeekTargets : WorkerSeek(f) \/ WorkerSeekRejected(f)
  \/ WorkerRefill

WorkerRuns ==
  \/ WorkerStep /\ UNCHANGED <<workerVars, audioVars>>
  \/ WorkerPublish \/ WorkerFinish
  \/ RefillReserve \/ RefillRead \/ RefillPublish \/ RefillPublished \/ RefillStops

----------------------------------------------------------------------------
(* Audio thread: render.  try_read_snapshot makes two attempts. *)

AudioAt(pc) == rk = pc /\ r.pc = "idle"

M_TransitionRuns == FALSE
TransitionRuns == version % 2 = 1

(* The load of the version that opens an attempt; an odd version gives up. *)
LoadVersion(attempt, loads, busy) ==
  /\ IF TransitionRuns THEN rk' = busy /\ snap' = NoSnap
     ELSE rk' = loads /\ snap' = [NoSnap EXCEPT !.attempt = attempt, !.version = version]
  /\ UNCHANGED <<poolVars, workerVars, adopted, renderGen, pos>>

(* One relaxed load of a published field. *)
Load(pc, field, next) ==
  /\ AudioAt(pc)
  /\ snap' = [snap EXCEPT ![field] = published[field]]
  /\ rk' = next
  /\ UNCHANGED <<poolVars, workerVars, adopted, renderGen, pos>>

RenderCall == AudioAt("idle") /\ LoadVersion(1, "gen", "suspend")
SnapGen == Load("gen", "gen", "frame")
SnapFrame == Load("frame", "frame", "channels")
SnapChannels == Load("channels", "channels", "check")

SnapCheck ==
  /\ AudioAt("check")
  /\ rk' = CASE version # snap.version /\ snap.attempt = 1 -> "retry"
             [] version # snap.version /\ snap.attempt = 2 -> "suspend"
             [] version = snap.version /\ snap.gen # adopted -> "prepare"
             [] OTHER -> "acquire"
  /\ UNCHANGED <<poolVars, workerVars, snap, adopted, renderGen, pos>>

SnapRetry == AudioAt("retry") /\ LoadVersion(2, "gen", "suspend")

(* release_all: one release per reservation, in the order of the array. *)
ReleaseAll(pc) ==
  /\ AudioAt(pc) /\ \E i \in leases : ReleaseCall(i)
  /\ UNCHANGED <<workerVars, audioVars>>

(* render_suspended: all leases go, then silence. *)
Suspended ==
  /\ AudioAt("suspend") /\ leases = {}
  /\ rk' = "idle" /\ snap' = NoSnap
  /\ UNCHANGED <<poolVars, workerVars, adopted, renderGen, pos>>

(* prepare and adopt the snapshot. *)
M_Prepared ==
  /\ AudioAt("prepare")
  /\ renderGen' = snap.gen /\ pos' = snap.frame /\ adopted' = snap.gen
  /\ rk' = "acquire"
  /\ UNCHANGED <<poolVars, workerVars, snap>>
Prepared ==
  /\ AudioAt("prepare") /\ leases = {}
  /\ renderGen' = snap.gen /\ pos' = snap.frame /\ adopted' = snap.gen
  /\ rk' = "acquire"
  /\ UNCHANGED <<poolVars, workerVars, snap>>

(* acquire_ready_chunks: one try_acquire_ready per empty reservation until *)
(* one fails.                                                              *)
Acquire ==
  /\ AudioAt("acquire")
  /\ \/ Cardinality(leases) < ChunkCount /\ AcquireCall(renderGen) /\ rk' = "acquired"
     \/ Cardinality(leases) = ChunkCount /\ rk' = "render" /\ UNCHANGED poolVars
  /\ UNCHANGED <<workerVars, snap, adopted, renderGen, pos>>

M_Acquired ==
  /\ AudioAt("acquired")
  /\ rk' = "acquire"
  /\ UNCHANGED <<poolVars, workerVars, snap, adopted, renderGen, pos>>
Acquired ==
  /\ AudioAt("acquired")
  /\ rk' = IF r.slot = NoSlot THEN "render" ELSE "acquire"
  /\ UNCHANGED <<poolVars, workerVars, snap, adopted, renderGen, pos>>

End(i) == start[i] + audio[i].frames
FramesOf(i) == start[i] .. End(i) - 1
LeasedFrames == UNION {FramesOf(i) : i \in leases}

(* The position after a quantum that starts at p: it stops at the first *)
(* frame no lease holds.                                                *)
Advance(p) == Max({q \in p .. p + Quantum : p .. q - 1 \subseteq LeasedFrames})

(* VarispeedRenderer::render: paused, or playing from the position or from a *)
(* resident cue frame; render_underrun when nothing is leased.               *)
Render(playing) ==
  /\ AudioAt("render")
  /\ \E p \in {pos} \union LeasedFrames : pos' = IF playing THEN Advance(p) ELSE p
  /\ rk' = "consume" /\ snap' = NoSnap
  /\ UNCHANGED <<poolVars, workerVars, adopted, renderGen>>

M_Consumed == {i \in leases : End(i) <= pos + 1}
Consumed == {i \in leases : End(i) <= pos}

(* release_consumed *)
Consume ==
  /\ AudioAt("consume")
  /\ \/ \E i \in Consumed : ReleaseCall(i) /\ UNCHANGED rk
     \/ Consumed = {} /\ rk' = "idle" /\ UNCHANGED poolVars
  /\ UNCHANGED <<workerVars, snap, adopted, renderGen, pos>>

----------------------------------------------------------------------------
(* Audio thread: try_read_diagnostics, for the status message. *)

DiagnosticsCall == AudioAt("idle") /\ LoadVersion(1, "diagGen", "diagBusy")
DiagGen == Load("diagGen", "gen", "diagDuration")
DiagDuration == Load("diagDuration", "duration", "diagRange")

DiagRange ==
  /\ AudioAt("diagRange") /\ RangeCall(snap.gen) /\ rk' = "diagCheck"
  /\ UNCHANGED <<workerVars, snap, adopted, renderGen, pos>>

DiagCheck ==
  /\ AudioAt("diagCheck")
  /\ rk' = CASE version # snap.version /\ snap.attempt = 1 -> "diagRetry"
             [] version # snap.version /\ snap.attempt = 2 -> "diagBusy"
             [] OTHER -> "diagDone"
  /\ UNCHANGED <<poolVars, workerVars, snap, adopted, renderGen, pos>>

DiagRetry == AudioAt("diagRetry") /\ LoadVersion(2, "diagGen", "diagBusy")

(* The caller takes the diagnostics, or reports none. *)
DiagReturn ==
  /\ AudioAt("diagDone") \/ AudioAt("diagBusy")
  /\ rk' = "idle" /\ snap' = NoSnap
  /\ UNCHANGED <<poolVars, workerVars, adopted, renderGen, pos>>

AudioCallNext == RenderCall \/ DiagnosticsCall

AudioRuns ==
  \/ RendererStep /\ UNCHANGED <<workerVars, audioVars>>
  \/ SnapGen \/ SnapFrame \/ SnapChannels \/ SnapCheck \/ SnapRetry
  \/ ReleaseAll("suspend") \/ Suspended \/ ReleaseAll("prepare") \/ Prepared
  \/ Acquire \/ Acquired \/ (\E playing \in BOOLEAN : Render(playing)) \/ Consume
  \/ DiagGen \/ DiagDuration \/ DiagRange \/ DiagCheck \/ DiagRetry \/ DiagReturn

PlayNext == WorkerCallNext \/ WorkerRuns \/ AudioCallNext \/ AudioRuns

PlaySpec == Init /\ [][PlayNext]_vars

----------------------------------------------------------------------------
(* Properties *)

(* The variables of the coordinator have their types. *)
PlayTypeOK ==
  /\ TypeOK
  /\ wk \in {"idle", "publish", "refillCount", "refillReserve", "refillPublish",
             "refillPublished", "refillEnd", "refillError"}
  /\ decoder \in [length : {0} \union Tracks, at : Starts]
  /\ decGen \in Generations /\ decState \in DecodeAheadState
  /\ version \in 0 .. MaxVersion /\ refused \in BOOLEAN
  /\ published \in [gen : Generations, frame : Starts, channels : {0} \union Tracks,
                    duration : {0} \union Tracks, state : DecodeAheadState]
  /\ rk \in {"idle", "gen", "frame", "channels", "check", "retry", "suspend", "prepare",
             "acquire", "acquired", "render", "consume", "diagGen", "diagDuration",
             "diagRange", "diagCheck", "diagRetry", "diagBusy", "diagDone"}
  /\ adopted \in Generations /\ renderGen \in Generations /\ pos \in Starts

Resident(g) == {i \in Slots : state[i] \in {"Ready", "Reading"} /\ gen[i] = g}

(* A snapshot the version check accepts is one the worker published as a whole: *)
(* generation, start position and channel count belong together.               *)
SnapshotWhole ==
  rk = "check" /\ version = snap.version =>
     /\ snap.gen = decGen
     /\ snap.gen = published.gen /\ snap.frame = published.frame
     /\ snap.channels = published.channels

(* Accepted diagnostics are whole too, although their buffered range is read    *)
(* slot by slot while the worker refills: each end of the range is the end of a *)
(* chunk of the reported generation that is resident now.                       *)
DiagnosticsWhole ==
  rk = "diagCheck" /\ r.pc = "idle" /\ version = snap.version =>
     /\ snap.gen = published.gen /\ snap.duration = published.duration
     /\ range.hi <= snap.duration
     /\ range # NoRange => \E i, j \in Resident(snap.gen) :
                              range.lo = start[i] /\ range.hi = End(j)

(* What the renderer reads without a lock while the worker goes on is whole     *)
(* whenever it is accepted, be it a snapshot or diagnostics.                    *)
ReadsAreWhole == SnapshotWhole /\ DiagnosticsWhole

(* The renderer plays one generation at a time, and never a newer one than the *)
(* worker's or one it did not adopt.                                           *)
OneGeneration ==
  /\ renderGen = adopted /\ adopted <= decGen
  /\ \A i \in leases : gen[i] = adopted

(* The chunks of a generation tile the track: no frame is in two of them. *)
NoOverlap ==
  \A i, j \in Slots : i # j /\ gen[i] = gen[j] /\ {i, j} \subseteq Resident(gen[i])
     => FramesOf(i) \cap FramesOf(j) = {}

(* Nothing is lost between the decoder and the position: once the renderer has  *)
(* adopted the worker's generation, every frame from the media position to the *)
(* decoder's is in a resident chunk or in the one being published.              *)
Held == Resident(decGen) \union (IF w.slot \in Slots THEN {w.slot} ELSE {})
Between == pos .. decoder.at - 1
NoHole ==
  adopted = decGen /\ decState \in {"Ready", "EndOfStream"} /\ wk # "refillError"
    => Between \subseteq UNION {audio[i].from .. audio[i].from + audio[i].frames - 1 : i \in Held}

NoHoleUnlessRefused == refused \/ NoHole

(* The audio callback runs to its end once it started; nothing is assumed of *)
(* the worker, which may be preempted anywhere.                              *)
AudioSpec == PlaySpec /\ WF_vars(AudioRuns)

(* A render or diagnostics call returns whatever the worker does or fails to do: *)
(* the audio side never waits for the worker.                                    *)
RenderReturns == [](rk # "idle" => <>(rk = "idle"))

(* The worker loop refills again and again and the audio thread keeps calling *)
(* render.                                                                    *)
ThreadsRun ==
  /\ WF_vars(AudioRuns) /\ SF_vars(RenderCall)
  /\ WF_vars(WorkerRuns) /\ SF_vars(WorkerRefill)

Steady == decState \in {"Ready", "EndOfStream"} /\ pos < decoder.length
Stalled == Steady /\ pos \notin LeasedFrames
StaleReady == {i \in Slots : state[i] = "Ready" /\ gen[i] < decGen}

(* A deck that has more to play is not silent for ever: the frame at the media *)
(* position gets leased, unless a refused seek lost it (see NoHole) or chunks  *)
(* that a discard missed fill the whole refill window (see PlaysOnAfterSeek).  *)
PlaysOn ==
  ThreadsRun =>
    (Steady ~> (~ Stalled \/ refused \/ Cardinality(StaleReady) >= HighWatermark))

(* The same without the second exception: a seek never starves the deck. *)
PlaysOnAfterSeek == ThreadsRun => (Steady ~> (~ Stalled \/ refused))
=============================================================================
