----------------------- MODULE PlaybackCoordinatorProofs -----------------------
(***************************************************************************)
(* Proofs about one deck's playback path, for every number of slots, every *)
(* track and every bound: the snapshot is read whole, the diagnostics are  *)
(* whole, the renderer plays one generation, the chunks of a generation    *)
(* tile the track, and nothing between the position and the decoder is     *)
(* lost unless a seek was refused.                                         *)
(***************************************************************************)
EXTENDS PlaybackCoordinator, DecodedAudioPoolProofs, SequenceTheorems, FiniteSetTheorems,
        WellFoundedInduction

-----------------------------------------------------------------------------
(* The inductive invariant                                                 *)

StoresToMake ==
  ({"gen"} \X Generations) \cup ({"frame"} \X Starts)
  \cup ({"channels", "duration"} \X ({0} \cup Tracks)) \cup ({"state"} \X DecodeAheadState)
Snapshots == [attempt : {0, 1, 2}, version : 0 .. MaxVersion, gen : Generations, frame : Starts,
              channels : {0} \cup Tracks, duration : {0} \cup Tracks]

(* The variables have their types; what the worker has still to store, and *)
(* what the renderer has loaded, too.                                      *)
CoordinatorTypeOK == PlayTypeOK /\ todo \in Seq(StoresToMake) /\ snap \in Snapshots

(* Where the worker is in the pool while the coordinator waits for it. *)
WorkerPlace ==
  /\ wk = "idle" => w.pc = "idle" /\ w.slot = NoSlot
  /\ wk = "publish" =>
       /\ w.pc \in {"idle", "discard", "discardCheck", "discardSub"} /\ w.slot = NoSlot
       /\ w.pc # "idle" => todo # <<>>
  /\ wk = "refillCount" => w.pc \in {"idle", "ready"} /\ w.slot = NoSlot
  /\ wk = "refillReserve" => w.pc \in {"idle", "reserve", "clear"}
  /\ wk = "refillPublish" => w.pc = "idle" /\ w.slot \in Slots
  /\ wk = "refillPublished" =>
       IF w.pc = "idle" THEN w.slot = NoSlot
       ELSE w.pc \in {"pubStart", "pubGen", "pubCount", "pubAdd", "pubReady"} /\ w.gen = decGen
  /\ wk \in {"refillEnd", "refillError"} =>
       w.pc = "cancel" \/ (w.pc = "idle" /\ w.slot = NoSlot)
  /\ wk \notin {"idle", "publish"} => decState = "Ready"

(* Where the audio thread is in the pool. *)
AudioPlace ==
  /\ r.pc \in {"acquire", "acquireCheck"} => rk = "acquired" /\ r.gen = renderGen
  /\ r.pc \in {"release", "releaseSub"} => rk \in {"suspend", "prepare", "consume"}
  /\ r.pc \in {"rangeState", "rangeGen", "rangeStart", "rangeCount", "rangeCheck"} =>
       rk = "diagCheck" /\ r.gen = snap.gen

(* The version is odd while a transition runs, and counts two for each. *)
Versions ==
  /\ wk = "publish" <=> version % 2 = 1
  /\ wk = "publish" => version < MaxVersion
  /\ 2 * decGen <= IF wk = "publish" THEN version + 1 ELSE version

(* What is published is of the worker's generation, but for the stores that *)
(* are still to be made.                                                    *)
Due(field) == \E i \in DOMAIN todo : todo[i][1] = field
StoresFit ==
  /\ \A i \in DOMAIN todo :
       /\ todo[i][1] = "gen" => todo[i][2] = decGen
       /\ todo[i][1] = "frame" => todo[i][2] = decoder.at
       /\ todo[i][1] \in {"channels", "duration"} => todo[i][2] = decoder.length
  /\ ~ Due("gen") => published.gen = decGen
  /\ ~ Due("channels") => published.channels = decoder.length
  /\ ~ Due("duration") => published.duration = decoder.length
  /\ wk = "publish" /\ ~ refused /\ ~ Due("frame") => published.frame = decoder.at
  /\ wk # "publish" \/ refused => todo = <<>> /\ published.frame <= decoder.at
  /\ published.gen <= decGen
  /\ decoder.at <= decoder.length

(* While the version is the one that was loaded, the fields loaded are the *)
(* published ones.                                                         *)
Loading == {"gen", "frame", "channels", "check", "diagGen", "diagDuration", "diagRange", "diagCheck"}
SnapFits ==
  /\ rk \in Loading => snap.version <= version /\ snap.version % 2 = 0
  /\ rk \in Loading => snap.attempt \in {1, 2}
  /\ rk \in Loading /\ snap.version = version =>
       /\ rk \in Loading \ {"gen", "diagGen"} => snap.gen = published.gen
       /\ rk \in {"channels", "check"} => snap.frame = published.frame
       /\ rk = "check" => snap.channels = published.channels
       /\ rk \in {"diagRange", "diagCheck"} => snap.duration = published.duration
  /\ rk \in Loading \cup {"prepare"} => snap.gen <= decGen

(* The renderer is behind: it has not adopted the worker's generation yet, *)
(* or a seek was refused.                                                  *)
Behind == adopted < decGen \/ refused
Follows ==
  /\ wk = "publish" => Behind
  /\ rk \in {"suspend", "prepare", "retry"} => Behind
  /\ rk \in {"gen", "frame", "channels", "check"} /\ snap.version # version => Behind
  /\ rk = "prepare" =>
       /\ adopted < decGen
       /\ snap.gen = decGen => /\ snap.frame = published.frame
                               /\ wk = "publish" => refused

Leased == renderGen = adopted /\ adopted <= decGen /\ \A i \in leases : gen[i] = adopted

PlayInv ==
  /\ PoolInv /\ CoordinatorTypeOK /\ WorkerPlace /\ AudioPlace /\ Versions
  /\ StoresFit /\ SnapFits /\ Follows /\ Leased

(* No chunk reaches past the longest track. *)
AudioFits == \A i \in Slots : audio[i].from + audio[i].frames <= MaxFrame


-----------------------------------------------------------------------------
(* The pool is driven as its own specification allows                      *)

USE ChunkCountAssumption, BoundsAssumption

(* Lengths and frames are naturals up to MaxFrame; so are generations and  *)
(* versions up to their bounds.                                            *)
LEMMA Bounds ==
  /\ \A n \in {0} \cup Tracks : n \in Nat /\ n <= MaxFrame /\ n \in Starts
  /\ \A f \in Starts : f \in Nat /\ f <= MaxFrame
  /\ \A g \in Generations : g \in Nat /\ g <= MaxGeneration
  /\ \A f \in Nat : f <= MaxFrame => f \in Starts
  /\ 0 \in Starts /\ 0 \in Generations
<1>1. ASSUME NEW n \in Tracks PROVE n \in Nat /\ n <= MaxFrame /\ n \in Starts
  <2>1. n \in 1 .. MaxFrame
    BY TracksAssumption
  <2> QED
    BY <2>1 DEF Starts
<1> QED
  BY <1>1 DEF Starts, Generations

(* The smaller of two naturals is one of them and not above either.        *)
LEMMA MinOfTwo ==
  ASSUME NEW a \in Nat, NEW b \in Nat
  PROVE  LET m == Min({a, b}) IN m \in {a, b} /\ m <= a /\ m <= b
<1>1. \E x \in {a, b} : \A y \in {a, b} : x =< y
  <2>1. CASE a =< b
    BY <2>1
  <2>2. CASE b =< a
    BY <2>2
  <2> QED
    BY <2>1, <2>2
<1> QED
  BY <1>1 DEF Min

(* A read asks for a positive number of frames of the rest of the track.   *)
LEMMA ReadSome ==
  ASSUME CoordinatorTypeOK, Remaining > 0
  PROVE  ReadFrames \in 1 .. MaxFrames /\ decoder.at + ReadFrames <= decoder.length
<1>0. decoder.length \in {0} \cup Tracks /\ decoder.at \in Starts
  BY DEF CoordinatorTypeOK, PlayTypeOK
<1>a. decoder.length \in Nat /\ decoder.length <= MaxFrame /\ decoder.at \in Nat
  BY <1>0, Bounds
<1>1. Remaining \in Nat /\ Remaining = decoder.length - decoder.at
  BY <1>a DEF Remaining
<1>2. ReadFrames \in {ChunkFrames, Remaining} /\ ReadFrames <= ChunkFrames /\ ReadFrames <= Remaining
  BY <1>1, MinOfTwo, FramesAssumption DEF ReadFrames
<1> QED
  BY <1>a, <1>1, <1>2, FramesAssumption

LEMMA GenerationFits ==
  ASSUME CoordinatorTypeOK, Versions, wk = "idle", version + 2 <= MaxVersion
  PROVE  NextGeneration \in Generations /\ 2 * NextGeneration <= version + 2
BY VersionAssumption DEF CoordinatorTypeOK, PlayTypeOK, Versions, NextGeneration, Generations

(* Every step of the two threads is one the pool's specification allows:   *)
(* its calls are made by the right thread, one at a time, with legal       *)
(* arguments.                                                              *)
LEMMA PoolDriven ==
  ASSUME PlayInv, [PlayNext]_vars
  PROVE  [Next]_poolVars
<1>0. CoordinatorTypeOK /\ PlayTypeOK /\ Versions
  BY DEF PlayInv, CoordinatorTypeOK
<1>a. decGen \in Generations /\ renderGen \in Generations /\ snap.gen \in Generations
  BY <1>0 DEF CoordinatorTypeOK, PlayTypeOK, Snapshots
<1>1. ASSUME NEW dec, NEW st, NEW stores, Transition(dec, st, stores) PROVE [Next]_poolVars
  <2>1. decGen' \in Generations /\ DiscardCall(decGen')
    BY <1>1, <1>0, GenerationFits DEF Transition, WorkerIdle
  <2> QED
    BY <2>1 DEF Next, WorkerCall
<1>2. CASE WorkerCallNext
  <2>1. ASSUME NEW f, WorkerSeekRejected(f) PROVE [Next]_poolVars
    BY <2>1 DEF WorkerSeekRejected
  <2>2. CASE WorkerRefill
    BY <2>2 DEF WorkerRefill, Next, WorkerCall
  <2> QED
    BY <1>2, <1>1, <2>1, <2>2 DEF WorkerCallNext, WorkerOpen, WorkerOpenFails, WorkerClose, WorkerSeek
<1>3. CASE WorkerRuns
  <2>1. CASE WorkerStep
    BY <2>1 DEF Next
  <2>2. CASE RefillReserve
    BY <2>2 DEF RefillReserve, Next, WorkerCall
  <2>3. CASE RefillRead
    <3>1. CASE Remaining > 0 /\ FillAudio(decoder.at, ReadFrames)
      <4>1. decoder.at \in Starts /\ ReadFrames \in 1 .. MaxFrames
        BY <3>1, <1>0, ReadSome DEF PlayTypeOK
      <4> QED
        BY <3>1, <4>1 DEF Next, WorkerCall
    <3>2. CASE CancelCall
      BY <3>2 DEF Next, WorkerCall
    <3> QED
      BY <2>3, <3>1, <3>2 DEF RefillRead
  <2>4. CASE RefillPublish
    BY <2>4, <1>a DEF RefillPublish, Next, WorkerCall
  <2>5. CASE RefillPublished
    BY <2>5 DEF RefillPublished, Next, WorkerCall
  <2> QED
    BY <1>3, <2>1, <2>2, <2>3, <2>4, <2>5 DEF WorkerRuns, WorkerPublish, WorkerFinish, RefillStops
<1>4. CASE AudioCallNext
  BY <1>4 DEF AudioCallNext, RenderCall, DiagnosticsCall, LoadVersion
<1>5. CASE AudioRuns
  <2>1. CASE RendererStep
    BY <2>1 DEF Next
  <2>2. ASSUME NEW p, ReleaseAll(p) PROVE [Next]_poolVars
    BY <2>2 DEF ReleaseAll, Next, RendererCall
  <2>3. CASE Acquire
    BY <2>3, <1>a DEF Acquire, Next, RendererCall
  <2>4. CASE Consume
    BY <2>4 DEF Consume, Consumed, Next, RendererCall
  <2>5. CASE DiagRange
    BY <2>5, <1>a DEF DiagRange, Next, RendererCall
  <2>6. CASE DiagReturn
    BY <2>6 DEF DiagReturn
  <2> QED
    BY <1>5, <2>1, <2>2, <2>3, <2>4, <2>5, <2>6
    DEF AudioRuns, SnapGen, SnapFrame, SnapChannels, SnapCheck, SnapRetry, Suspended, Prepared,
        Acquired, Render, DiagGen, DiagDuration, DiagCheck, DiagRetry, Load, LoadVersion
<1> QED
  BY <1>2, <1>3, <1>4, <1>5 DEF PlayNext, vars

LEMMA Parity == \A n \in Nat : /\ n % 2 \in {0, 1}
                              /\ n % 2 = 1 <=> (n + 1) % 2 = 0
OBVIOUS

(* An even version becomes odd.                                            *)
LEMMA OddNext == version \in Nat /\ version % 2 # 1 /\ version' = version + 1 => version' % 2 = 1
<1> SUFFICES ASSUME version \in Nat, version % 2 # 1, version' = version + 1 PROVE version' % 2 = 1
  OBVIOUS
<1>1. version + 1 \in Nat
  OBVIOUS
<1> QED
  BY <1>1, Parity

-----------------------------------------------------------------------------
(* Stores and loads of the published fields                                *)

PublishedFields ==
  [gen : Generations, frame : Starts, channels : {0} \cup Tracks,
   duration : {0} \cup Tracks, state : DecodeAheadState]

(* A store changes the field it names and keeps the types.                 *)
LEMMA StoreOfField ==
  ASSUME NEW p \in PublishedFields, NEW s \in StoresToMake
  PROVE  LET q == [p EXCEPT ![s[1]] = s[2]]
         IN /\ q \in PublishedFields
            /\ q.gen = IF s[1] = "gen" THEN s[2] ELSE p.gen
            /\ q.frame = IF s[1] = "frame" THEN s[2] ELSE p.frame
            /\ q.channels = IF s[1] = "channels" THEN s[2] ELSE p.channels
            /\ q.duration = IF s[1] = "duration" THEN s[2] ELSE p.duration
<1> DEFINE q == [p EXCEPT ![s[1]] = s[2]]
<1>1. CASE s \in {"gen"} \X Generations
  <2>1. s[1] = "gen" /\ s[2] \in Generations /\ q = [p EXCEPT !.gen = s[2]]
    BY <1>1
  <2> QED
    BY <2>1 DEF PublishedFields
<1>2. CASE s \in {"frame"} \X Starts
  <2>1. s[1] = "frame" /\ s[2] \in Starts /\ q = [p EXCEPT !.frame = s[2]]
    BY <1>2
  <2> QED
    BY <2>1 DEF PublishedFields
<1>3. CASE s \in {"channels", "duration"} \X ({0} \cup Tracks)
  <2>1. CASE s[1] = "channels"
    <3>1. s[2] \in {0} \cup Tracks /\ q = [p EXCEPT !.channels = s[2]]
      BY <1>3, <2>1
    <3> QED
      BY <3>1, <2>1 DEF PublishedFields
  <2>2. CASE s[1] = "duration"
    <3>1. s[2] \in {0} \cup Tracks /\ q = [p EXCEPT !.duration = s[2]]
      BY <1>3, <2>2
    <3> QED
      BY <3>1, <2>2 DEF PublishedFields
  <2> QED
    BY <1>3, <2>1, <2>2
<1>4. CASE s \in {"state"} \X DecodeAheadState
  <2>1. s[1] = "state" /\ s[2] \in DecodeAheadState /\ q = [p EXCEPT !.state = s[2]]
    BY <1>4
  <2> QED
    BY <2>1 DEF PublishedFields
<1> QED
  BY <1>1, <1>2, <1>3, <1>4 DEF StoresToMake

(* A load of a field of the snapshot changes that field to the published   *)
(* one.                                                                    *)
LEMMA LoadOfField ==
  ASSUME snap \in Snapshots, published \in PublishedFields,
         NEW field \in {"gen", "frame", "channels", "duration"},
         NEW next, NEW pc, Load(pc, field, next)
  PROVE  /\ snap' \in Snapshots
         /\ snap'.attempt = snap.attempt /\ snap'.version = snap.version
         /\ snap'.gen = IF field = "gen" THEN published.gen ELSE snap.gen
         /\ snap'.frame = IF field = "frame" THEN published.frame ELSE snap.frame
         /\ snap'.channels = IF field = "channels" THEN published.channels ELSE snap.channels
         /\ snap'.duration = IF field = "duration" THEN published.duration ELSE snap.duration
<1>0. snap' = [snap EXCEPT ![field] = published[field]]
  BY DEF Load
<1>1. CASE field = "gen"
  BY <1>0, <1>1 DEF Snapshots, PublishedFields
<1>2. CASE field = "frame"
  BY <1>0, <1>2 DEF Snapshots, PublishedFields
<1>3. CASE field = "channels"
  BY <1>0, <1>3 DEF Snapshots, PublishedFields
<1>4. CASE field = "duration"
  BY <1>0, <1>4 DEF Snapshots, PublishedFields
<1> QED
  BY <1>1, <1>2, <1>3, <1>4

-----------------------------------------------------------------------------
(* What the steps inside a pool call do to the places                      *)

Discarding == {"discard", "discardCheck", "discardSub"}
Publishing == {"pubStart", "pubGen", "pubCount", "pubAdd", "pubReady"}
Acquiring == {"acquire", "acquireCheck"}
Releasing == {"release", "releaseSub"}
Ranging == {"rangeState", "rangeGen", "rangeStart", "rangeCount", "rangeCheck"}

WorkerStays ==
  /\ w.pc = "reserve" => w'.pc \in {"idle", "reserve", "clear"}
  /\ w.pc = "reserve" /\ w'.pc # "clear" => w'.slot = NoSlot
  /\ w.pc = "clear" => w'.pc = "idle" /\ w'.slot = w.slot
  /\ w.pc \in Publishing => (w'.pc \in Publishing /\ w'.gen = w.gen) \/ (w'.pc = "idle" /\ w'.slot = NoSlot)
  /\ w.pc = "cancel" => w'.pc = "idle" /\ w'.slot = NoSlot
  /\ w.pc \in Discarding => w'.pc \in Discarding \cup {"idle"} /\ w'.slot = NoSlot
  /\ w.pc = "ready" => w'.pc \in {"idle", "ready"} /\ w'.slot = NoSlot
  /\ w.pc # "idle"
  /\ UNCHANGED <<leases, r, range>>

(* A step of the worker's call stays inside that call or ends it; only      *)
(* try_begin_write hands out a slot.                                       *)
LEMMA WorkerStaysInCall ==
  ASSUME TypeOK, CallShape, WorkerStep
  PROVE  WorkerStays
<1>0. w \in WorkerCalls
  BY DEF TypeOK
<1>1. CASE BeginWriteCas
  <2>1. w.pc = "reserve" /\ w.slot = NoSlot /\ UNCHANGED <<leases, r, range>>
    BY <1>1 DEF BeginWriteCas, CallShape
  <2>2. \/ w'.pc = "clear"
        \/ w'.pc = "reserve" /\ w'.slot = w.slot
        \/ w'.pc = "idle" /\ w'.slot = NoSlot
    <3>1. CASE \E i : w' = [w EXCEPT !.pc = "clear", !.slot = i]
      BY <3>1, <1>0 DEF WorkerCalls
    <3>2. CASE w' = [w EXCEPT !.at = @ + 1]
      BY <3>2, <2>1, <1>0 DEF WorkerCalls
    <3>3. CASE w' = WIdle(NoSlot, 0)
      BY <3>3 DEF WIdle
    <3> QED
      BY <1>1, <3>1, <3>2, <3>3 DEF BeginWriteCas
  <2> QED
    BY <2>1, <2>2 DEF WorkerStays, Publishing, Discarding
<1>2. CASE BeginWriteClear
  BY <1>0, <1>2 DEF BeginWriteClear, CallShape, WorkerCalls, WIdle, WorkerStays, Publishing, Discarding
<1>3. ASSUME w.pc \in Publishing, UNCHANGED <<leases, r, range>>,
             (w'.pc \in Publishing /\ w'.gen = w.gen) \/ (w'.pc = "idle" /\ w'.slot = NoSlot)
      PROVE  WorkerStays
  BY <1>3 DEF WorkerStays, Publishing, Discarding
<1>4. CASE PublishStart
  <2>1. w.pc \in Publishing /\ UNCHANGED <<leases, r, range>>
    BY <1>4 DEF PublishStart, Publishing
  <2>2. w'.pc \in Publishing /\ w'.gen = w.gen
    BY <1>0, <1>4 DEF PublishStart, WorkerCalls, Publishing
  <2> QED
    BY <2>1, <2>2, <1>3
<1>10. CASE PublishGeneration
  <2>1. w.pc \in Publishing /\ UNCHANGED <<leases, r, range>>
    BY <1>10 DEF PublishGeneration, Publishing
  <2>2. w'.pc \in Publishing /\ w'.gen = w.gen
    BY <1>0, <1>10 DEF PublishGeneration, WorkerCalls, Publishing
  <2> QED
    BY <2>1, <2>2, <1>3
<1>11. CASE PublishCount
  <2>1. w.pc \in Publishing /\ UNCHANGED <<leases, r, range>>
    BY <1>11 DEF PublishCount, Publishing
  <2>2. w'.pc \in Publishing /\ w'.gen = w.gen
    BY <1>0, <1>11 DEF PublishCount, WorkerCalls, Publishing
  <2> QED
    BY <2>1, <2>2, <1>3
<1>12. CASE PublishAdd
  <2>1. w.pc \in Publishing /\ UNCHANGED <<leases, r, range>>
    BY <1>12 DEF PublishAdd, Publishing
  <2>2. w'.pc \in Publishing /\ w'.gen = w.gen
    BY <1>0, <1>12 DEF PublishAdd, WorkerCalls, Publishing
  <2> QED
    BY <2>1, <2>2, <1>3
<1>13. CASE PublishReady
  <2>1. w.pc \in Publishing /\ UNCHANGED <<leases, r, range>>
    BY <1>13 DEF PublishReady, Publishing
  <2>2. w'.pc = "idle" /\ w'.slot = NoSlot
    BY <1>13 DEF PublishReady, WIdle
  <2> QED
    BY <2>1, <2>2, <1>3
<1>5. CASE Cancel
  BY <1>0, <1>5 DEF Cancel, WorkerCalls, WIdle, WorkerStays, Publishing, Discarding
<1>6. CASE DiscardCas
  <2>1. w.pc \in Discarding /\ w.slot = NoSlot /\ UNCHANGED <<leases, r, range>>
    BY <1>6 DEF DiscardCas, CallShape, Discarding
  <2>2. w'.pc \in Discarding \cup {"idle"} /\ w'.slot = NoSlot
    <3>1. CASE w' = NextDiscard
      BY <3>1, <2>1, <1>0, ScanShape DEF Discarding
    <3>2. CASE w' # NextDiscard
      BY <3>2, <2>1, <1>6, <1>0 DEF DiscardCas, WorkerCalls, Discarding
    <3> QED
      BY <3>1, <3>2
  <2> QED
    BY <2>1, <2>2 DEF WorkerStays, Publishing, Discarding
<1>7. CASE DiscardCheck
  <2>1. w.pc \in Discarding /\ w.slot = NoSlot /\ UNCHANGED <<leases, r, range>>
    BY <1>7 DEF DiscardCheck, CallShape, Discarding
  <2>2. w'.pc \in Discarding \cup {"idle"} /\ w'.slot = NoSlot
    <3>1. CASE w' = NextDiscard
      BY <3>1, <2>1, <1>0, ScanShape DEF Discarding
    <3>2. CASE w' # NextDiscard
      BY <3>2, <2>1, <1>7, <1>0 DEF DiscardCheck, WorkerCalls, Discarding
    <3> QED
      BY <3>1, <3>2
  <2> QED
    BY <2>1, <2>2 DEF WorkerStays, Publishing, Discarding
<1>8. CASE DiscardSub
  BY <1>0, <1>8 DEF DiscardSub, CallShape, NextDiscard, WorkerCalls, WIdle, WorkerStays, Publishing, Discarding
<1>9. CASE ReadyCountLoad
  BY <1>0, <1>9 DEF ReadyCountLoad, CallShape, WorkerCalls, WIdle, shared, WorkerStays, Publishing, Discarding
<1> QED
  BY <1>1, <1>2, <1>3, <1>4, <1>5, <1>6, <1>7, <1>8, <1>9,
     <1>10, <1>11, <1>12, <1>13 DEF WorkerStep

(* The same for the renderer's call; a lease is taken of a chunk of the    *)
(* wanted generation only.                                                 *)
LEMMA RendererStaysInCall ==
  ASSUME TypeOK, CallShape, RendererStep
  PROVE  /\ r.pc \in Acquiring => r'.pc \in Acquiring \cup {"idle"}
         /\ r.pc \in Releasing => r'.pc \in Releasing \cup {"idle"}
         /\ r.pc \in Ranging => r'.pc \in Ranging \cup {"idle"}
         /\ r.pc # "idle" /\ r.pc \in Acquiring \cup Releasing \cup Ranging
         /\ r'.pc \in Acquiring \cup Ranging => r'.gen = r.gen
         /\ \A i \in leases' : i \in leases \/ (r.pc = "acquireCheck" /\ i = r.at /\ gen[i] = r.gen)
         /\ UNCHANGED <<gen, start, count, audio, nextWrite, w>>
<1>0. r \in RendererCalls
  BY DEF TypeOK
<1>a. NextAcquire.pc \in {"idle", "acquire"} /\ (NextAcquire.pc = "acquire" => NextAcquire.gen = r.gen)
  BY <1>0 DEF NextAcquire, RIdle, RendererCalls
<1>1. CASE AcquireCas
  <2>1. r.pc = "acquire" /\ UNCHANGED <<gen, start, count, audio, nextWrite, w, leases>>
    BY <1>1 DEF AcquireCas, fields
  <2>2. r'.pc \in Acquiring \cup {"idle"} /\ (r'.pc # "idle" => r'.gen = r.gen)
    <3>1. CASE r' = NextAcquire
      BY <3>1, <1>a DEF Acquiring
    <3>2. CASE r' = [r EXCEPT !.pc = "acquireCheck"]
      BY <3>2, <1>0 DEF RendererCalls, Acquiring
    <3> QED
      BY <1>1, <3>1, <3>2 DEF AcquireCas
  <2> QED
    BY <2>1, <2>2 DEF Acquiring, Releasing, Ranging
<1>2. CASE AcquireCheck
  <2>1. r.pc = "acquireCheck" /\ UNCHANGED <<gen, start, count, audio, nextWrite, w>>
    BY <1>2 DEF AcquireCheck, fields
  <2>2. r'.pc \in Acquiring \cup {"idle"} /\ (r'.pc # "idle" => r'.gen = r.gen)
    <3>1. CASE r' = NextAcquire
      BY <3>1, <1>a DEF Acquiring
    <3>2. CASE r' = RIdle(r.at)
      BY <3>2 DEF RIdle, Acquiring
    <3> QED
      BY <1>2, <3>1, <3>2 DEF AcquireCheck
  <2>3. \A i \in leases' : i \in leases \/ (i = r.at /\ gen[i] = r.gen)
    BY <1>2 DEF AcquireCheck
  <2> QED
    BY <2>1, <2>2, <2>3 DEF Acquiring, Releasing, Ranging
<1>3. CASE ReleaseCas
  BY <1>0, <1>3 DEF ReleaseCas, RIdle, RendererCalls, fields, Acquiring, Releasing, Ranging
<1>4. CASE ReleaseSub
  BY <1>0, <1>4 DEF ReleaseSub, RIdle, RendererCalls, fields, Acquiring, Releasing, Ranging
<1>5. CASE RangeState
  BY <1>0, <1>5 DEF RangeState, NextRange, RIdle, RendererCalls, fields, shared, Acquiring, Releasing, Ranging
<1>6. CASE RangeGen \/ RangeStart \/ RangeCount
  BY <1>0, <1>6 DEF RangeGen, RangeStart, RangeCount, RendererCalls, fields, shared, Acquiring, Releasing, Ranging
<1>7. CASE RangeCheck
  BY <1>0, <1>7 DEF RangeCheck, NextRange, RIdle, RendererCalls, fields, shared, Acquiring, Releasing, Ranging
<1> QED
  BY <1>1, <1>2, <1>3, <1>4, <1>5, <1>6, <1>7 DEF RendererStep

-----------------------------------------------------------------------------
(* The invariant through the worker's actions                              *)

LEMMA PoolKept == ASSUME PlayInv, [PlayNext]_vars PROVE PoolInv'
<1>1. [Next]_poolVars /\ PoolInv
  BY PoolDriven DEF PlayInv
<1> QED
  BY <1>1, TypeStep, ShapeStep, ExclusiveStep, WholeStep DEF PoolInv, SlotInv

AudioTypeOK ==
  /\ rk \in {"idle", "gen", "frame", "channels", "check", "retry", "suspend", "prepare",
             "acquire", "acquired", "render", "consume", "diagGen", "diagDuration",
             "diagRange", "diagCheck", "diagRetry", "diagBusy", "diagDone"}
  /\ adopted \in Generations /\ renderGen \in Generations /\ pos \in Starts
  /\ snap \in Snapshots
WorkerTypeOK ==
  /\ wk \in {"idle", "publish", "refillCount", "refillReserve", "refillPublish",
             "refillPublished", "refillEnd", "refillError"}
  /\ decoder \in [length : {0} \cup Tracks, at : Starts]
  /\ decGen \in Generations /\ decState \in DecodeAheadState
  /\ version \in 0 .. MaxVersion /\ refused \in BOOLEAN
  /\ published \in PublishedFields /\ todo \in Seq(StoresToMake)

LEMMA TypesOfThreads == CoordinatorTypeOK <=> TypeOK /\ WorkerTypeOK /\ AudioTypeOK
BY DEF CoordinatorTypeOK, PlayTypeOK, WorkerTypeOK, AudioTypeOK, PublishedFields

LEMMA TypesOfThreadsAfter == CoordinatorTypeOK' <=> TypeOK' /\ WorkerTypeOK' /\ AudioTypeOK'
BY DEF CoordinatorTypeOK, PlayTypeOK, WorkerTypeOK, AudioTypeOK, PublishedFields

(* What the worker does not touch keeps its relations.                     *)
LEMMA WorkerLeavesAudio ==
  ASSUME PlayInv, PoolInv', UNCHANGED <<audioVars, leases, r>>,
         \A i \in leases : gen'[i] = gen[i], decGen' >= decGen, decGen' \in Generations
  PROVE  AudioPlace' /\ Leased' /\ AudioTypeOK' /\ TypeOK'
<1>1. AudioPlace' /\ TypeOK'
  BY DEF PlayInv, AudioPlace, audioVars, PoolInv, SlotInv
<1>2. AudioTypeOK'
  BY TypesOfThreads DEF PlayInv, AudioTypeOK, audioVars
<1>3. Leased'
  <2>1. decGen \in Nat /\ adopted \in Nat /\ decGen' \in Nat
    BY Bounds DEF PlayInv, CoordinatorTypeOK, PlayTypeOK
  <2>2. adopted <= decGen'
    BY <2>1 DEF PlayInv, Leased
  <2> QED
    BY <2>2 DEF PlayInv, Leased, audioVars
<1> QED
  BY <1>1, <1>2, <1>3

LEMMA TransitionKeeps ==
  ASSUME PlayInv, PoolInv', NEW dec \in [length : {0} \cup Tracks, at : Starts],
         NEW st \in DecodeAheadState, NEW stores \in Seq(StoresToMake),
         Transition(dec, st, stores), dec.at <= dec.length,
         \A i \in DOMAIN stores :
           /\ stores[i][1] = "gen" => stores[i][2] = NextGeneration
           /\ stores[i][1] = "frame" => stores[i][2] = dec.at
           /\ stores[i][1] \in {"channels", "duration"} => stores[i][2] = dec.length,
         \A field \in {"gen", "frame"} : \E i \in DOMAIN stores : stores[i][1] = field,
         \A field \in {"channels", "duration"} :
           dec.length = decoder.length \/ \E i \in DOMAIN stores : stores[i][1] = field
  PROVE  PlayInv'
<1>0. /\ PlayTypeOK /\ CoordinatorTypeOK /\ Versions /\ Leased /\ StoresFit /\ SnapFits /\ Follows
      /\ wk = "idle" /\ todo = <<>> /\ w.pc = "idle"
  BY DEF PlayInv, CoordinatorTypeOK, Transition, WorkerIdle, WorkerPlace, StoresFit
<1>1. /\ decGen \in Nat /\ decGen' = decGen + 1 /\ decGen' \in Generations /\ 2 * decGen' <= version + 2
      /\ version \in Nat /\ version' = version + 1 /\ version' \in 0 .. MaxVersion
      /\ adopted \in Nat /\ snap.gen \in Nat /\ snap.version \in Nat /\ published.gen \in Nat
  <2>1. NextGeneration \in Generations /\ 2 * NextGeneration <= version + 2
    BY <1>0, GenerationFits DEF Transition
  <2>2. version \in 0 .. MaxVersion /\ version + 2 <= MaxVersion /\ version' = version + 1
    BY <1>0 DEF PlayTypeOK, Transition
  <2>3. decGen \in Nat /\ adopted \in Nat /\ snap.gen \in Nat /\ snap.version \in Nat /\ published.gen \in Nat
    BY <1>0, Bounds DEF CoordinatorTypeOK, PlayTypeOK, Snapshots
  <2> QED
    BY <2>1, <2>2, <2>3, VersionAssumption DEF NextGeneration, Transition
<1>2. /\ wk' = "publish" /\ todo' = stores /\ decoder' = dec /\ decState' = st /\ refused' = FALSE
      /\ UNCHANGED <<published, audioVars, leases, r, gen>>
      /\ w' = [WIdle(NoSlot, 0) EXCEPT !.pc = "discard", !.gen = decGen']
  BY DEF Transition, DiscardCall, shared
<1>3. AudioPlace' /\ Leased' /\ CoordinatorTypeOK'
  <2>1. AudioPlace' /\ Leased' /\ AudioTypeOK' /\ TypeOK'
    BY <1>1, <1>2, WorkerLeavesAudio
  <2>2. WorkerTypeOK'
    BY <1>0, <1>1, <1>2, TypesOfThreads DEF WorkerTypeOK
  <2> QED
    BY <2>1, <2>2, TypesOfThreadsAfter
<1>4. Due("gen")' /\ Due("frame")'
  BY <1>2 DEF Due
<1>5. WorkerPlace'
  <2>1. todo' # <<>>
    BY <1>2
  <2>2. w'.pc = "discard" /\ w'.slot = NoSlot
    BY <1>2 DEF WIdle
  <2> QED
    BY <2>1, <2>2, <1>2 DEF WorkerPlace
<1>6. Versions'
  <2>1. version % 2 # 1
    BY <1>0 DEF Versions
  <2>2. version' % 2 = 1
    BY <2>1, <1>1, OddNext
  <2>3. 2 * decGen' <= version' + 1 /\ version' < MaxVersion
    BY <1>0, <1>1, VersionAssumption DEF Transition
  <2> QED
    BY <2>2, <2>3, <1>2 DEF Versions
<1>7. StoresFit'
  <2>1. published.channels = decoder.length /\ published.duration = decoder.length /\ published.gen <= decGen
    BY <1>0 DEF StoresFit, Due
  <2>2. /\ ~ Due("channels")' => published.channels = dec.length
        /\ ~ Due("duration")' => published.duration = dec.length
    BY <1>2, <2>1 DEF Due
  <2>3. published.gen <= decGen'
    BY <2>1, <1>1
  <2>4. \A i \in DOMAIN stores :
           /\ stores[i][1] = "gen" => stores[i][2] = decGen'
           /\ stores[i][1] = "frame" => stores[i][2] = dec.at
           /\ stores[i][1] \in {"channels", "duration"} => stores[i][2] = dec.length
    BY DEF Transition
  <2> QED
    BY <1>2, <1>4, <2>2, <2>3, <2>4 DEF StoresFit
<1>8. SnapFits'
  <2>1. rk' = rk /\ snap' = snap
    BY <1>2 DEF audioVars
  <2>2. rk \in Loading => /\ snap.version <= version' /\ snap.version % 2 = 0
                         /\ snap.version # version' /\ snap.attempt \in {1, 2}
    BY <1>0, <1>1 DEF SnapFits
  <2>3. rk \in Loading \cup {"prepare"} => snap.gen <= decGen'
    BY <1>0, <1>1 DEF SnapFits
  <2> QED
    BY <2>1, <2>2, <2>3 DEF SnapFits
<1>9. Follows'
  <2>1. adopted < decGen'
    BY <1>0, <1>1 DEF Leased
  <2>2. rk = "prepare" => snap.gen # decGen'
    BY <1>0, <1>1 DEF SnapFits
  <2> QED
    BY <2>1, <2>2, <1>2 DEF Follows, Behind, audioVars
<1> QED
  BY <1>3, <1>5, <1>6, <1>7, <1>8, <1>9 DEF PlayInv

LEMMA TwoThenThree ==
  ASSUME NEW S, NEW s \in Seq(S), NEW t \in Seq(S), Len(s) = 2, Len(t) = 3
  PROVE  /\ s \o t \in Seq(S) /\ DOMAIN (s \o t) = 1 .. 5
         /\ (s \o t)[1] = s[1] /\ (s \o t)[2] = s[2]
         /\ (s \o t)[3] = t[1] /\ (s \o t)[4] = t[2] /\ (s \o t)[5] = t[3]
<1>1. /\ s \o t \in Seq(S) /\ Len(s \o t) = 5
      /\ \A i \in 1 .. 5 : (s \o t)[i] = IF i <= 2 THEN s[i] ELSE t[i - 2]
  <2>1. /\ s \o t \in Seq(S) /\ Len(s \o t) = Len(s) + Len(t)
        /\ \A i \in 1 .. Len(s) + Len(t) : (s \o t)[i] = IF i <= Len(s) THEN s[i] ELSE t[i - Len(s)]
    BY ConcatProperties
  <2> QED
    BY <2>1
<1> QED
  BY <1>1

(* worker_open, its failure, and worker_close publish five fields.         *)
LEMMA FiveStores ==
  ASSUME NEW n \in {0} \cup Tracks, NEW st \in DecodeAheadState, NextGeneration \in Generations
  PROVE  LET stores == <<Duration(n), State(st)>> \o Snapshot(0, n)
         IN /\ stores \in Seq(StoresToMake) /\ DOMAIN stores = 1 .. 5
            /\ stores[1] = <<"duration", n>> /\ stores[2] = <<"state", st>>
            /\ stores[3] = <<"gen", NextGeneration>> /\ stores[4] = <<"frame", 0>>
            /\ stores[5] = <<"channels", n>>
<1>1. /\ Duration(n) \in StoresToMake /\ State(st) \in StoresToMake
      /\ <<"gen", NextGeneration>> \in StoresToMake /\ <<"frame", 0>> \in StoresToMake
      /\ <<"channels", n>> \in StoresToMake
  BY Bounds DEF StoresToMake, Duration, State
<1> DEFINE first == <<Duration(n), State(st)>>
<1>2. /\ first \in Seq(StoresToMake) /\ Len(first) = 2
      /\ first[1] = <<"duration", n>> /\ first[2] = <<"state", st>>
  BY <1>1 DEF Duration, State
<1>3. /\ Snapshot(0, n) \in Seq(StoresToMake) /\ Len(Snapshot(0, n)) = 3
      /\ Snapshot(0, n)[1] = <<"gen", NextGeneration>> /\ Snapshot(0, n)[2] = <<"frame", 0>>
      /\ Snapshot(0, n)[3] = <<"channels", n>>
  BY <1>1 DEF Snapshot
<1> HIDE DEF first
<1>4. LET stores == first \o Snapshot(0, n)
      IN /\ stores \in Seq(StoresToMake) /\ DOMAIN stores = 1 .. 5
         /\ stores[1] = <<"duration", n>> /\ stores[2] = <<"state", st>>
         /\ stores[3] = <<"gen", NextGeneration>> /\ stores[4] = <<"frame", 0>>
         /\ stores[5] = <<"channels", n>>
  BY <1>2, <1>3, TwoThenThree
<1> QED
  BY <1>4 DEF first

LEMMA OpenKeeps ==
  ASSUME PlayInv, PoolInv', NEW dec, NEW n \in {0} \cup Tracks, dec = [length |-> n, at |-> 0],
         NEW st \in DecodeAheadState,
         Transition(dec, st, <<Duration(n), State(st)>> \o Snapshot(0, n))
  PROVE  PlayInv'
<1>1. NextGeneration \in Generations
  BY GenerationFits DEF PlayInv, Transition, WorkerIdle
<1> DEFINE stores == <<Duration(n), State(st)>> \o Snapshot(0, n)
<1>2. /\ stores \in Seq(StoresToMake) /\ DOMAIN stores = 1 .. 5
      /\ stores[1] = <<"duration", n>> /\ stores[2] = <<"state", st>>
      /\ stores[3] = <<"gen", NextGeneration>> /\ stores[4] = <<"frame", 0>>
      /\ stores[5] = <<"channels", n>>
  BY <1>1, FiveStores
<1>3. dec \in [length : {0} \cup Tracks, at : Starts] /\ dec.at <= dec.length /\ dec.length = n /\ dec.at = 0
  BY Bounds
<1> HIDE DEF stores
<1>5. \A i \in DOMAIN stores :
           /\ stores[i][1] = "gen" => stores[i][2] = NextGeneration
           /\ stores[i][1] = "frame" => stores[i][2] = dec.at
           /\ stores[i][1] \in {"channels", "duration"} => stores[i][2] = dec.length
  BY <1>2, <1>3
<1>6. /\ \A field \in {"gen", "frame"} : \E i \in DOMAIN stores : stores[i][1] = field
      /\ \A field \in {"channels", "duration"} :
           dec.length = decoder.length \/ \E i \in DOMAIN stores : stores[i][1] = field
  BY <1>2
<1>7. Transition(dec, st, stores)
  BY DEF stores
<1> QED
  BY <1>2, <1>3, <1>5, <1>6, <1>7, TransitionKeeps

LEMMA SeekKeeps ==
  ASSUME PlayInv, PoolInv', NEW f \in SeekTargets, WorkerSeek(f)
  PROVE  PlayInv'
<1>0. CoordinatorTypeOK
  BY DEF PlayInv
<1>1. NextGeneration \in Generations
  BY GenerationFits DEF PlayInv, WorkerSeek, Transition, WorkerIdle
<1>2. f \in Starts /\ f <= decoder.length /\ SeekState(f) \in DecodeAheadState
  <2>1. decoder.length \in {0} \cup Tracks /\ f \in Nat /\ f <= decoder.length
    BY <1>0, SeekAssumption DEF CoordinatorTypeOK, PlayTypeOK, WorkerSeek
  <2>2. decoder.length \in Nat /\ decoder.length <= MaxFrame
    BY <2>1, Bounds
  <2>3. f <= MaxFrame
    BY <2>1, <2>2
  <2> QED
    BY <2>1, <2>3, Bounds DEF SeekState, DecodeAheadState
<1> DEFINE dec == [decoder EXCEPT !.at = f]
           stores == << <<"gen", NextGeneration>>, <<"frame", f>>, State(SeekState(f))>>
<1>3. /\ dec \in [length : {0} \cup Tracks, at : Starts]
      /\ dec.at = f /\ dec.length = decoder.length
  BY <1>0, <1>2 DEF CoordinatorTypeOK, PlayTypeOK
<1>4. stores \in Seq(StoresToMake)
  <2>1. /\ <<"gen", NextGeneration>> \in StoresToMake /\ <<"frame", f>> \in StoresToMake
        /\ State(SeekState(f)) \in StoresToMake
    BY <1>1, <1>2 DEF StoresToMake, State
  <2> QED
    BY <2>1
<1>5. Transition(dec, SeekState(f), stores)
  BY DEF WorkerSeek
<1>6. /\ DOMAIN stores = 1 .. 3
      /\ stores[1] = <<"gen", NextGeneration>> /\ stores[2] = <<"frame", f>>
      /\ stores[3] = <<"state", SeekState(f)>>
  BY DEF State
<1> HIDE DEF stores, dec
<1>7. \A i \in DOMAIN stores :
           /\ stores[i][1] = "gen" => stores[i][2] = NextGeneration
           /\ stores[i][1] = "frame" => stores[i][2] = dec.at
           /\ stores[i][1] \in {"channels", "duration"} => stores[i][2] = dec.length
  BY <1>6, <1>3
<1>8. \A field \in {"gen", "frame"} : \E i \in DOMAIN stores : stores[i][1] = field
  BY <1>6
<1> QED
  BY <1>2, <1>3, <1>4, <1>5, <1>7, <1>8, TransitionKeeps

(* A refused seek changes the version only.                                *)
LEMMA SeekRejectedKeeps ==
  ASSUME PlayInv, PoolInv', NEW f, WorkerSeekRejected(f)
  PROVE  PlayInv'
<1>0. /\ CoordinatorTypeOK /\ Versions /\ Leased /\ StoresFit /\ SnapFits /\ Follows /\ WorkerPlace
      /\ wk = "idle" /\ todo = <<>> /\ w.pc = "idle" /\ w.slot = NoSlot
  BY DEF PlayInv, WorkerSeekRejected, WorkerIdle, WorkerPlace, StoresFit
<1>1. /\ wk' = "publish" /\ todo' = <<>> /\ refused' = TRUE /\ version' = version + 1
      /\ UNCHANGED <<poolVars, decoder, decGen, decState, published, audioVars>>
  BY DEF WorkerSeekRejected
<1>2. /\ decGen \in Nat /\ decGen \in Generations /\ version \in Nat /\ snap.version \in Nat
      /\ version' \in 0 .. MaxVersion
  <2>1. decGen \in Generations /\ version \in 0 .. MaxVersion /\ snap.version \in 0 .. MaxVersion
        /\ version + 2 <= MaxVersion
    BY <1>0 DEF CoordinatorTypeOK, PlayTypeOK, Snapshots, WorkerSeekRejected
  <2>2. version' \in 0 .. MaxVersion /\ version \in Nat /\ snap.version \in Nat
    BY <2>1, <1>1, VersionAssumption
  <2> QED
    BY <2>1, <2>2, Bounds
<1>3. AudioPlace' /\ Leased' /\ AudioTypeOK' /\ TypeOK'
  BY <1>1, <1>2, WorkerLeavesAudio DEF poolVars
<1>4. CoordinatorTypeOK'
  <2>1. WorkerTypeOK'
    BY <1>0, <1>1, <1>2, TypesOfThreads DEF WorkerTypeOK
  <2> QED
    BY <1>3, <2>1, TypesOfThreadsAfter
<1>5. WorkerPlace'
  BY <1>0, <1>1 DEF WorkerPlace, poolVars
<1>6. Versions'
  <2>1. version % 2 # 1 /\ 2 * decGen <= version
    BY <1>0 DEF Versions
  <2>2. version' % 2 = 1 /\ 2 * decGen <= version' + 1 /\ version' < MaxVersion
    BY <2>1, <1>1, <1>2, Parity, VersionAssumption DEF WorkerSeekRejected
  <2> QED
    BY <2>2, <1>1 DEF Versions
<1>7. StoresFit'
  BY <1>0, <1>1 DEF StoresFit, Due
<1>8. SnapFits'
  <2>1. rk' = rk /\ snap' = snap /\ decGen' = decGen
    BY <1>1 DEF audioVars
  <2>2. rk \in Loading => /\ snap.version <= version' /\ snap.version % 2 = 0
                         /\ snap.version # version' /\ snap.attempt \in {1, 2}
    BY <1>0, <1>1, <1>2 DEF SnapFits
  <2> QED
    BY <2>1, <2>2, <1>0 DEF SnapFits
<1>9. Follows'
  BY <1>0, <1>1 DEF Follows, Behind, audioVars
<1> QED
  BY <1>3, <1>4, <1>5, <1>6, <1>7, <1>8, <1>9 DEF PlayInv

(* One of the stores of a transition.                                      *)
LEMMA PublishKeeps ==
  ASSUME PlayInv, PoolInv', WorkerPublish
  PROVE  PlayInv'
<1>0. /\ CoordinatorTypeOK /\ Versions /\ Leased /\ StoresFit /\ SnapFits /\ Follows /\ WorkerPlace
      /\ wk = "publish" /\ todo # <<>> /\ w.pc = "idle" /\ TypeOK /\ WorkerTypeOK /\ AudioTypeOK
  BY TypesOfThreads DEF PlayInv, WorkerPublish
<1>1. /\ published' = [published EXCEPT ![todo[1][1]] = todo[1][2]] /\ todo' = Tail(todo)
      /\ UNCHANGED <<poolVars, wk, decoder, decGen, decState, version, refused, audioVars>>
  BY DEF WorkerPublish
<1> DEFINE store == todo[1]
<1>2. /\ todo \in Seq(StoresToMake) /\ 1 \in DOMAIN todo /\ store \in StoresToMake
      /\ todo' \in Seq(StoresToMake)
      /\ \A i \in DOMAIN todo' : i + 1 \in DOMAIN todo /\ todo'[i] = todo[i + 1]
      /\ \A i \in DOMAIN todo : i = 1 \/ (i - 1 \in DOMAIN todo' /\ todo'[i - 1] = todo[i])
  BY <1>0, <1>1, HeadTailProperties DEF WorkerTypeOK
<1> HIDE DEF store
<1>3. /\ published' \in PublishedFields
      /\ published'.gen = IF store[1] = "gen" THEN store[2] ELSE published.gen
      /\ published'.frame = IF store[1] = "frame" THEN store[2] ELSE published.frame
      /\ published'.channels = IF store[1] = "channels" THEN store[2] ELSE published.channels
      /\ published'.duration = IF store[1] = "duration" THEN store[2] ELSE published.duration
  <2>1. published \in PublishedFields /\ published' = [published EXCEPT ![store[1]] = store[2]]
    BY <1>0, <1>1 DEF WorkerTypeOK, store
  <2> QED
    BY <1>2, <2>1, StoreOfField
<1>4. /\ store[1] = "gen" => store[2] = decGen
      /\ store[1] = "frame" => store[2] = decoder.at
      /\ store[1] \in {"channels", "duration"} => store[2] = decoder.length
  BY <1>0, <1>2 DEF StoresFit, store
<1>5. \A field \in {"gen", "frame", "channels", "duration"} :
        ~ Due(field)' => ~ Due(field) \/ store[1] = field
  BY <1>2 DEF Due, store
<1>6. /\ decGen \in Nat /\ decGen \in Generations /\ version \in Nat /\ snap.version \in Nat
      /\ decoder.at \in Nat
  <2>1. decGen \in Generations /\ version \in 0 .. MaxVersion /\ snap.version \in 0 .. MaxVersion
        /\ decoder.at \in Starts
    BY <1>0 DEF WorkerTypeOK, AudioTypeOK, Snapshots
  <2> QED
    BY <2>1, Bounds, VersionAssumption
<1>7. AudioPlace' /\ Leased' /\ AudioTypeOK' /\ TypeOK'
  BY <1>1, <1>6, WorkerLeavesAudio DEF poolVars
<1>8. CoordinatorTypeOK'
  <2>1. WorkerTypeOK'
    BY <1>0, <1>1, <1>2, <1>3 DEF WorkerTypeOK
  <2> QED
    BY <1>7, <2>1, TypesOfThreadsAfter
<1>9. WorkerPlace'
  BY <1>0, <1>1 DEF WorkerPlace, poolVars
<1>10. Versions'
  BY <1>0, <1>1 DEF Versions
<1>11. StoresFit'
  <2>1. /\ ~ Due("gen")' => published'.gen = decGen
        /\ ~ Due("channels")' => published'.channels = decoder.length
        /\ ~ Due("duration")' => published'.duration = decoder.length
        /\ ~ refused /\ ~ Due("frame")' => published'.frame = decoder.at
    BY <1>0, <1>3, <1>4, <1>5 DEF StoresFit
  <2>2. \A i \in DOMAIN todo' :
           /\ todo'[i][1] = "gen" => todo'[i][2] = decGen
           /\ todo'[i][1] = "frame" => todo'[i][2] = decoder.at
           /\ todo'[i][1] \in {"channels", "duration"} => todo'[i][2] = decoder.length
    BY <1>0, <1>2 DEF StoresFit
  <2>3. published'.gen <= decGen /\ ~ refused
    BY <1>0, <1>3, <1>4, <1>6 DEF StoresFit
  <2>4. decoder.at <= decoder.length
    BY <1>0 DEF StoresFit
  <2> QED
    BY <2>1, <2>2, <2>3, <2>4, <1>0, <1>1 DEF StoresFit
<1>12. SnapFits'
  <2>1. rk \in Loading => snap.version # version
    BY <1>0, <1>6, Parity DEF SnapFits, Versions
  <2> QED
    BY <2>1, <1>0, <1>1 DEF SnapFits, audioVars
<1>13. Follows'
  <2>1. ~ refused
    BY <1>0 DEF StoresFit
  <2>2. ~ (rk = "prepare" /\ snap.gen = decGen)
    BY <2>1, <1>0 DEF Follows
  <2> QED
    BY <2>1, <2>2, <1>0, <1>1 DEF Follows, Behind, audioVars
<1> QED
  BY <1>7, <1>8, <1>9, <1>10, <1>11, <1>12, <1>13 DEF PlayInv

(* The version becomes even again.                                         *)
LEMMA FinishKeeps ==
  ASSUME PlayInv, PoolInv', WorkerFinish
  PROVE  PlayInv'
<1>0. /\ CoordinatorTypeOK /\ Versions /\ Leased /\ StoresFit /\ SnapFits /\ Follows /\ WorkerPlace
      /\ wk = "publish" /\ todo = <<>> /\ TypeOK /\ WorkerTypeOK /\ AudioTypeOK
  BY TypesOfThreads DEF PlayInv, WorkerFinish
<1>1. /\ version' = version + 1 /\ wk' = "idle"
      /\ UNCHANGED <<poolVars, todo, decoder, decGen, decState, published, refused, audioVars>>
  BY DEF WorkerFinish
<1>2. /\ decGen \in Nat /\ decGen \in Generations /\ version \in Nat /\ snap.version \in Nat
      /\ decoder.at \in Nat /\ version % 2 = 1
  <2>1. decGen \in Generations /\ version \in 0 .. MaxVersion /\ snap.version \in 0 .. MaxVersion
        /\ decoder.at \in Starts
    BY <1>0 DEF WorkerTypeOK, AudioTypeOK, Snapshots
  <2>2. version % 2 = 1
    BY <1>0 DEF Versions
  <2> QED
    BY <2>1, <2>2, Bounds, VersionAssumption
<1>3. AudioPlace' /\ Leased' /\ AudioTypeOK' /\ TypeOK'
  BY <1>1, <1>2, WorkerLeavesAudio DEF poolVars
<1>4. version' \in Nat /\ version' % 2 = 0 /\ version' \in 0 .. MaxVersion
  <2>1. version < MaxVersion
    BY <1>0 DEF Versions
  <2> QED
    BY <2>1, <1>1, <1>2, Parity, VersionAssumption
<1>5. CoordinatorTypeOK'
  <2>1. WorkerTypeOK'
    BY <1>0, <1>1, <1>4 DEF WorkerTypeOK
  <2> QED
    BY <1>3, <2>1, TypesOfThreadsAfter
<1>6. WorkerPlace'
  BY <1>0, <1>1 DEF WorkerPlace, poolVars
<1>7. Versions'
  <2>1. 2 * decGen <= version + 1
    BY <1>0 DEF Versions
  <2> QED
    BY <2>1, <1>1, <1>2, <1>4 DEF Versions
<1>8. StoresFit'
  <2>1. published.frame <= decoder.at
    BY <1>0, <1>2 DEF StoresFit, Due
  <2> QED
    BY <2>1, <1>0, <1>1 DEF StoresFit, Due
<1>9. SnapFits'
  <2>1. rk' = rk /\ snap' = snap /\ decGen' = decGen
    BY <1>1 DEF audioVars
  <2>2. rk \in Loading => /\ snap.version <= version' /\ snap.version % 2 = 0
                         /\ snap.version # version' /\ snap.attempt \in {1, 2}
    BY <1>0, <1>1, <1>2 DEF SnapFits
  <2> QED
    BY <2>1, <2>2, <1>0 DEF SnapFits
<1>10. Follows'
  BY <1>0, <1>1 DEF Follows, Behind, audioVars
<1> QED
  BY <1>3, <1>5, <1>6, <1>7, <1>8, <1>9, <1>10 DEF PlayInv

(* What a step of refill leaves of the invariant, whatever it does.        *)
LEMMA RefillKeepsRest ==
  ASSUME PlayInv, PoolInv', wk # "publish", wk' # "publish", WorkerTypeOK',
         UNCHANGED <<todo, decGen, version, refused, audioVars, leases, r>>,
         \A i \in leases : gen'[i] = gen[i],
         decoder'.length = decoder.length, decoder'.at >= decoder.at, decoder'.at <= decoder.length,
         published'.gen = published.gen, published'.frame = published.frame,
         published'.channels = published.channels, published'.duration = published.duration,
         WorkerPlace'
  PROVE  PlayInv'
<1>0. /\ CoordinatorTypeOK /\ Versions /\ Leased /\ StoresFit /\ SnapFits /\ Follows /\ WorkerPlace
      /\ TypeOK /\ WorkerTypeOK /\ AudioTypeOK /\ todo = <<>>
  BY TypesOfThreads DEF PlayInv, StoresFit
<1>1. /\ decGen \in Nat /\ decGen \in Generations
      /\ decoder.at \in Nat /\ decoder'.at \in Nat /\ published.frame \in Nat
  <2>1. decGen \in Generations /\ decoder.at \in Starts /\ decoder'.at \in Starts /\ published.frame \in Starts
    BY <1>0 DEF WorkerTypeOK, PublishedFields
  <2> QED
    BY <2>1, Bounds
<1>2. AudioPlace' /\ Leased' /\ AudioTypeOK' /\ TypeOK'
  BY <1>1, WorkerLeavesAudio
<1>3. CoordinatorTypeOK'
  BY <1>2, TypesOfThreadsAfter
<1>4. Versions'
  BY <1>0 DEF Versions
<1>5. StoresFit'
  <2>1. published.frame <= decoder.at /\ published.frame <= decoder'.at
    BY <1>0, <1>1 DEF StoresFit
  <2> QED
    BY <2>1, <1>0 DEF StoresFit, Due
<1>6. SnapFits'
  BY <1>0 DEF SnapFits, audioVars
<1>7. Follows'
  BY <1>0 DEF Follows, Behind, audioVars
<1> QED
  BY <1>2, <1>3, <1>4, <1>5, <1>6, <1>7 DEF PlayInv

(* refill returns.                                                         *)
LEMMA ReturnsTypes ==
  ASSUME WorkerTypeOK, NEW st \in DecodeAheadState, RefillReturns(st)
  PROVE  /\ decState' \in DecodeAheadState /\ published' \in PublishedFields
         /\ published'.gen = published.gen /\ published'.frame = published.frame
         /\ published'.channels = published.channels /\ published'.duration = published.duration
BY DEF WorkerTypeOK, RefillReturns, PublishedFields

LEMMA RefillKeeps ==
  ASSUME PlayInv, PoolInv', WorkerRefill
  PROVE  PlayInv'
<1>0. /\ WorkerTypeOK /\ TypeOK /\ StoresFit /\ WorkerPlace /\ wk = "idle" /\ w.pc = "idle"
  BY TypesOfThreads DEF PlayInv, WorkerRefill, WorkerIdle
<1>1. /\ UNCHANGED <<todo, decoder, decGen, version, refused, audioVars, leases, r, gen>>
      /\ WorkerTypeOK' /\ wk' # "publish" /\ WorkerPlace'
      /\ published'.gen = published.gen /\ published'.frame = published.frame
      /\ published'.channels = published.channels /\ published'.duration = published.duration
  <2>1. CASE RefillReturns(decState) /\ UNCHANGED poolVars
    <3>1. /\ decState' \in DecodeAheadState /\ published' \in PublishedFields
          /\ published'.gen = published.gen /\ published'.frame = published.frame
          /\ published'.channels = published.channels /\ published'.duration = published.duration
      BY <2>1, <1>0, ReturnsTypes DEF WorkerTypeOK
    <3>2. wk' = "idle" /\ UNCHANGED <<todo, decoder, decGen, version, refused, audioVars, poolVars>>
      BY <2>1 DEF WorkerRefill, RefillReturns
    <3> QED
      BY <3>1, <3>2, <1>0 DEF WorkerTypeOK, WorkerPlace, poolVars
  <2>2. CASE ReadyCountCall /\ wk' = "refillCount" /\ UNCHANGED <<decState, published>> /\ decState = "Ready"
    <3>1. w'.pc = "ready" /\ w'.slot = NoSlot /\ UNCHANGED <<leases, r, gen>>
      BY <2>2 DEF ReadyCountCall, WIdle, shared
    <3>2. UNCHANGED <<todo, decoder, decGen, version, refused, audioVars>>
      BY DEF WorkerRefill
    <3> QED
      BY <3>1, <3>2, <2>2, <1>0 DEF WorkerTypeOK, WorkerPlace
  <2> QED
    BY <2>1, <2>2 DEF WorkerRefill
<1> QED
  <2>1. decoder.at <= decoder.length /\ decoder.at \in Nat
    BY <1>0, Bounds DEF StoresFit, WorkerTypeOK
  <2> QED
    BY <1>0, <1>1, <2>1, RefillKeepsRest

LEMMA ReserveKeeps ==
  ASSUME PlayInv, PoolInv', RefillReserve
  PROVE  PlayInv'
<1>0. /\ WorkerTypeOK /\ TypeOK /\ StoresFit /\ WorkerPlace /\ wk = "refillCount" /\ w.pc = "idle"
      /\ decState = "Ready" /\ w.slot = NoSlot
  BY TypesOfThreads DEF PlayInv, RefillReserve, WorkerPlace
<1>1. /\ UNCHANGED <<todo, decoder, decGen, version, refused, audioVars, leases, r, gen>>
      /\ WorkerTypeOK' /\ wk' # "publish" /\ WorkerPlace'
      /\ published'.gen = published.gen /\ published'.frame = published.frame
      /\ published'.channels = published.channels /\ published'.duration = published.duration
  <2>1. CASE RefillReturns("Ready") /\ UNCHANGED poolVars
    <3>1. /\ decState' \in DecodeAheadState /\ published' \in PublishedFields
          /\ published'.gen = published.gen /\ published'.frame = published.frame
          /\ published'.channels = published.channels /\ published'.duration = published.duration
      BY <2>1, <1>0, ReturnsTypes DEF DecodeAheadState
    <3>2. wk' = "idle" /\ UNCHANGED <<todo, decoder, decGen, version, refused, audioVars, poolVars>>
      BY <2>1 DEF RefillReserve, RefillReturns
    <3> QED
      BY <3>1, <3>2, <1>0 DEF WorkerTypeOK, WorkerPlace, poolVars
  <2>2. CASE BeginWriteCall /\ wk' = "refillReserve" /\ UNCHANGED <<decState, published>>
    <3>1. w'.pc = "reserve" /\ w'.slot = NoSlot /\ UNCHANGED <<leases, r, gen>>
      BY <2>2 DEF BeginWriteCall, WIdle, shared
    <3>2. UNCHANGED <<todo, decoder, decGen, version, refused, audioVars>>
      BY DEF RefillReserve
    <3> QED
      BY <3>1, <3>2, <2>2, <1>0 DEF WorkerTypeOK, WorkerPlace
  <2> QED
    BY <2>1, <2>2 DEF RefillReserve
<1> QED
  <2>1. decoder.at <= decoder.length /\ decoder.at \in Nat
    BY <1>0, Bounds DEF StoresFit, WorkerTypeOK
  <2> QED
    BY <1>0, <1>1, <2>1, RefillKeepsRest

LEMMA ReadKeeps ==
  ASSUME PlayInv, PoolInv', RefillRead
  PROVE  PlayInv'
<1>0. /\ WorkerTypeOK /\ TypeOK /\ StoresFit /\ WorkerPlace /\ wk = "refillReserve" /\ w.pc = "idle"
      /\ decState = "Ready" /\ w \in WorkerCalls /\ CoordinatorTypeOK
  BY TypesOfThreads DEF PlayInv, RefillRead, WorkerPlace, TypeOK
<1>a. /\ decoder.at \in Nat /\ decoder.length \in Nat /\ decoder.at <= decoder.length
      /\ decoder \in [length : {0} \cup Tracks, at : Starts]
  BY <1>0, Bounds DEF StoresFit, WorkerTypeOK
<1>1. /\ UNCHANGED <<todo, decGen, version, refused, audioVars, leases, r, gen>>
      /\ WorkerTypeOK' /\ wk' # "publish" /\ WorkerPlace'
      /\ decoder'.length = decoder.length /\ decoder'.at >= decoder.at /\ decoder'.at <= decoder.length
      /\ published'.gen = published.gen /\ published'.frame = published.frame
      /\ published'.channels = published.channels /\ published'.duration = published.duration
  <2>0. UNCHANGED <<todo, decGen, version, refused, audioVars>>
    BY DEF RefillRead
  <2>1. CASE w.slot = NoSlot /\ RefillReturns("Ready") /\ UNCHANGED <<poolVars, decoder>>
    <3>1. /\ decState' \in DecodeAheadState /\ published' \in PublishedFields
          /\ published'.gen = published.gen /\ published'.frame = published.frame
          /\ published'.channels = published.channels /\ published'.duration = published.duration
      BY <2>1, <1>0, ReturnsTypes DEF DecodeAheadState
    <3>2. wk' = "idle" /\ UNCHANGED <<decoder, poolVars>>
      BY <2>1 DEF RefillReturns
    <3> QED
      BY <2>0, <2>1, <3>1, <3>2, <1>0, <1>a DEF WorkerTypeOK, WorkerPlace, poolVars
  <2>2. CASE CancelCall /\ wk' \in {"refillEnd", "refillError"} /\ UNCHANGED <<decState, published, decoder>>
    <3>1. w'.pc = "cancel" /\ UNCHANGED <<leases, r, gen>>
      BY <2>2, <1>0 DEF CancelCall, WorkerCalls, shared
    <3> QED
      BY <2>0, <2>2, <3>1, <1>0, <1>a DEF WorkerTypeOK, WorkerPlace
  <2>3. CASE /\ Remaining > 0 /\ FillAudio(decoder.at, ReadFrames) /\ wk' = "refillPublish"
             /\ decoder' = [decoder EXCEPT !.at = @ + ReadFrames] /\ UNCHANGED <<decState, published>>
    <3>1. ReadFrames \in 1 .. MaxFrames /\ decoder.at + ReadFrames <= decoder.length
      BY <2>3, <1>0, ReadSome
    <3>2. w' = w /\ w.slot \in Slots /\ UNCHANGED <<leases, r, gen>>
      BY <2>3 DEF FillAudio, fields
    <3>3. /\ decoder' \in [length : {0} \cup Tracks, at : Starts]
          /\ decoder'.length = decoder.length /\ decoder'.at = decoder.at + ReadFrames
      <4>1. decoder.length <= MaxFrame
        BY <1>a, Bounds
      <4>2. decoder.at + ReadFrames \in Starts
        BY <4>1, <1>a, <3>1, Bounds
      <4> QED
        BY <4>2, <2>3, <1>a
    <3>4. decoder'.at >= decoder.at /\ decoder'.at <= decoder.length
      BY <3>1, <3>3, <1>a
    <3> QED
      BY <2>0, <2>3, <3>2, <3>3, <3>4, <1>0 DEF WorkerTypeOK, WorkerPlace
  <2> QED
    BY <2>1, <2>2, <2>3 DEF RefillRead
<1> QED
  BY <1>0, <1>1, RefillKeepsRest

LEMMA ChunkPublishKeeps ==
  ASSUME PlayInv, PoolInv', RefillPublish
  PROVE  PlayInv'
<1>0. /\ WorkerTypeOK /\ TypeOK /\ StoresFit /\ WorkerPlace /\ wk = "refillPublish" /\ w.pc = "idle"
      /\ decState = "Ready" /\ w \in WorkerCalls /\ w.slot \in Slots
  BY TypesOfThreads DEF PlayInv, RefillPublish, WorkerPlace, TypeOK
<1>1. /\ UNCHANGED <<todo, decoder, decGen, version, refused, audioVars, leases, r, gen, published>>
      /\ WorkerTypeOK' /\ wk' # "publish" /\ WorkerPlace'
  <2>0. UNCHANGED <<todo, decoder, decGen, decState, version, published, refused, audioVars>>
    BY DEF RefillPublish
  <2>1. CASE PublishCall(audio[w.slot].from, decGen, TRUE) /\ wk' = "refillPublished"
    <3>1. w'.pc = "pubStart" /\ w'.gen = decGen /\ UNCHANGED <<leases, r, gen>>
      BY <2>1, <1>0 DEF PublishCall, WorkerCalls, shared
    <3> QED
      BY <2>0, <2>1, <3>1, <1>0 DEF WorkerTypeOK, WorkerPlace
  <2>2. CASE PublishCall(audio[w.slot].from, decGen, FALSE) /\ wk' = "refillError"
    <3>1. w'.pc = "cancel" /\ UNCHANGED <<leases, r, gen>>
      BY <2>2, <1>0 DEF PublishCall, WorkerCalls, shared
    <3> QED
      BY <2>0, <2>2, <3>1, <1>0 DEF WorkerTypeOK, WorkerPlace
  <2> QED
    BY <2>1, <2>2 DEF RefillPublish
<1> QED
  <2>1. decoder.at <= decoder.length /\ decoder.at \in Nat
    BY <1>0, Bounds DEF StoresFit, WorkerTypeOK
  <2> QED
    BY <1>0, <1>1, <2>1, RefillKeepsRest

LEMMA PublishedKeeps ==
  ASSUME PlayInv, PoolInv', RefillPublished
  PROVE  PlayInv'
<1>0. /\ WorkerTypeOK /\ TypeOK /\ StoresFit /\ WorkerPlace /\ wk = "refillPublished" /\ w.pc = "idle"
      /\ decState = "Ready" /\ w.slot = NoSlot
  BY TypesOfThreads DEF PlayInv, RefillPublished, WorkerPlace
<1>1. /\ UNCHANGED <<todo, decoder, decGen, version, refused, audioVars, leases, r, gen>>
      /\ WorkerTypeOK' /\ wk' # "publish" /\ WorkerPlace'
      /\ published'.gen = published.gen /\ published'.frame = published.frame
      /\ published'.channels = published.channels /\ published'.duration = published.duration
  <2>0. UNCHANGED <<todo, decoder, decGen, version, refused, audioVars>>
    BY DEF RefillPublished
  <2>1. CASE RefillReturns("EndOfStream") /\ UNCHANGED poolVars
    <3>1. /\ decState' \in DecodeAheadState /\ published' \in PublishedFields
          /\ published'.gen = published.gen /\ published'.frame = published.frame
          /\ published'.channels = published.channels /\ published'.duration = published.duration
      BY <2>1, <1>0, ReturnsTypes DEF DecodeAheadState
    <3>2. wk' = "idle"
      BY <2>1 DEF RefillReturns
    <3> QED
      BY <2>0, <2>1, <3>1, <3>2, <1>0 DEF WorkerTypeOK, WorkerPlace, poolVars
  <2>2. CASE ReadyCountCall /\ wk' = "refillCount" /\ UNCHANGED <<decState, published>>
    <3>1. w'.pc = "ready" /\ w'.slot = NoSlot /\ UNCHANGED <<leases, r, gen>>
      BY <2>2 DEF ReadyCountCall, WIdle, shared
    <3> QED
      BY <2>0, <3>1, <2>2, <1>0 DEF WorkerTypeOK, WorkerPlace
  <2> QED
    BY <2>1, <2>2 DEF RefillPublished
<1> QED
  <2>1. decoder.at <= decoder.length /\ decoder.at \in Nat
    BY <1>0, Bounds DEF StoresFit, WorkerTypeOK
  <2> QED
    BY <1>0, <1>1, <2>1, RefillKeepsRest

LEMMA StopsKeeps ==
  ASSUME PlayInv, PoolInv', RefillStops
  PROVE  PlayInv'
<1>0. /\ WorkerTypeOK /\ TypeOK /\ StoresFit /\ WorkerPlace /\ wk \in {"refillEnd", "refillError"}
      /\ w.pc = "idle" /\ w.slot = NoSlot
  BY TypesOfThreads DEF PlayInv, RefillStops, WorkerPlace
<1>1. PICK st \in DecodeAheadState : RefillReturns(st)
  BY DEF RefillStops, DecodeAheadState
<1>2. /\ UNCHANGED <<todo, decoder, decGen, version, refused, audioVars, leases, r, gen, w>>
      /\ wk' = "idle"
  BY <1>1 DEF RefillStops, RefillReturns, poolVars
<1>3. /\ decState' \in DecodeAheadState /\ published' \in PublishedFields
      /\ published'.gen = published.gen /\ published'.frame = published.frame
      /\ published'.channels = published.channels /\ published'.duration = published.duration
  BY <1>1, <1>0, ReturnsTypes
<1>4. WorkerTypeOK' /\ WorkerPlace'
  BY <1>0, <1>2, <1>3 DEF WorkerTypeOK, WorkerPlace
<1>5. decoder.at <= decoder.length /\ decoder.at \in Nat
  BY <1>0, Bounds DEF StoresFit, WorkerTypeOK
<1> QED
  BY <1>0, <1>2, <1>3, <1>4, <1>5, RefillKeepsRest

(* A step inside a pool call of the worker.                                *)
LEMMA WorkerStepKeeps ==
  ASSUME PlayInv, PoolInv', WorkerStep, UNCHANGED <<workerVars, audioVars>>
  PROVE  PlayInv'
<1>0. /\ CoordinatorTypeOK /\ Versions /\ Leased /\ StoresFit /\ SnapFits /\ Follows /\ WorkerPlace
      /\ WorkerTypeOK /\ TypeOK /\ CallShape /\ PoolInv
  BY TypesOfThreads DEF PlayInv, PoolInv, SlotInv
<1>1. WorkerStays
  BY <1>0, WorkerStaysInCall
<1>2. \A i \in leases : gen'[i] = gen[i]
  <2>1. [Next]_poolVars
    BY DEF Next
  <2> QED
    BY <2>1, <1>0, FrozenStep
    DEF Frozen, PoolInv, SlotInv, TypeOK, ExclusiveAudio, Writes, Leases
<1>3. decGen \in Generations /\ decGen \in Nat /\ UNCHANGED <<leases, r, decGen>>
  BY <1>0, <1>1, Bounds DEF WorkerTypeOK, WorkerStays, workerVars
<1>4. AudioPlace' /\ Leased' /\ AudioTypeOK' /\ TypeOK'
  BY <1>2, <1>3, WorkerLeavesAudio
<1>5. CoordinatorTypeOK'
  <2>1. WorkerTypeOK'
    BY <1>0 DEF WorkerTypeOK, workerVars
  <2> QED
    BY <1>4, <2>1, TypesOfThreadsAfter
<1>6. WorkerPlace'
  <2>1. UNCHANGED <<wk, todo, decGen, decState>> /\ w.pc # "idle"
    BY <1>1 DEF workerVars, WorkerStays
  <2>2. wk # "idle"
    BY <2>1, <1>0 DEF WorkerPlace
  <2>3. CASE wk = "publish"
    BY <2>1, <2>3, <1>0, <1>1 DEF WorkerPlace, WorkerStays, Discarding, Publishing
  <2>4. CASE wk = "refillCount"
    BY <2>1, <2>4, <1>0, <1>1 DEF WorkerPlace, WorkerStays, Discarding, Publishing
  <2>5. CASE wk = "refillReserve"
    BY <2>1, <2>5, <1>0, <1>1 DEF WorkerPlace, WorkerStays, Discarding, Publishing
  <2>6. CASE wk = "refillPublish"
    BY <2>1, <2>6, <1>0 DEF WorkerPlace
  <2>7. CASE wk = "refillPublished"
    BY <2>1, <2>7, <1>0, <1>1 DEF WorkerPlace, WorkerStays, Discarding, Publishing
  <2>8. CASE wk \in {"refillEnd", "refillError"}
    BY <2>1, <2>8, <1>0, <1>1 DEF WorkerPlace, WorkerStays, Discarding, Publishing
  <2> QED
    BY <2>2, <2>3, <2>4, <2>5, <2>6, <2>7, <2>8, <1>0 DEF WorkerTypeOK
<1>7. Versions' /\ StoresFit' /\ Follows'
  BY <1>0 DEF Versions, StoresFit, Due, Follows, Behind, workerVars, audioVars
<1>8. SnapFits'
  BY <1>0 DEF SnapFits, workerVars, audioVars
<1> QED
  BY <1>4, <1>5, <1>6, <1>7, <1>8 DEF PlayInv

-----------------------------------------------------------------------------
(* The invariant through the audio thread's actions                        *)

LEMMA AudioLeavesWorker ==
  ASSUME PlayInv, PoolInv', UNCHANGED <<workerVars, w>>
  PROVE  WorkerPlace' /\ Versions' /\ StoresFit' /\ WorkerTypeOK' /\ TypeOK'
<1>0. Versions /\ StoresFit /\ WorkerTypeOK /\ WorkerPlace
  BY TypesOfThreads DEF PlayInv
<1>1. WorkerPlace'
  BY <1>0 DEF WorkerPlace, workerVars
<1>2. Versions' /\ StoresFit'
  BY <1>0 DEF Versions, StoresFit, Due, workerVars
<1>3. WorkerTypeOK' /\ TypeOK'
  BY <1>0 DEF WorkerTypeOK, workerVars, PoolInv, SlotInv
<1> QED
  BY <1>1, <1>2, <1>3

LEMMA RendererStepKeeps ==
  ASSUME PlayInv, PoolInv', RendererStep, UNCHANGED <<workerVars, audioVars>>
  PROVE  PlayInv'
<1>0. /\ CoordinatorTypeOK /\ Leased /\ SnapFits /\ Follows /\ AudioPlace /\ AudioTypeOK
      /\ TypeOK /\ CallShape /\ PoolInv
  BY TypesOfThreads DEF PlayInv, PoolInv, SlotInv
<1>1. /\ r.pc \in Acquiring => r'.pc \in Acquiring \cup {"idle"}
      /\ r.pc \in Releasing => r'.pc \in Releasing \cup {"idle"}
      /\ r.pc \in Ranging => r'.pc \in Ranging \cup {"idle"}
      /\ r.pc # "idle" /\ r.pc \in Acquiring \cup Releasing \cup Ranging
      /\ r'.pc \in Acquiring \cup Ranging => r'.gen = r.gen
      /\ \A i \in leases' : i \in leases \/ (r.pc = "acquireCheck" /\ i = r.at /\ gen[i] = r.gen)
      /\ UNCHANGED <<gen, start, count, audio, nextWrite, w>>
  BY <1>0, RendererStaysInCall
<1>2. WorkerPlace' /\ Versions' /\ StoresFit' /\ WorkerTypeOK' /\ TypeOK'
  BY <1>1, AudioLeavesWorker
<1>3. CoordinatorTypeOK'
  <2>1. AudioTypeOK'
    BY <1>0 DEF AudioTypeOK, audioVars
  <2> QED
    BY <1>2, <2>1, TypesOfThreadsAfter
<1>4. AudioPlace'
  BY <1>0, <1>1 DEF AudioPlace, audioVars, Acquiring, Releasing, Ranging
<1>5. Leased'
  BY <1>0, <1>1 DEF Leased, AudioPlace, audioVars, workerVars
<1>6. SnapFits' /\ Follows'
  BY <1>0 DEF SnapFits, Follows, Behind, workerVars, audioVars
<1> QED
  BY <1>2, <1>3, <1>4, <1>5, <1>6 DEF PlayInv

(* A version is loaded: an odd one sends the render call to silence.       *)
LEMMA LoadVersionKeeps ==
  ASSUME PlayInv, PoolInv', NEW attempt \in {1, 2}, NEW loads, NEW busy,
         LoadVersion(attempt, loads, busy), r.pc = "idle",
         (loads = "gen" /\ busy = "suspend") \/ (loads = "diagGen" /\ busy = "diagBusy")
  PROVE  PlayInv'
<1>0. /\ CoordinatorTypeOK /\ Leased /\ SnapFits /\ Follows /\ AudioPlace /\ AudioTypeOK
      /\ WorkerTypeOK /\ TypeOK /\ Versions
  BY TypesOfThreads DEF PlayInv
<1>1. UNCHANGED <<poolVars, workerVars, adopted, renderGen, pos>>
  BY DEF LoadVersion
<1>2. WorkerPlace' /\ Versions' /\ StoresFit' /\ WorkerTypeOK' /\ TypeOK'
  BY <1>1, AudioLeavesWorker DEF poolVars
<1>3. version \in Nat /\ version \in 0 .. MaxVersion /\ 0 \in 0 .. MaxVersion /\ decGen \in Nat
  BY <1>0, Bounds, VersionAssumption DEF WorkerTypeOK
<1>4. \/ TransitionRuns /\ rk' = busy /\ snap' = NoSnap
      \/ /\ ~ TransitionRuns /\ rk' = loads
         /\ snap' = [NoSnap EXCEPT !.attempt = attempt, !.version = version]
  BY DEF LoadVersion
<1>5. /\ snap' \in Snapshots
      /\ ~ TransitionRuns => /\ snap'.attempt \in {1, 2} /\ snap'.version = version /\ snap'.gen = 0
  <2>1. NoSnap \in Snapshots
    BY <1>3, Bounds DEF NoSnap, Snapshots
  <2>2. CASE ~ TransitionRuns
    <3>1. snap' = [attempt |-> attempt, version |-> version, gen |-> 0, frame |-> 0,
                   channels |-> 0, duration |-> 0]
      BY <2>2, <1>4 DEF NoSnap
    <3>2. snap'.version \in 0 .. MaxVersion /\ snap'.attempt \in {0, 1, 2}
      BY <3>1, <1>3
    <3> QED
      BY <3>1, <3>2, <1>3, Bounds DEF Snapshots
  <2> QED
    BY <2>1, <2>2, <1>4
<1>6. CoordinatorTypeOK'
  <2>1. AudioTypeOK'
    BY <1>0, <1>1, <1>4, <1>5 DEF AudioTypeOK
  <2> QED
    BY <1>2, <2>1, TypesOfThreadsAfter
<1>7. AudioPlace'
  BY <1>1 DEF AudioPlace, poolVars
<1>8. Leased'
  BY <1>0, <1>1 DEF Leased, poolVars, workerVars
<1>9. SnapFits' /\ Follows'
  <2>1. CASE TransitionRuns
    <3>1. wk = "publish" /\ Behind
      BY <2>1, <1>0 DEF TransitionRuns, Versions, Follows
    <3> QED
      BY <3>1, <2>1, <1>4, <1>1 DEF SnapFits, Follows, Behind, Loading, workerVars
  <2>2. CASE ~ TransitionRuns
    <3>1. version % 2 = 0 /\ wk # "publish"
      BY <2>2, <1>0, <1>3, Parity DEF TransitionRuns, Versions
    <3> QED
      BY <3>1, <2>2, <1>0, <1>3, <1>4, <1>5, <1>1 DEF SnapFits, Follows, Behind, Loading, workerVars
  <2> QED
    BY <2>1, <2>2
<1> QED
  BY <1>2, <1>6, <1>7, <1>8, <1>9 DEF PlayInv

(* A published field is loaded; the fields loaded before are still the     *)
(* published ones if the version still is.                                 *)
LEMMA LoadKeeps ==
  ASSUME PlayInv, PoolInv', NEW pc, NEW field, NEW next, Load(pc, field, next),
         \/ pc = "gen" /\ field = "gen" /\ next = "frame"
         \/ pc = "frame" /\ field = "frame" /\ next = "channels"
         \/ pc = "channels" /\ field = "channels" /\ next = "check"
         \/ pc = "diagGen" /\ field = "gen" /\ next = "diagDuration"
         \/ pc = "diagDuration" /\ field = "duration" /\ next = "diagRange"
  PROVE  PlayInv'
<1>0. /\ CoordinatorTypeOK /\ Leased /\ SnapFits /\ Follows /\ AudioPlace /\ AudioTypeOK
      /\ WorkerTypeOK /\ TypeOK /\ Versions /\ StoresFit
  BY TypesOfThreads DEF PlayInv
<1>1. /\ UNCHANGED <<poolVars, workerVars, adopted, renderGen, pos>>
      /\ rk = pc /\ r.pc = "idle" /\ rk' = next
  BY DEF Load, AudioAt
<1>2. WorkerPlace' /\ Versions' /\ StoresFit' /\ WorkerTypeOK' /\ TypeOK'
  BY <1>1, AudioLeavesWorker DEF poolVars
<1>3. /\ snap' \in Snapshots
      /\ snap'.attempt = snap.attempt /\ snap'.version = snap.version
      /\ snap'.gen = IF field = "gen" THEN published.gen ELSE snap.gen
      /\ snap'.frame = IF field = "frame" THEN published.frame ELSE snap.frame
      /\ snap'.channels = IF field = "channels" THEN published.channels ELSE snap.channels
      /\ snap'.duration = IF field = "duration" THEN published.duration ELSE snap.duration
  BY <1>0, LoadOfField DEF AudioTypeOK, WorkerTypeOK
<1>4. CoordinatorTypeOK'
  <2>1. AudioTypeOK'
    BY <1>0, <1>1, <1>3 DEF AudioTypeOK
  <2> QED
    BY <1>2, <2>1, TypesOfThreadsAfter
<1>5. AudioPlace' /\ Leased'
  BY <1>0, <1>1 DEF AudioPlace, Leased, poolVars, workerVars
<1>6. SnapFits'
  <2>1. published.gen <= decGen /\ UNCHANGED <<version, published, decGen>>
    BY <1>0, <1>1 DEF StoresFit, workerVars
  <2> QED
    BY <2>1, <1>0, <1>1, <1>3 DEF SnapFits, Loading
<1>7. Follows'
  BY <1>0, <1>1, <1>3 DEF Follows, Behind, workerVars
<1> QED
  BY <1>2, <1>4, <1>5, <1>6, <1>7 DEF PlayInv

(* An action that moves only the audio thread's place, and from where      *)
(* nothing is loaded any more.                                             *)
LEMMA AudioMoves ==
  ASSUME PlayInv, PoolInv', UNCHANGED <<workerVars, w, gen, adopted, renderGen>>, leases' \subseteq leases,
         pos' \in Starts, snap' \in Snapshots, AudioPlace',
         rk' \in {"idle", "suspend", "retry", "acquire", "acquired", "render", "consume",
                  "diagRetry", "diagBusy", "diagDone"},
         rk' \in {"suspend", "retry"} => Behind
  PROVE  PlayInv'
<1>0. /\ CoordinatorTypeOK /\ Leased /\ SnapFits /\ Follows /\ AudioTypeOK /\ TypeOK
  BY TypesOfThreads DEF PlayInv
<1>1. WorkerPlace' /\ Versions' /\ StoresFit' /\ WorkerTypeOK' /\ TypeOK'
  BY AudioLeavesWorker
<1>2. CoordinatorTypeOK'
  <2>1. AudioTypeOK'
    BY <1>0 DEF AudioTypeOK
  <2> QED
    BY <1>1, <2>1, TypesOfThreadsAfter
<1>3. Leased'
  BY <1>0 DEF Leased, workerVars
<1>4. SnapFits' /\ Follows'
  BY <1>0 DEF SnapFits, Follows, Loading, Behind, workerVars
<1> QED
  BY <1>1, <1>2, <1>3, <1>4 DEF PlayInv

LEMMA SnapCheckKeeps ==
  ASSUME PlayInv, PoolInv', SnapCheck
  PROVE  PlayInv'
<1>0. /\ CoordinatorTypeOK /\ Leased /\ SnapFits /\ Follows /\ AudioPlace /\ AudioTypeOK
      /\ WorkerTypeOK /\ TypeOK /\ Versions /\ StoresFit /\ WorkerPlace
      /\ rk = "check" /\ r.pc = "idle"
  BY TypesOfThreads DEF PlayInv, SnapCheck, AudioAt
<1>1. UNCHANGED <<poolVars, workerVars, snap, adopted, renderGen, pos>>
  BY DEF SnapCheck
<1>2. AudioPlace' /\ snap' \in Snapshots /\ pos' \in Starts
  BY <1>0, <1>1 DEF AudioPlace, AudioTypeOK, poolVars
<1>3. CASE version # snap.version
  <2>1. Behind /\ rk' \in {"retry", "suspend"}
    BY <1>0, <1>3 DEF Follows, SnapFits, Loading, SnapCheck
  <2> QED
    BY <2>1, <1>1, <1>2, AudioMoves DEF poolVars
<1>4. CASE version = snap.version /\ snap.gen # adopted
  <2>1. rk' = "prepare"
    BY <1>4 DEF SnapCheck
  <2>2. /\ snap.gen = published.gen /\ snap.frame = published.frame
        /\ version % 2 = 0
    BY <1>0, <1>4 DEF SnapFits, Loading
  <2>3. wk # "publish" /\ ~ Due("gen")
    BY <2>2, <1>0 DEF Versions, StoresFit, Due
  <2>4. snap.gen = decGen /\ adopted < decGen
    <3>1. snap.gen = decGen
      BY <2>2, <2>3, <1>0 DEF StoresFit
    <3>2. adopted \in Nat /\ decGen \in Nat /\ adopted <= decGen /\ adopted # decGen
      BY <3>1, <1>4, <1>0, Bounds DEF AudioTypeOK, WorkerTypeOK, Leased
    <3> QED
      BY <3>1, <3>2
  <2>5. WorkerPlace' /\ Versions' /\ StoresFit' /\ WorkerTypeOK' /\ TypeOK'
    BY <1>1, AudioLeavesWorker DEF poolVars
  <2>6. CoordinatorTypeOK'
    <3>1. AudioTypeOK'
      BY <1>0, <1>1, <2>1 DEF AudioTypeOK
    <3> QED
      BY <2>5, <3>1, TypesOfThreadsAfter
  <2>7. Leased'
    BY <1>0, <1>1 DEF Leased, poolVars, workerVars
  <2>8. SnapFits' /\ Follows'
    BY <1>0, <1>1, <2>1, <2>2, <2>3, <2>4 DEF SnapFits, Follows, Loading, Behind, workerVars
  <2> QED
    BY <1>2, <2>5, <2>6, <2>7, <2>8 DEF PlayInv
<1>5. CASE version = snap.version /\ snap.gen = adopted
  <2>1. rk' = "acquire"
    BY <1>5 DEF SnapCheck
  <2> QED
    BY <2>1, <1>1, <1>2, AudioMoves DEF poolVars
<1> QED
  BY <1>3, <1>4, <1>5

(* A call of the audio thread begins; nothing else changes.                *)
LEMMA AudioCalls ==
  ASSUME PlayInv, PoolInv', UNCHANGED <<workerVars, audioVars, w, gen, leases>>, AudioPlace'
  PROVE  PlayInv'
<1>0. /\ CoordinatorTypeOK /\ Leased /\ SnapFits /\ Follows /\ AudioTypeOK /\ TypeOK
  BY TypesOfThreads DEF PlayInv
<1>1. WorkerPlace' /\ Versions' /\ StoresFit' /\ WorkerTypeOK' /\ TypeOK'
  BY AudioLeavesWorker
<1>2. CoordinatorTypeOK'
  <2>1. AudioTypeOK'
    BY <1>0 DEF AudioTypeOK, audioVars
  <2> QED
    BY <1>1, <2>1, TypesOfThreadsAfter
<1>3. Leased'
  BY <1>0 DEF Leased, workerVars, audioVars
<1>4. SnapFits' /\ Follows'
  BY <1>0 DEF SnapFits, Follows, Loading, Behind, workerVars, audioVars
<1> QED
  BY <1>1, <1>2, <1>3, <1>4 DEF PlayInv

LEMMA ReleaseAllKeeps ==
  ASSUME PlayInv, PoolInv', NEW pc \in {"suspend", "prepare"}, ReleaseAll(pc)
  PROVE  PlayInv'
<1>0. rk = pc /\ r.pc = "idle" /\ r \in RendererCalls /\ AudioPlace
  BY DEF PlayInv, CoordinatorTypeOK, PlayTypeOK, TypeOK, ReleaseAll, AudioAt
<1>1. PICK i \in leases : ReleaseCall(i)
  BY DEF ReleaseAll
<1>2. UNCHANGED <<workerVars, audioVars, w, gen, leases>>
  BY <1>1 DEF ReleaseAll, ReleaseCall, shared
<1>3. r'.pc = "release"
  BY <1>1 DEF ReleaseCall, RIdle
<1>4. AudioPlace'
  BY <1>0, <1>2, <1>3 DEF AudioPlace, audioVars
<1> QED
  BY <1>2, <1>4, AudioCalls

LEMMA SuspendedKeeps ==
  ASSUME PlayInv, PoolInv', Suspended
  PROVE  PlayInv'
<1>1. /\ UNCHANGED <<poolVars, workerVars, adopted, renderGen, pos>>
      /\ rk' = "idle" /\ snap' = NoSnap /\ r.pc = "idle"
  BY DEF Suspended, AudioAt
<1>2. NoSnap \in Snapshots
  BY VersionAssumption, Bounds DEF NoSnap, Snapshots
<1>3. AudioPlace' /\ pos' \in Starts
  BY <1>1 DEF AudioPlace, poolVars, PlayInv, CoordinatorTypeOK, PlayTypeOK
<1> QED
  BY <1>1, <1>2, <1>3, AudioMoves DEF poolVars

LEMMA AcquireKeeps ==
  ASSUME PlayInv, PoolInv', Acquire
  PROVE  PlayInv'
<1>0. /\ rk = "acquire" /\ r.pc = "idle" /\ snap \in Snapshots /\ pos \in Starts
      /\ UNCHANGED <<workerVars, snap, adopted, renderGen, pos>>
  BY DEF PlayInv, CoordinatorTypeOK, PlayTypeOK, Acquire, AudioAt
<1>1. CASE AcquireCall(renderGen) /\ rk' = "acquired"
  <2>1. r'.pc = "acquire" /\ r'.gen = renderGen /\ UNCHANGED <<w, gen, leases>>
    BY <1>1 DEF AcquireCall, RIdle, shared
  <2>2. AudioPlace'
    BY <2>1, <1>0, <1>1 DEF AudioPlace
  <2> QED
    BY <2>1, <2>2, <1>0, <1>1, AudioMoves
<1>2. CASE rk' = "render" /\ UNCHANGED poolVars
  <2>1. AudioPlace'
    BY <1>2, <1>0 DEF AudioPlace, poolVars
  <2> QED
    BY <2>1, <1>0, <1>2, AudioMoves DEF poolVars
<1> QED
  BY <1>1, <1>2 DEF Acquire

LEMMA AcquiredKeeps ==
  ASSUME PlayInv, PoolInv', Acquired
  PROVE  PlayInv'
<1>0. /\ rk = "acquired" /\ r.pc = "idle" /\ snap \in Snapshots /\ pos \in Starts
      /\ UNCHANGED <<poolVars, workerVars, snap, adopted, renderGen, pos>>
      /\ rk' \in {"render", "acquire"}
  BY DEF PlayInv, CoordinatorTypeOK, PlayTypeOK, Acquired, AudioAt
<1>1. AudioPlace'
  BY <1>0 DEF AudioPlace, poolVars
<1> QED
  BY <1>0, <1>1, AudioMoves DEF poolVars

LEMMA ConsumeKeeps ==
  ASSUME PlayInv, PoolInv', Consume
  PROVE  PlayInv'
<1>0. /\ rk = "consume" /\ r.pc = "idle" /\ snap \in Snapshots /\ pos \in Starts
      /\ UNCHANGED <<workerVars, snap, adopted, renderGen, pos>>
  BY DEF PlayInv, CoordinatorTypeOK, PlayTypeOK, Consume, AudioAt
<1>1. ASSUME NEW i \in Consumed, ReleaseCall(i), UNCHANGED rk PROVE PlayInv'
  <2>1. r'.pc = "release" /\ UNCHANGED <<w, gen, leases>>
    BY <1>1 DEF ReleaseCall, RIdle, shared
  <2>2. AudioPlace'
    BY <2>1, <1>0, <1>1 DEF AudioPlace
  <2> QED
    BY <2>1, <2>2, <1>0, <1>1, AudioCalls DEF audioVars
<1>2. CASE rk' = "idle" /\ UNCHANGED poolVars
  <2>1. AudioPlace'
    BY <1>2, <1>0 DEF AudioPlace, poolVars
  <2> QED
    BY <2>1, <1>0, <1>2, AudioMoves DEF poolVars
<1> QED
  BY <1>1, <1>2 DEF Consume

LEMMA PreparedKeeps ==
  ASSUME PlayInv, PoolInv', Prepared
  PROVE  PlayInv'
<1>0. /\ CoordinatorTypeOK /\ Leased /\ SnapFits /\ Follows /\ AudioPlace /\ AudioTypeOK
      /\ WorkerTypeOK /\ TypeOK /\ snap \in Snapshots
      /\ rk = "prepare" /\ r.pc = "idle" /\ leases = {}
  BY TypesOfThreads DEF PlayInv, Prepared, AudioAt, AudioTypeOK
<1>1. /\ UNCHANGED <<poolVars, workerVars, snap>> /\ rk' = "acquire"
      /\ renderGen' = snap.gen /\ adopted' = snap.gen /\ pos' = snap.frame
  BY DEF Prepared
<1>2. WorkerPlace' /\ Versions' /\ StoresFit' /\ WorkerTypeOK' /\ TypeOK'
  BY <1>1, AudioLeavesWorker DEF poolVars
<1>3. CoordinatorTypeOK'
  <2>1. AudioTypeOK'
    BY <1>0, <1>1 DEF AudioTypeOK, Snapshots
  <2> QED
    BY <1>2, <2>1, TypesOfThreadsAfter
<1>4. snap.gen <= decGen /\ snap.gen \in Nat /\ decGen \in Nat
  BY <1>0, Bounds DEF SnapFits, Snapshots, WorkerTypeOK
<1>5. AudioPlace' /\ Leased'
  BY <1>0, <1>1, <1>4 DEF AudioPlace, Leased, poolVars, workerVars
<1>6. SnapFits'
  BY <1>1 DEF SnapFits, Loading
<1>7. Follows'
  <2>1. snap.gen = decGen => (wk = "publish" => refused)
    BY <1>0 DEF Follows
  <2>2. wk = "publish" => snap.gen < decGen \/ refused
    BY <2>1, <1>4
  <2> QED
    BY <2>2, <1>1 DEF Follows, Behind, workerVars
<1> QED
  BY <1>2, <1>3, <1>5, <1>6, <1>7 DEF PlayInv

LEMMA DiagRangeKeeps ==
  ASSUME PlayInv, PoolInv', DiagRange
  PROVE  PlayInv'
<1>0. /\ CoordinatorTypeOK /\ Leased /\ SnapFits /\ Follows /\ AudioTypeOK /\ TypeOK
      /\ rk = "diagRange"
  BY TypesOfThreads DEF PlayInv, DiagRange, AudioAt
<1>1. /\ UNCHANGED <<workerVars, snap, adopted, renderGen, pos>> /\ rk' = "diagCheck"
      /\ r'.pc = "rangeState" /\ r'.gen = snap.gen /\ UNCHANGED <<w, gen, leases>>
  BY DEF DiagRange, RangeCall, RIdle, shared
<1>2. WorkerPlace' /\ Versions' /\ StoresFit' /\ WorkerTypeOK' /\ TypeOK'
  BY <1>1, AudioLeavesWorker
<1>3. CoordinatorTypeOK'
  <2>1. AudioTypeOK'
    BY <1>0, <1>1 DEF AudioTypeOK
  <2> QED
    BY <1>2, <2>1, TypesOfThreadsAfter
<1>4. AudioPlace' /\ Leased'
  BY <1>0, <1>1 DEF AudioPlace, Leased, workerVars
<1>5. SnapFits' /\ Follows'
  BY <1>0, <1>1 DEF SnapFits, Follows, Loading, Behind, workerVars
<1> QED
  BY <1>2, <1>3, <1>4, <1>5 DEF PlayInv

LEMMA DiagEndKeeps ==
  ASSUME PlayInv, PoolInv', DiagCheck \/ DiagReturn
  PROVE  PlayInv'
<1>0. /\ rk \in {"diagCheck", "diagDone", "diagBusy"} /\ r.pc = "idle" /\ snap \in Snapshots /\ pos \in Starts
      /\ UNCHANGED <<poolVars, workerVars, adopted, renderGen, pos>>
  BY DEF PlayInv, CoordinatorTypeOK, PlayTypeOK, DiagCheck, DiagReturn, AudioAt
<1>1. AudioPlace'
  BY <1>0 DEF AudioPlace, poolVars
<1>2. snap' \in Snapshots
  <2>1. NoSnap \in Snapshots
    BY VersionAssumption, Bounds DEF NoSnap, Snapshots
  <2> QED
    BY <2>1, <1>0 DEF DiagCheck, DiagReturn
<1>3. CASE DiagReturn
  BY <1>0, <1>1, <1>2, <1>3, AudioMoves DEF DiagReturn, poolVars
<1>4. CASE DiagCheck
  <2>1. CASE version # snap.version
    <3>1. rk' \in {"diagRetry", "diagBusy"}
      <4>1. snap.attempt \in {1, 2}
        BY <1>4 DEF PlayInv, SnapFits, Loading, DiagCheck, AudioAt
      <4> QED
        BY <4>1, <2>1, <1>4 DEF DiagCheck
    <3> QED
      BY <3>1, <1>0, <1>1, <1>2, AudioMoves DEF poolVars
  <2>2. CASE version = snap.version
    <3>1. rk' = "diagDone"
      BY <2>2, <1>4 DEF DiagCheck
    <3> QED
      BY <3>1, <1>0, <1>1, <1>2, AudioMoves DEF poolVars
  <2> QED
    BY <2>1, <2>2
<1> QED
  BY <1>3, <1>4

-----------------------------------------------------------------------------
(* Rendering                                                               *)

(* Every set of naturals has a smallest element, and one that is bounded   *)
(* has a largest.                                                          *)
LEMMA SmallestOf ==
  ASSUME NEW T, T \subseteq Nat, T # {}
  PROVE  \E n \in T : \A m \in T : n <= m
<1> DEFINE R == OpToRel(<, Nat)
<1>1. IsWellFoundedOn(R, Nat)
  BY NatLessThanWellFounded
<1>2. \A m, n \in Nat : m < n => <<m, n>> \in R
  BY DEF OpToRel
<1> HIDE DEF R
<1>3. \E n \in T : \A m \in T : ~ (<<m, n>> \in R)
  BY <1>1, WFMin
<1>4. PICK n \in T : \A m \in T : ~ (<<m, n>> \in R)
  BY <1>3
<1>5. \A m \in T : ~ (m < n)
  BY <1>2, <1>4
<1> QED
  BY <1>5

LEMMA LargestOf ==
  ASSUME NEW T, NEW b \in Nat, T \subseteq 0 .. b, T # {}
  PROVE  Max(T) \in T /\ \A m \in T : m <= Max(T)
<1> DEFINE U == {b - n : n \in T}
<1>1. U \subseteq Nat /\ U # {}
  <2>1. \A n \in T : b - n \in Nat
    OBVIOUS
  <2> QED
    BY <2>1
<1> HIDE DEF U
<1>2. PICK u \in U : \A m \in U : u <= m
  BY <1>1, SmallestOf
<1>3. PICK x \in T : u = b - x
  BY DEF U
<1>4. \A m \in T : b - m \in U
  BY DEF U
<1>5. \A m \in T : x >= m
  BY <1>2, <1>3, <1>4
<1>6. \E y \in T : \A m \in T : y >= m
  BY <1>5
<1>7. Max(T) \in T /\ \A m \in T : Max(T) >= m
  BY <1>6 DEF Max
<1> QED
  BY <1>7

(* A chunk never reaches past the end of the track it is read from.        *)
LEMMA AudioFitsKept ==
  ASSUME PlayInv, AudioFits, [PlayNext]_vars
  PROVE  AudioFits'
<1>0. /\ audio \in [Slots -> [frames : FrameCounts, from : Starts]]
      /\ CoordinatorTypeOK
  BY DEF PlayInv, CoordinatorTypeOK, PlayTypeOK, TypeOK
<1>1. CASE UNCHANGED audio
  BY <1>1 DEF AudioFits
<1>2. CASE BeginWriteClear
  <2>1. \A i \in Slots : audio'[i] = audio[i] \/ audio'[i] = NoAudio
    BY <1>0, <1>2 DEF BeginWriteClear
  <2>2. NoAudio.from + NoAudio.frames <= MaxFrame
    BY DEF NoAudio
  <2> QED
    BY <2>1, <2>2 DEF AudioFits
<1>3. CASE Remaining > 0 /\ FillAudio(decoder.at, ReadFrames)
  <2>1. \A i \in Slots : \/ audio'[i] = audio[i]
                         \/ audio'[i] = [frames |-> ReadFrames, from |-> decoder.at]
    BY <1>0, <1>3 DEF FillAudio
  <2>2. decoder.at + ReadFrames <= MaxFrame
    <3>1. /\ decoder.at \in Nat /\ decoder.length \in Nat /\ decoder.length <= MaxFrame
      BY <1>0, Bounds DEF CoordinatorTypeOK, PlayTypeOK
    <3>2. ReadFrames \in 1 .. MaxFrames /\ decoder.at + ReadFrames <= decoder.length
      BY <1>0, <1>3, ReadSome
    <3> QED
      BY <3>1, <3>2
  <2> QED
    BY <2>1, <2>2 DEF AudioFits
<1>4. \/ UNCHANGED audio \/ BeginWriteClear
      \/ Remaining > 0 /\ FillAudio(decoder.at, ReadFrames)
  <2>1. CASE WorkerCallNext
    BY <2>1 DEF WorkerCallNext, WorkerOpen, WorkerOpenFails, WorkerClose, WorkerSeek,
       WorkerSeekRejected, WorkerRefill, Transition, DiscardCall, ReadyCountCall, shared, poolVars
  <2>2. CASE WorkerRuns
    <3>1. CASE WorkerStep
      BY <3>1 DEF WorkerStep, BeginWriteCas, PublishStart, PublishGeneration, PublishCount,
         PublishAdd, PublishReady, Cancel, DiscardCas, DiscardCheck, DiscardSub, ReadyCountLoad, shared
    <3>2. CASE RefillReserve
      BY <3>2 DEF RefillReserve, BeginWriteCall, shared, poolVars
    <3>3. CASE RefillRead
      BY <3>3 DEF RefillRead, CancelCall, shared, poolVars
    <3>4. CASE RefillPublish
      BY <3>4 DEF RefillPublish, PublishCall, shared
    <3>5. CASE RefillPublished
      BY <3>5 DEF RefillPublished, ReadyCountCall, shared, poolVars
    <3> QED
      BY <2>2, <3>1, <3>2, <3>3, <3>4, <3>5 DEF WorkerRuns, WorkerPublish, WorkerFinish, RefillStops, poolVars
  <2>3. CASE AudioCallNext
    BY <2>3 DEF AudioCallNext, RenderCall, DiagnosticsCall, LoadVersion, poolVars
  <2>4. CASE AudioRuns
    <3>1. CASE RendererStep
      BY <3>1, <1>0, RendererStaysInCall DEF PlayInv, PoolInv, SlotInv
    <3>2. ASSUME NEW p, ReleaseAll(p) PROVE UNCHANGED audio
      BY <3>2 DEF ReleaseAll, ReleaseCall, shared
    <3>3. CASE Acquire \/ Consume \/ DiagRange
      BY <3>3 DEF Acquire, AcquireCall, Consume, ReleaseCall, DiagRange, RangeCall, shared, poolVars
    <3> QED
      BY <2>4, <3>1, <3>2, <3>3
      DEF AudioRuns, SnapGen, SnapFrame, SnapChannels, SnapCheck, SnapRetry, Suspended, Prepared,
          Acquired, Render, DiagGen, DiagDuration, DiagCheck, DiagRetry, DiagReturn, Load,
          LoadVersion, poolVars
  <2>5. CASE UNCHANGED vars
    BY <2>5 DEF vars, poolVars
  <2> QED
    BY <2>1, <2>2, <2>3, <2>4, <2>5 DEF PlayNext
<1> QED
  BY <1>1, <1>2, <1>3, <1>4

(* A leased frame is one of the track's.                                   *)
LEMMA LeasedFrameInTrack ==
  ASSUME PlayInv, AudioFits, NEW f \in LeasedFrames
  PROVE  f \in Nat /\ f < MaxFrame
<1>1. PICK i \in leases : f \in start[i] .. End(i) - 1
  BY DEF LeasedFrames, FramesOf
<1>2. i \in Slots /\ state[i] = "Reading" /\ start[i] = audio[i].from /\ start[i] \in Starts
      /\ audio[i].frames \in FrameCounts
  BY DEF PlayInv, PoolInv, SlotInv, TypeOK, ExclusiveAudio, Leases, PublishedWhole
<1>3. start[i] \in Nat /\ audio[i].frames \in Nat /\ End(i) = start[i] + audio[i].frames /\ End(i) <= MaxFrame
  BY <1>2, Bounds DEF AudioFits, End, FrameCounts
<1> QED
  BY <1>1, <1>3

(* The position after a quantum: the frames from p on are leased up to it, *)
(* and it is at most a quantum away.                                       *)
LEMMA AdvanceFacts ==
  ASSUME NEW p \in Nat
  PROVE  /\ Advance(p) \in p .. p + Quantum
         /\ p .. Advance(p) - 1 \subseteq LeasedFrames
         /\ \A q \in p .. p + Quantum : p .. q - 1 \subseteq LeasedFrames => q <= Advance(p)
<1> DEFINE T == {q \in p .. p + Quantum : p .. q - 1 \subseteq LeasedFrames}
<1>1. p \in T
  BY FramesAssumption
<1>2. T \subseteq 0 .. p + Quantum /\ p + Quantum \in Nat
  BY FramesAssumption
<1>3. Max(T) \in T /\ \A m \in T : m <= Max(T)
  BY <1>1, <1>2, LargestOf
<1> QED
  BY <1>3 DEF Advance

LEMMA RenderKeeps ==
  ASSUME PlayInv, AudioFits, PoolInv', NEW playing \in BOOLEAN, Render(playing)
  PROVE  PlayInv'
<1>0. /\ rk = "render" /\ r.pc = "idle" /\ pos \in Nat /\ pos <= MaxFrame
      /\ UNCHANGED <<poolVars, workerVars, adopted, renderGen>>
      /\ rk' = "consume" /\ snap' = NoSnap
  BY Bounds DEF PlayInv, CoordinatorTypeOK, PlayTypeOK, Render, AudioAt
<1>1. PICK p \in {pos} \cup LeasedFrames : pos' = IF playing THEN Advance(p) ELSE p
  BY DEF Render
<1>2. p \in Nat /\ p <= MaxFrame
  BY <1>0, LeasedFrameInTrack
<1>3. pos' \in Nat /\ pos' <= MaxFrame
  <2>1. CASE ~ playing \/ Advance(p) = p
    BY <2>1, <1>1, <1>2
  <2>2. CASE Advance(p) # p
    <3>1. Advance(p) \in p .. p + Quantum /\ p .. Advance(p) - 1 \subseteq LeasedFrames
      BY <1>2, AdvanceFacts
    <3>2. Advance(p) \in Nat /\ Advance(p) - 1 \in p .. Advance(p) - 1
      BY <3>1, <2>2, <1>2, FramesAssumption
    <3>3. Advance(p) - 1 < MaxFrame
      BY <3>1, <3>2, LeasedFrameInTrack
    <3> QED
      BY <3>2, <3>3, <1>1, <1>2
  <2> QED
    BY <2>1, <2>2
<1>4. AudioPlace'
  BY <1>0 DEF AudioPlace, poolVars
<1>5. NoSnap \in Snapshots /\ pos' \in Starts
  BY <1>3, VersionAssumption, Bounds DEF NoSnap, Snapshots
<1> QED
  BY <1>0, <1>4, <1>5, AudioMoves DEF poolVars

-----------------------------------------------------------------------------
(* The theorems                                                            *)

CoordinatorInv == PlayInv /\ AudioFits

LEMMA PlayStarts == Init => CoordinatorInv
<1> SUFFICES ASSUME Init PROVE CoordinatorInv
  OBVIOUS
<1>1. PoolInv
  BY PoolInitInv DEF Init
<1>2. /\ w.pc = "idle" /\ w.slot = NoSlot /\ r.pc = "idle" /\ leases = {}
      /\ audio = [i \in Slots |-> NoAudio]
  BY DEF Init, PoolInit, WIdle, RIdle
<1>3. CoordinatorTypeOK
  <2>1. WorkerTypeOK
    <3>1. Closed \in [length : {0} \cup Tracks, at : Starts]
      BY Bounds DEF Closed
    <3>2. Unpublished \in PublishedFields /\ "Closed" \in DecodeAheadState
      BY Bounds DEF Unpublished, PublishedFields, DecodeAheadState
    <3>3. 0 \in 0 .. MaxVersion
      BY VersionAssumption
    <3>4. /\ decoder = Closed /\ published = Unpublished /\ decState = "Closed" /\ version = 0
          /\ decGen = 0 /\ wk = "idle" /\ refused = FALSE /\ todo = <<>>
      BY DEF Init
    <3>5. todo \in Seq(StoresToMake) /\ decGen \in Generations
      BY <3>4, Bounds
    <3> QED
      BY <3>1, <3>2, <3>3, <3>4, <3>5 DEF WorkerTypeOK
  <2>2. AudioTypeOK
    BY Bounds, VersionAssumption DEF Init, AudioTypeOK, NoSnap, Snapshots
  <2>3. TypeOK
    BY <1>1 DEF PoolInv, SlotInv
  <2> QED
    BY <2>1, <2>2, <2>3, TypesOfThreads
<1>4. WorkerPlace /\ AudioPlace /\ Leased /\ SnapFits /\ Follows
  BY <1>2 DEF Init, WorkerPlace, AudioPlace, Leased, SnapFits, Loading, Follows
<1>5. Versions /\ StoresFit
  BY DEF Init, Versions, StoresFit, Due, Closed, Unpublished
<1>6. AudioFits
  BY <1>2 DEF AudioFits, NoAudio
<1> QED
  BY <1>1, <1>3, <1>4, <1>5, <1>6 DEF CoordinatorInv, PlayInv

LEMMA PlayStep ==
  ASSUME PlayInv, AudioFits, PoolInv', PlayNext
  PROVE  PlayInv'
<1>1. CASE WorkerCallNext
  <2>1. ASSUME NEW n \in Tracks, WorkerOpen(n) PROVE PlayInv'
    BY <2>1, OpenKeeps DEF WorkerOpen, DecodeAheadState
  <2>2. CASE WorkerOpenFails
    BY <2>2, OpenKeeps DEF WorkerOpenFails, Closed, DecodeAheadState
  <2>3. CASE WorkerClose
    BY <2>3, OpenKeeps DEF WorkerClose, Closed, DecodeAheadState
  <2> QED
    BY <1>1, <2>1, <2>2, <2>3, SeekKeeps, SeekRejectedKeeps, RefillKeeps DEF WorkerCallNext
<1>2. CASE WorkerRuns
  BY <1>2, WorkerStepKeeps, PublishKeeps, FinishKeeps, ReserveKeeps, ReadKeeps, ChunkPublishKeeps,
     PublishedKeeps, StopsKeeps DEF WorkerRuns
<1>3. CASE AudioCallNext
  <2>1. CASE RenderCall
    BY <2>1, LoadVersionKeeps DEF RenderCall, AudioAt
  <2>2. CASE DiagnosticsCall
    BY <2>2, LoadVersionKeeps DEF DiagnosticsCall, AudioAt
  <2> QED
    BY <1>3, <2>1, <2>2 DEF AudioCallNext
<1>4. CASE AudioRuns
  <2>1. CASE SnapRetry
    BY <2>1, LoadVersionKeeps DEF SnapRetry, AudioAt
  <2>2. CASE DiagRetry
    BY <2>2, LoadVersionKeeps DEF DiagRetry, AudioAt
  <2>3. CASE SnapGen \/ SnapFrame \/ SnapChannels \/ DiagGen \/ DiagDuration
    BY <2>3, LoadKeeps DEF SnapGen, SnapFrame, SnapChannels, DiagGen, DiagDuration
  <2>4. CASE RendererStep /\ UNCHANGED <<workerVars, audioVars>>
    BY <2>4, RendererStepKeeps
  <2>5. CASE ReleaseAll("suspend") \/ ReleaseAll("prepare")
    BY <2>5, ReleaseAllKeeps
  <2>6. CASE SnapCheck \/ Suspended \/ Prepared \/ Acquire \/ Acquired \/ Consume
    BY <2>6, SnapCheckKeeps, SuspendedKeeps, PreparedKeeps, AcquireKeeps, AcquiredKeeps, ConsumeKeeps
  <2>7. ASSUME NEW playing \in BOOLEAN, Render(playing) PROVE PlayInv'
    BY <2>7, RenderKeeps
  <2>8. CASE DiagRange \/ DiagCheck \/ DiagReturn
    BY <2>8, DiagRangeKeeps, DiagEndKeeps
  <2> QED
    BY <1>4, <2>1, <2>2, <2>3, <2>4, <2>5, <2>6, <2>7, <2>8 DEF AudioRuns
<1> QED
  BY <1>1, <1>2, <1>3, <1>4 DEF PlayNext

LEMMA PlayRests == ASSUME PlayInv, PoolInv', UNCHANGED vars PROVE PlayInv'
<1>1. AudioPlace'
  BY DEF vars, poolVars, audioVars, PlayInv, AudioPlace
<1>2. UNCHANGED <<workerVars, audioVars, w, gen, leases>>
  BY DEF vars, poolVars
<1> QED
  BY <1>1, <1>2, AudioCalls

(* The inductive invariant of the playback path: what the two threads are  *)
(* doing in the pool, which published fields are still to be stored, and   *)
(* which of them the renderer has loaded.                                  *)
THEOREM PlayInvariant == PlaySpec => []CoordinatorInv
<1>1. CoordinatorInv /\ [PlayNext]_vars => CoordinatorInv'
  <2> SUFFICES ASSUME CoordinatorInv, [PlayNext]_vars PROVE CoordinatorInv'
    OBVIOUS
  <2>1. PlayInv /\ AudioFits
    BY DEF CoordinatorInv
  <2>2. PoolInv' /\ AudioFits'
    BY <2>1, PoolKept, AudioFitsKept
  <2>3. PlayInv'
    BY <2>1, <2>2, PlayStep, PlayRests
  <2> QED
    BY <2>2, <2>3 DEF CoordinatorInv
<1> QED
  BY PlayStarts, <1>1, PTL DEF PlaySpec

(* The coordinator drives the pool as its specification says (decode_ahead *)
(* .hpp, playback_coordinator.hpp and decode_ahead_renderer.hpp), so that  *)
(* everything proved of the pool holds of it in the player.                *)
THEOREM PoolUsedLegally == PlaySpec => Spec
<1>1. Init => PoolInit
  BY DEF Init
<1>2. CoordinatorInv /\ [PlayNext]_vars => [Next]_poolVars
  BY PoolDriven DEF CoordinatorInv
<1> QED
  BY PlayInvariant, <1>1, <1>2, PTL DEF PlaySpec, Spec

THEOREM PlayTypesHold == PlaySpec => []PlayTypeOK
<1>1. CoordinatorInv => PlayTypeOK
  BY DEF CoordinatorInv, PlayInv, CoordinatorTypeOK
<1> QED
  BY <1>1, PlayInvariant, PTL

(* A snapshot whose version check succeeds (try_read_snapshot) is one the  *)
(* worker published as a whole (publish_transition), wherever the worker   *)
(* was preempted and however many transitions ran meanwhile.               *)
THEOREM SnapshotsAreWhole == PlaySpec => []SnapshotWhole
<1>1. CoordinatorInv => SnapshotWhole
  <2> SUFFICES ASSUME CoordinatorInv, rk = "check", version = snap.version
               PROVE  /\ snap.gen = decGen /\ snap.gen = published.gen
                      /\ snap.frame = published.frame /\ snap.channels = published.channels
    BY DEF SnapshotWhole
  <2>1. /\ snap.gen = published.gen /\ snap.frame = published.frame
        /\ snap.channels = published.channels /\ version % 2 = 0
    BY DEF CoordinatorInv, PlayInv, SnapFits, Loading
  <2>2. wk # "publish"
    BY <2>1 DEF CoordinatorInv, PlayInv, Versions
  <2>3. published.gen = decGen
    BY <2>2 DEF CoordinatorInv, PlayInv, StoresFit, Due
  <2> QED
    BY <2>1, <2>3
<1> QED
  BY <1>1, PlayInvariant, PTL

(* The renderer (decode_ahead_renderer.hpp) leases chunks of the one       *)
(* generation it adopted, which is never newer than the worker's.          *)
THEOREM PlaysOneGeneration == PlaySpec => []OneGeneration
<1>1. CoordinatorInv => OneGeneration
  BY DEF CoordinatorInv, PlayInv, Leased, OneGeneration
<1> QED
  BY <1>1, PlayInvariant, PTL

-----------------------------------------------------------------------------
(* The chunks of a generation tile the track                               *)

OfGeneration(i) == Resides(i) /\ gen[i] = decGen
Filled == wk \in {"refillPublish", "refillPublished"} /\ w.slot \in Slots
LastFrom == audio[w.slot].from
LastFrames == audio[w.slot].frames

(* The chunks of the worker's generation lie between where the generation  *)
(* starts and the decoder, and before the one that is being published.     *)
Placed(i) ==
  /\ audio[i].frames >= 1 /\ End(i) <= decoder.at
  /\ published.frame <= start[i] /\ (wk = "publish" => refused)
  /\ Filled => End(i) <= LastFrom
Tiled ==
  /\ \A i \in Slots : Resides(i) => gen[i] <= decGen
  /\ \A i \in Slots : OfGeneration(i) => Placed(i)
  /\ Filled => LastFrames >= 1 /\ LastFrom + LastFrames = decoder.at /\ published.frame <= LastFrom

NoneOverlap == \A i, j \in Slots : i # j /\ Resides(i) /\ Resides(j) /\ gen[i] = gen[j]
                 => End(i) <= start[j] \/ End(j) <= start[i]

TileInv == Tiled /\ NoneOverlap

(* A chunk that can be played is not the one the worker writes, and a step *)
(* leaves all of it alone.                                                 *)
LEMMA ChunkFrame ==
  ASSUME PlayInv, [Next]_poolVars, NEW i \in Slots, Resides(i)
  PROVE  /\ w.slot # i /\ Frozen(i) /\ End(i)' = End(i)
         /\ start[i] \in Nat /\ gen[i] \in Nat /\ End(i) \in Nat
         /\ start[i] = audio[i].from /\ audio[i].frames \in Nat
<1>1. PoolInv /\ TypeOK /\ ExclusiveAudio
  BY DEF PlayInv, PoolInv, SlotInv
<1>2. w.slot # i
  BY <1>1 DEF Resides, ExclusiveAudio, Writes
<1>3. Frozen(i)
  BY <1>1, <1>2, FrozenStep
<1>4. start[i] \in Starts /\ gen[i] \in Generations /\ audio[i].frames \in FrameCounts
  BY <1>1 DEF TypeOK
<1>5. start[i] \in Nat /\ gen[i] \in Nat /\ audio[i].frames \in Nat
  BY <1>4, Bounds DEF FrameCounts
<1>6. start[i] = audio[i].from
  BY <1>1 DEF PlayInv, PoolInv, PublishedWhole, Resides
<1> QED
  BY <1>2, <1>3, <1>5, <1>6 DEF Frozen, End

NothingNew == \A i \in Slots : Resides(i)' => Resides(i)

(* A step that adds no chunk keeps the tiling when what is about to be     *)
(* published comes after the chunks that are there.                        *)
LEMMA TileQuiet ==
  ASSUME PlayInv, TileInv, [Next]_poolVars, NothingNew,
         decGen' = decGen, decoder.at \in Nat, decoder'.at \in Nat, decoder'.at >= decoder.at,
         published'.frame = published.frame,
         wk' = "publish" => refused' \/ (wk = "publish" /\ refused' = refused),
         Filled' => /\ \A i \in Slots : OfGeneration(i) => End(i) <= LastFrom'
                    /\ LastFrames' >= 1 /\ LastFrom' + LastFrames' = decoder'.at
                    /\ published.frame <= LastFrom'
  PROVE  TileInv'
<1>1. ASSUME NEW i \in Slots, Resides(i)'
      PROVE  /\ Resides(i) /\ gen'[i] = gen[i] /\ start'[i] = start[i] /\ audio'[i] = audio[i]
             /\ End(i)' = End(i) /\ End(i) \in Nat
  BY <1>1, ChunkFrame DEF NothingNew, Frozen
<1>2. NoneOverlap'
  BY <1>1 DEF TileInv, NoneOverlap
<1>3. \A i \in Slots : Resides(i)' => gen'[i] <= decGen'
  BY <1>1 DEF TileInv, Tiled
<1>4. ASSUME NEW i \in Slots, OfGeneration(i)' PROVE Placed(i)'
  <2>1. Resides(i)' /\ Resides(i) /\ OfGeneration(i)
    BY <1>1, <1>4 DEF OfGeneration
  <2>2. Placed(i)
    BY <2>1 DEF TileInv, Tiled
  <2>3. audio'[i] = audio[i] /\ start'[i] = start[i] /\ End(i)' = End(i) /\ End(i) \in Nat
    BY <1>1, <2>1
  <2>4. End(i)' <= decoder'.at
    BY <2>2, <2>3 DEF Placed
  <2>5. Filled' => End(i)' <= LastFrom'
    BY <2>1, <2>3
  <2> QED
    BY <2>2, <2>3, <2>4, <2>5 DEF Placed
<1>5. Filled' => LastFrames' >= 1 /\ LastFrom' + LastFrames' = decoder'.at
                 /\ published'.frame <= LastFrom'
  OBVIOUS
<1>6. Tiled'
  BY <1>3, <1>4, <1>5 DEF Tiled
<1> QED
  BY <1>2, <1>6 DEF TileInv

(* Nothing is of a generation that only begins.                            *)
LEMMA TileTransition ==
  ASSUME PlayInv, TileInv, [Next]_poolVars, NothingNew, wk' = "publish",
         decGen \in Nat, decGen' = decGen + 1
  PROVE  TileInv'
<1>1. ASSUME NEW i \in Slots, Resides(i)'
      PROVE  /\ Resides(i) /\ gen'[i] = gen[i] /\ start'[i] = start[i] /\ gen[i] \in Nat
             /\ End(i)' = End(i) /\ gen[i] <= decGen
  <2>1. Resides(i)
    BY <1>1 DEF NothingNew
  <2> QED
    BY <2>1, ChunkFrame DEF Frozen, TileInv, Tiled
<1>2. NoneOverlap'
  BY <1>1 DEF TileInv, NoneOverlap
<1>3. \A i \in Slots : Resides(i)' => gen'[i] <= decGen' /\ gen'[i] # decGen'
  BY <1>1
<1>4. ~ Filled'
  BY DEF Filled
<1> QED
  BY <1>2, <1>3, <1>4 DEF TileInv, Tiled, OfGeneration

(* The chunk a publication ends with comes after all the others.           *)
LEMMA TilePublishReady ==
  ASSUME PlayInv, TileInv, [Next]_poolVars, PublishReady, UNCHANGED workerVars
  PROVE  TileInv'
<1>0. /\ w.pc = "pubReady" /\ w' = WIdle(NoSlot, 1) /\ w.slot \in Slots
      /\ UNCHANGED <<gen, start, count, audio>>
      /\ state \in [Slots -> SlotState] /\ state' = [state EXCEPT ![w.slot] = "Ready"]
      /\ PublishShape
  BY DEF PublishReady, fields, PlayInv, PoolInv, SlotInv, CallShape, TypeOK
<1>1. wk = "refillPublished" /\ w.gen = decGen
  BY <1>0 DEF PlayInv, WorkerPlace, CoordinatorTypeOK, PlayTypeOK
<1>2. Filled /\ gen[w.slot] = decGen /\ start[w.slot] = LastFrom
  BY <1>0, <1>1 DEF Filled, PublishShape, LastFrom
<1>3. LastFrames >= 1 /\ LastFrom + LastFrames = decoder.at /\ published.frame <= LastFrom
  BY <1>2 DEF TileInv, Tiled
<1>4. ~ Filled'
  BY <1>0, SlotFacts DEF WIdle, Filled
<1>5. \A i \in Slots : Resides(i)' <=> Resides(i) \/ i = w.slot
  BY <1>0 DEF Resides
<1>6. UNCHANGED <<decGen, decoder, published, wk, refused>>
  BY DEF workerVars
<1>7. \A i \in Slots : End(i)' = End(i)
  BY <1>0 DEF End
<1>8. End(w.slot) = decoder.at
  BY <1>2, <1>3 DEF End, LastFrames
<1>9. decGen \in Nat /\ decoder.at \in Nat /\ gen[w.slot] <= decGen
  BY <1>2, Bounds DEF PlayInv, CoordinatorTypeOK, PlayTypeOK
<1>10. \A i \in Slots : Resides(i)' => gen'[i] <= decGen'
  BY <1>0, <1>5, <1>6, <1>9 DEF TileInv, Tiled
<1>11. ASSUME NEW i \in Slots, OfGeneration(i)' PROVE Placed(i)'
  <2>1. CASE i = w.slot
    <3>1. audio[i].frames >= 1 /\ published.frame <= start[i]
      BY <1>2, <1>3, <2>1 DEF LastFrames
    <3>2. End(i) <= decoder.at
      BY <1>8, <1>9, <2>1
    <3> QED
      BY <3>1, <3>2, <1>0, <1>1, <1>4, <1>6, <1>7, <2>1 DEF Placed
  <2>2. CASE i # w.slot
    <3>1. OfGeneration(i)
      BY <1>11, <1>5, <1>0, <1>6, <2>2 DEF OfGeneration
    <3>2. Placed(i)
      BY <3>1 DEF TileInv, Tiled
    <3> QED
      BY <3>2, <1>0, <1>1, <1>4, <1>6, <1>7 DEF Placed
  <2> QED
    BY <2>1, <2>2
<1>12. ASSUME NEW i \in Slots, i # w.slot, Resides(i), gen[i] = gen[w.slot]
       PROVE  End(i) <= start[w.slot]
  BY <1>12, <1>2 DEF OfGeneration, TileInv, Tiled, Placed
<1>13. NoneOverlap'
  <2> SUFFICES ASSUME NEW i \in Slots, NEW j \in Slots, i # j, Resides(i)', Resides(j)',
                      gen[i] = gen[j]
               PROVE  End(i) <= start[j] \/ End(j) <= start[i]
    BY <1>0, <1>7 DEF NoneOverlap
  <2>1. CASE i = w.slot
    BY <2>1, <1>5, <1>12
  <2>2. CASE j = w.slot
    BY <2>2, <1>5, <1>12
  <2>3. CASE i # w.slot /\ j # w.slot
    BY <2>3, <1>5 DEF TileInv, NoneOverlap
  <2> QED
    BY <2>1, <2>2, <2>3
<1>14. Tiled'
  BY <1>4, <1>10, <1>11 DEF Tiled
<1> QED
  BY <1>13, <1>14 DEF TileInv

(* No step of the renderer touches what the worker writes.                 *)
LEMMA AudioStepsOnly ==
  ASSUME TypeOK, CallShape, AudioCallNext \/ AudioRuns
  PROVE  UNCHANGED <<workerVars, w, audio, gen, start, count>>
<1>1. CASE AudioCallNext
  BY <1>1 DEF AudioCallNext, RenderCall, DiagnosticsCall, LoadVersion, poolVars
<1>2. CASE RendererStep /\ UNCHANGED <<workerVars, audioVars>>
  BY <1>2, RendererStaysInCall
<1>3. ASSUME NEW p, ReleaseAll(p) PROVE UNCHANGED <<workerVars, w, audio, gen, start, count>>
  BY <1>3 DEF ReleaseAll, ReleaseCall, shared, fields
<1>4. CASE Acquire \/ Consume \/ DiagRange
  BY <1>4 DEF Acquire, AcquireCall, Consume, ReleaseCall, DiagRange, RangeCall, shared, fields, poolVars
<1> QED
  BY <1>1, <1>2, <1>3, <1>4
  DEF AudioRuns, SnapGen, SnapFrame, SnapChannels, SnapCheck, SnapRetry, Suspended, Prepared,
      Acquired, Render, DiagGen, DiagDuration, DiagCheck, DiagRetry, DiagReturn, Load,
      LoadVersion, poolVars

LEMMA NothingNewUnlessReady ==
  ASSUME PlayInv, [Next]_poolVars, ~ PublishReady
  PROVE  NothingNew
<1>1. PoolInv
  BY DEF PlayInv
<1> QED
  BY <1>1, ResidenceStep DEF NothingNew

(* The two kinds of steps of the tiling: those of the worker's calls ...   *)
LEMMA TileStep ==
  ASSUME PlayInv, TileInv, [PlayNext]_vars
  PROVE  TileInv'
<1>0. /\ [Next]_poolVars /\ WorkerTypeOK /\ CoordinatorTypeOK /\ WorkerPlace /\ StoresFit
      /\ TypeOK /\ CallShape /\ w \in WorkerCalls
  BY PoolDriven, TypesOfThreads DEF PlayInv, PoolInv, SlotInv, TypeOK
<1>a. decGen \in Nat /\ decoder.at \in Nat /\ decoder.length \in Nat
  BY <1>0, Bounds DEF WorkerTypeOK
<1>b. ASSUME UNCHANGED state PROVE NothingNew
  BY <1>b DEF NothingNew, Resides
<1>1. ASSUME NEW dec, NEW st, NEW stores, Transition(dec, st, stores) PROVE TileInv'
  <2>1. wk' = "publish" /\ decGen' = decGen + 1 /\ UNCHANGED state
    BY <1>1 DEF Transition, NextGeneration, DiscardCall, shared
  <2> QED
    BY <2>1, <1>0, <1>a, <1>b, TileTransition
<1>2. ASSUME UNCHANGED <<decGen, decoder, state>>, published'.frame = published.frame, ~ Filled',
             wk' = "publish" => refused'
      PROVE  TileInv'
  BY <1>2, <1>0, <1>a, <1>b, TileQuiet
<1>3. ASSUME UNCHANGED <<decGen, decoder, published, wk, refused>>, NothingNew,
             Filled' => Filled /\ w'.slot = w.slot /\ audio'[w.slot] = audio[w.slot]
      PROVE  TileInv'
  <2>1. ASSUME Filled' PROVE /\ Filled /\ LastFrom' = LastFrom /\ LastFrames' = LastFrames
    BY <1>3, <2>1 DEF LastFrom, LastFrames
  <2>2. Filled' => /\ \A i \in Slots : OfGeneration(i) => End(i) <= LastFrom'
                   /\ LastFrames' >= 1 /\ LastFrom' + LastFrames' = decoder'.at
                   /\ published.frame <= LastFrom'
    BY <2>1, <1>3 DEF TileInv, Tiled, Placed
  <2> QED
    BY <2>2, <1>3, <1>0, <1>a, TileQuiet
<1>4. CASE WorkerCallNext
  <2>1. ASSUME NEW f, WorkerSeekRejected(f) PROVE TileInv'
    BY <2>1, <1>2 DEF WorkerSeekRejected, Filled, poolVars
  <2>2. CASE WorkerRefill
    <3>1. UNCHANGED <<decGen, decoder, state>> /\ wk' \in {"idle", "refillCount"}
      BY <2>2 DEF WorkerRefill, RefillReturns, ReadyCountCall, shared, poolVars
    <3>2. published'.frame = published.frame
      BY <2>2, <1>0, ReturnsTypes DEF WorkerRefill, WorkerTypeOK
    <3> QED
      BY <3>1, <3>2, <1>2 DEF Filled
  <2> QED
    BY <1>1, <1>4, <2>1, <2>2 DEF WorkerCallNext, WorkerOpen, WorkerOpenFails, WorkerClose, WorkerSeek
<1>5. CASE WorkerStep /\ UNCHANGED <<workerVars, audioVars>>
  <2>1. UNCHANGED <<decGen, decoder, published, wk, refused>>
    BY <1>5 DEF workerVars
  <2>2. CASE PublishReady
    BY <2>2, <1>5, <1>0, TilePublishReady
  <2>3. CASE ~ PublishReady
    <3>1. NothingNew
      BY <2>3, <1>0, NothingNewUnlessReady
    <3>2. ASSUME Filled' PROVE Filled /\ w'.slot = w.slot /\ audio'[w.slot] = audio[w.slot]
      <4>1. wk \in {"refillPublish", "refillPublished"}
        BY <3>2, <2>1 DEF Filled
      <4>2. w.pc # "idle"
        BY <1>5, <1>0, WorkerStaysInCall DEF WorkerStays
      <4>3. w.pc \in Publishing
        BY <4>1, <4>2, <1>0 DEF WorkerPlace, Publishing
      <4>4. PublishStart \/ PublishGeneration \/ PublishCount \/ PublishAdd
        BY <4>3, <1>5, <2>3 DEF WorkerStep, BeginWriteCas, BeginWriteClear, Cancel, DiscardCas,
           DiscardCheck, DiscardSub, ReadyCountLoad, Publishing
      <4>5. \E p \in WorkerPcs : w' = [w EXCEPT !.pc = p]
        BY <4>4 DEF PublishStart, PublishGeneration, PublishCount, PublishAdd, WorkerPcs
      <4>6. w'.slot = w.slot
        BY <4>5, <1>0 DEF WorkerCalls
      <4>7. UNCHANGED audio
        BY <4>4 DEF PublishStart, PublishGeneration, PublishCount, PublishAdd
      <4> QED
        BY <4>1, <4>6, <4>7, <3>2 DEF Filled
    <3> QED
      BY <3>1, <3>2, <2>1, <1>3
  <2> QED
    BY <2>2, <2>3
<1>6. CASE WorkerPublish
  <2>1. wk = "publish" /\ wk' = "publish" /\ UNCHANGED <<poolVars, decGen>> /\ ~ refused
    BY <1>6, <1>0 DEF WorkerPublish, StoresFit
  <2>2. \A i \in Slots : ~ OfGeneration(i)
    BY <2>1 DEF TileInv, Tiled, Placed
  <2>3. \A i \in Slots : (OfGeneration(i)' <=> OfGeneration(i)) /\ (Resides(i)' <=> Resides(i)) /\ End(i)' = End(i)
    BY <2>1 DEF OfGeneration, Resides, End, poolVars
  <2>4. ~ Filled'
    BY <2>1 DEF Filled
  <2>5. NoneOverlap'
    BY <2>1, <2>3 DEF TileInv, NoneOverlap, poolVars
  <2>6. Tiled'
    BY <2>1, <2>2, <2>3, <2>4 DEF TileInv, Tiled, poolVars
  <2> QED
    BY <2>5, <2>6 DEF TileInv
<1>7. CASE WorkerFinish
  BY <1>7, <1>2 DEF WorkerFinish, Filled, poolVars
<1>8. CASE RefillReserve
  <2>1. UNCHANGED <<decGen, decoder, state>> /\ wk' \in {"idle", "refillReserve"}
    BY <1>8 DEF RefillReserve, RefillReturns, BeginWriteCall, shared, poolVars
  <2>2. published'.frame = published.frame
    BY <1>8, <1>0, ReturnsTypes DEF RefillReserve, DecodeAheadState
  <2> QED
    BY <2>1, <2>2, <1>2 DEF Filled
<1>9. CASE RefillRead
  <2>1. CASE wk' # "refillPublish"
    <3>1. UNCHANGED <<decGen, decoder, state>> /\ wk' \in {"idle", "refillEnd", "refillError"}
      BY <1>9, <2>1 DEF RefillRead, RefillReturns, CancelCall, shared, poolVars
    <3>2. published'.frame = published.frame
      BY <1>9, <2>1, <1>0, ReturnsTypes DEF RefillRead, DecodeAheadState
    <3> QED
      BY <3>1, <3>2, <1>2 DEF Filled
  <2>2. CASE wk' = "refillPublish"
    <3>1. /\ Remaining > 0 /\ FillAudio(decoder.at, ReadFrames)
          /\ decoder' = [decoder EXCEPT !.at = @ + ReadFrames]
          /\ UNCHANGED <<published, decGen>> /\ wk # "publish"
      BY <1>9, <2>2 DEF RefillRead, RefillReturns
    <3>2. ReadFrames \in 1 .. MaxFrames
      BY <3>1, <1>0, ReadSome
    <3>3. decoder'.at = decoder.at + ReadFrames
      BY <3>1, <1>0 DEF WorkerTypeOK
    <3>4. w.slot \in Slots /\ w' = w /\ UNCHANGED state
      BY <3>1 DEF FillAudio
    <3>5. audio'[w.slot] = [frames |-> ReadFrames, from |-> decoder.at]
      BY <3>1, <3>4, <1>0 DEF FillAudio, TypeOK
    <3>6. LastFrom' = decoder.at /\ LastFrames' = ReadFrames
      BY <3>4, <3>5 DEF LastFrom, LastFrames
    <3>7. published.frame <= decoder.at
      BY <3>1, <1>0 DEF StoresFit
    <3>8. \A i \in Slots : OfGeneration(i) => End(i) <= decoder.at
      BY DEF TileInv, Tiled, Placed
    <3>9. ReadFrames \in Nat /\ ReadFrames >= 1
      BY <3>2
    <3> QED
      BY <3>1, <3>3, <3>4, <3>6, <3>7, <3>8, <3>9, <2>2, <1>0, <1>a, <1>b, TileQuiet
  <2> QED
    BY <2>1, <2>2
<1>10. CASE RefillPublish
  <2>1. /\ UNCHANGED <<decGen, decoder, published, refused, state, audio>> /\ w'.slot = w.slot
        /\ wk = "refillPublish" /\ wk' \in {"refillPublished", "refillError"} /\ w.slot \in Slots
    BY <1>10, <1>0 DEF RefillPublish, PublishCall, shared, WorkerCalls
  <2>2. CASE wk' = "refillError"
    BY <2>1, <2>2, <1>2 DEF Filled
  <2>3. CASE wk' = "refillPublished"
    <3>1. Filled /\ LastFrom' = LastFrom /\ LastFrames' = LastFrames
      BY <2>1 DEF Filled, LastFrom, LastFrames
    <3>2. /\ \A i \in Slots : OfGeneration(i) => End(i) <= LastFrom'
          /\ LastFrames' >= 1 /\ LastFrom' + LastFrames' = decoder'.at /\ published.frame <= LastFrom'
      BY <3>1, <2>1 DEF TileInv, Tiled, Placed
    <3> QED
      BY <3>2, <2>1, <2>3, <1>0, <1>a, <1>b, TileQuiet
  <2> QED
    BY <2>1, <2>2, <2>3
<1>11. CASE RefillPublished
  <2>1. UNCHANGED <<decGen, decoder, state>> /\ wk' \in {"idle", "refillCount"}
    BY <1>11 DEF RefillPublished, RefillReturns, ReadyCountCall, shared, poolVars
  <2>2. published'.frame = published.frame
    BY <1>11, <1>0, ReturnsTypes DEF RefillPublished, DecodeAheadState
  <2> QED
    BY <2>1, <2>2, <1>2 DEF Filled
<1>12. CASE RefillStops
  <2>1. UNCHANGED <<decGen, decoder, state>> /\ wk' = "idle"
    BY <1>12 DEF RefillStops, RefillReturns, poolVars
  <2>2. published'.frame = published.frame
    BY <1>12, <1>0, ReturnsTypes DEF RefillStops, DecodeAheadState
  <2> QED
    BY <2>1, <2>2, <1>2 DEF Filled
<1>13. CASE AudioCallNext \/ AudioRuns
  <2>1. UNCHANGED <<decGen, decoder, published, wk, refused, w, audio>>
    BY <1>13, <1>0, AudioStepsOnly DEF workerVars
  <2>2. ~ PublishReady
    BY <2>1, <1>0 DEF PublishReady, WIdle
  <2>3. NothingNew
    BY <2>2, <1>0, NothingNewUnlessReady
  <2> QED
    BY <2>1, <2>3, <1>3 DEF Filled
<1>14. CASE UNCHANGED vars
  <2>1. UNCHANGED <<decGen, decoder, published, wk, refused, w, audio, state>>
    BY <1>14 DEF vars, poolVars, workerVars
  <2> QED
    BY <2>1, <1>3, <1>b DEF Filled
<1> QED
  BY <1>4, <1>5, <1>6, <1>7, <1>8, <1>9, <1>10, <1>11, <1>12, <1>13, <1>14 DEF PlayNext, WorkerRuns

LEMMA TileStarts == Init => TileInv
<1> SUFFICES ASSUME Init PROVE TileInv
  OBVIOUS
<1>1. \A i \in Slots : state[i] = "Free"
  BY DEF Init, PoolInit
<1>2. wk = "idle"
  BY DEF Init
<1> QED
  BY <1>1, <1>2 DEF TileInv, Tiled, NoneOverlap, OfGeneration, Resides, Filled

(* No frame of the track is in two chunks that can be played: decode-ahead *)
(* (decode_ahead.hpp) reads on from where it stopped, and a seek moves to  *)
(* another generation.                                                     *)
THEOREM ChunksTile == PlaySpec => []NoOverlap
<1>1. Init => TileInv
  BY TileStarts
<1>2. CoordinatorInv /\ TileInv /\ [PlayNext]_vars => TileInv'
  BY TileStep DEF CoordinatorInv
<1>3. CoordinatorInv /\ TileInv => NoOverlap
  <2> SUFFICES ASSUME CoordinatorInv, TileInv, NEW i \in Slots, NEW j \in Slots, i # j,
                      gen[i] = gen[j], {i, j} \subseteq Resident(gen[i])
               PROVE  FramesOf(i) \cap FramesOf(j) = {}
    BY DEF NoOverlap
  <2>1. Resides(i) /\ Resides(j)
    BY DEF Resident, Resides
  <2>2. End(i) <= start[j] \/ End(j) <= start[i]
    BY <2>1 DEF TileInv, NoneOverlap
  <2>3. /\ start[i] \in Nat /\ start[j] \in Nat /\ End(i) \in Nat /\ End(j) \in Nat
    <3>1. PlayInv /\ TypeOK
      BY DEF CoordinatorInv, PlayInv, PoolInv, SlotInv
    <3>2. /\ start[i] \in Starts /\ start[j] \in Starts
          /\ audio[i].frames \in FrameCounts /\ audio[j].frames \in FrameCounts
      BY <3>1 DEF TypeOK
    <3> QED
      BY <3>2, Bounds DEF End, FrameCounts
  <2> QED
    BY <2>2, <2>3 DEF FramesOf
<1> QED
  BY <1>1, <1>2, <1>3, PlayInvariant, PTL DEF PlaySpec

-----------------------------------------------------------------------------
(* The diagnostics                                                         *)

(* While the snapshot of the diagnostics may still be accepted, what       *)
(* buffered_range has seen of a slot is true of it now.                    *)
Watching == rk = "diagCheck" /\ version = snap.version
HasEnd(i) == Resides(i) /\ gen[i] = snap.gen
RangeFits == range = NoRange \/ \E i, j \in Slots : /\ HasEnd(i) /\ range.lo = start[i]
                                                    /\ HasEnd(j) /\ range.hi = End(j)
Seen ==
  /\ r.pc \in {"rangeGen", "rangeStart", "rangeCount", "rangeCheck"} => Resides(r.at)
  /\ r.pc \in {"rangeStart", "rangeCount", "rangeCheck"} => r.seenGen = gen[r.at]
  /\ r.pc \in {"rangeCount", "rangeCheck"} => r.seenStart = start[r.at]
  /\ r.pc = "rangeCheck" => r.n = count[r.at]
RangeSeen == Watching => RangeFits /\ Seen

(* No step of the worker touches what the renderer writes, and the version *)
(* only grows.                                                             *)
LEMMA WorkerStepsOnly ==
  ASSUME TypeOK, CallShape, WorkerCallNext \/ WorkerRuns
  PROVE  /\ UNCHANGED <<audioVars, leases, r, range>>
         /\ version' = version \/ version' = version + 1
<1>1. CASE WorkerCallNext
  BY <1>1 DEF WorkerCallNext, WorkerOpen, WorkerOpenFails, WorkerClose, WorkerSeek, Transition,
     DiscardCall, WorkerSeekRejected, WorkerRefill, ReadyCountCall, poolVars
<1>2. CASE WorkerStep /\ UNCHANGED <<workerVars, audioVars>>
  BY <1>2, WorkerStaysInCall DEF WorkerStays, workerVars
<1> QED
  BY <1>1, <1>2 DEF WorkerRuns, WorkerPublish, WorkerFinish, RefillReserve, BeginWriteCall, RefillRead,
     CancelCall, FillAudio, RefillPublish, PublishCall, RefillPublished, ReadyCountCall, RefillStops,
     poolVars

(* No transition runs while the diagnostics can be accepted, so that no    *)
(* chunk is discarded.                                                     *)
LEMMA WatchedStays ==
  ASSUME PlayInv, Watching, [Next]_poolVars, NEW i \in Slots, Resides(i)
  PROVE  Resides(i)' /\ Frozen(i) /\ End(i)' = End(i)
<1>1. wk # "publish" /\ w.pc # "discardCheck"
  <2>1. version % 2 = 0
    BY DEF PlayInv, SnapFits, Loading, Watching
  <2> QED
    BY <2>1 DEF PlayInv, Versions, WorkerPlace, CoordinatorTypeOK, PlayTypeOK
<1>2. r.pc # "release"
  BY DEF PlayInv, AudioPlace, Watching
<1>3. PoolInv
  BY DEF PlayInv
<1>4. Resides(i)'
  BY <1>1, <1>2, <1>3, ResidenceStep DEF DiscardCheck, ReleaseCas
<1> QED
  BY <1>4, ChunkFrame

LEMMA RangeKept ==
  ASSUME PlayInv, Watching, RangeSeen, [Next]_poolVars, snap' = snap, range' = range
  PROVE  RangeFits'
<1>1. CASE range = NoRange
  BY <1>1 DEF RangeFits
<1>2. CASE range # NoRange
  <2>1. PICK i \in Slots, j \in Slots : /\ HasEnd(i) /\ range.lo = start[i]
                                        /\ HasEnd(j) /\ range.hi = End(j)
    BY <1>2 DEF RangeSeen, RangeFits
  <2>2. /\ HasEnd(i)' /\ start'[i] = start[i]
        /\ HasEnd(j)' /\ End(j)' = End(j)
    BY <2>1, WatchedStays DEF HasEnd, Frozen
  <2>3. \E x, y \in Slots : /\ HasEnd(x)' /\ range'.lo = start'[x]
                            /\ HasEnd(y)' /\ range'.hi = End(y)'
    BY <2>1, <2>2
  <2> QED
    BY <2>3 DEF RangeFits
<1> QED
  BY <1>1, <1>2

(* A slot that counts widens the range to its own ends.                    *)
LEMMA RangeWidened ==
  ASSUME PlayInv, Watching, RangeSeen, r.pc = "rangeCheck", Counts
  PROVE  LET v == Widen(range, r.seenStart, r.seenStart + r.n)
         IN \E i, j \in Slots : HasEnd(i) /\ v.lo = start[i] /\ HasEnd(j) /\ v.hi = End(j)
<1> DEFINE lo == r.seenStart
           hi == r.seenStart + r.n
<1>1. /\ r.at \in Slots /\ Resides(r.at) /\ gen[r.at] = r.gen /\ lo = start[r.at]
      /\ r.n = count[r.at] /\ r.n > 0
  BY DEF RangeSeen, Seen, Counts, PlayInv, PoolInv, SlotInv, TypeOK, RendererCalls
<1>2. HasEnd(r.at) /\ hi = End(r.at)
  BY <1>1 DEF HasEnd, End, PlayInv, AudioPlace, PoolInv, PublishedWhole, Resides
<1>3. lo \in Nat /\ hi \in Nat /\ range.lo \in Nat /\ range.hi \in Nat
  <2>1. start[r.at] \in Starts /\ count[r.at] \in FrameCounts /\ range.lo \in Nat /\ range.hi \in Nat
    BY <1>1 DEF PlayInv, PoolInv, SlotInv, TypeOK
  <2> QED
    BY <1>1, <2>1, Bounds DEF FrameCounts
<1>4. CASE range.hi = 0
  BY <1>1, <1>2, <1>4 DEF Widen
<1>5. CASE range.hi # 0
  <2>1. range # NoRange
    BY <1>5 DEF NoRange
  <2>2. PICK i \in Slots, j \in Slots : /\ HasEnd(i) /\ range.lo = start[i]
                                        /\ HasEnd(j) /\ range.hi = End(j)
    BY <2>1 DEF RangeSeen, RangeFits
  <2>3. Min({range.lo, lo}) \in {range.lo, lo}
    BY <1>3, MinOfTwo
  <2>4. Max({range.hi, hi}) \in {range.hi, hi}
    <3>1. \E b \in Nat : {range.hi, hi} \subseteq 0 .. b
      <4>1. {range.hi, hi} \subseteq 0 .. range.hi + hi
        BY <1>3
      <4> QED
        BY <4>1, <1>3
    <3> QED
      BY <3>1, LargestOf
  <2>5. Widen(range, lo, hi) = [lo |-> Min({range.lo, lo}), hi |-> Max({range.hi, hi})]
    BY <1>5 DEF Widen
  <2>6. PICK x \in Slots : HasEnd(x) /\ Min({range.lo, lo}) = start[x]
    BY <2>2, <2>3, <1>1, <1>2
  <2>7. PICK y \in Slots : HasEnd(y) /\ Max({range.hi, hi}) = End(y)
    BY <2>2, <2>4, <1>1, <1>2
  <2> QED
    BY <2>5, <2>6, <2>7
<1> QED
  BY <1>4, <1>5

(* One load of buffered_range.                                             *)
LEMMA RangeLoads ==
  ASSUME PlayInv, Watching, RangeSeen, RendererStep, UNCHANGED <<workerVars, audioVars>>
  PROVE  RangeFits' /\ Seen'
<1>0. /\ r \in RendererCalls /\ TypeOK /\ CallShape /\ [Next]_poolVars /\ snap' = snap
      /\ r.at \in Slots /\ UNCHANGED <<gen, start, count, audio>>
  BY RendererStaysInCall DEF PlayInv, PoolInv, SlotInv, TypeOK, Next, audioVars, RendererCalls
<1>1. r.pc \in {"rangeState", "rangeGen", "rangeStart", "rangeCount", "rangeCheck"}
  BY <1>0, RendererStaysInCall DEF PlayInv, AudioPlace, Watching, Acquiring, Releasing, Ranging
<1>2. \A i \in Slots : Resides(i) => Resides(i)'
  BY <1>0, WatchedStays
<1>3. CASE r.pc # "rangeCheck"
  <2>1. \/ (r.pc = "rangeState" /\ RangeState)
        \/ (r.pc = "rangeGen" /\ RangeGen)
        \/ (r.pc = "rangeStart" /\ RangeStart)
        \/ (r.pc = "rangeCount" /\ RangeCount)
    BY <1>1, <1>3 DEF RendererStep, AcquireCas, AcquireCheck, ReleaseCas, ReleaseSub, RangeCheck,
       RangeState, RangeGen, RangeStart, RangeCount
  <2>2. range' = range
    BY <2>1 DEF RangeState, RangeGen, RangeStart, RangeCount
  <2>3. NextRange.pc \in {"rangeState", "idle"}
    BY DEF NextRange, RIdle
  <2>4. ASSUME r.pc = "rangeState", r' = NextRange PROVE Seen'
    BY <2>3, <2>4 DEF Seen
  <2>5. ASSUME r.pc = "rangeState", r' # NextRange PROVE Seen'
    <3>1. r'.pc = "rangeGen" /\ r'.at = r.at /\ Resides(r.at)
      BY <2>1, <2>5, <1>0 DEF RangeState, RendererCalls, Resides
    <3> QED
      BY <3>1, <1>0, <1>2 DEF Seen
  <2>6. ASSUME r.pc = "rangeGen" PROVE Seen'
    <3>1. r'.pc = "rangeStart" /\ r'.at = r.at /\ r'.seenGen = gen[r.at]
      BY <2>1, <2>6, <1>0 DEF RangeGen, RendererCalls
    <3> QED
      BY <3>1, <1>0, <1>2, <2>6 DEF RangeSeen, Seen
  <2>7. ASSUME r.pc = "rangeStart" PROVE Seen'
    <3>1. r'.pc = "rangeCount" /\ r'.at = r.at /\ r'.seenGen = r.seenGen /\ r'.seenStart = start[r.at]
      BY <2>1, <2>7, <1>0 DEF RangeStart, RendererCalls
    <3> QED
      BY <3>1, <1>0, <1>2, <2>7 DEF RangeSeen, Seen
  <2>8. ASSUME r.pc = "rangeCount" PROVE Seen'
    <3>1. /\ r'.pc = "rangeCheck" /\ r'.at = r.at /\ r'.seenGen = r.seenGen
          /\ r'.seenStart = r.seenStart /\ r'.n = count[r.at]
      BY <2>1, <2>8, <1>0 DEF RangeCount, RendererCalls
    <3> QED
      BY <3>1, <1>0, <1>2, <2>8 DEF RangeSeen, Seen
  <2> QED
    BY <2>1, <2>2, <2>4, <2>5, <2>6, <2>7, <2>8, <1>0, RangeKept
<1>4. CASE r.pc = "rangeCheck"
  <2>1. RangeCheck
    BY <1>4 DEF RendererStep, AcquireCas, AcquireCheck, ReleaseCas, ReleaseSub,
       RangeState, RangeGen, RangeStart, RangeCount
  <2>2. Seen'
    BY <2>1 DEF RangeCheck, NextRange, RIdle, Seen
  <2>3. CASE ~ Counts
    BY <2>1, <2>2, <2>3, <1>0, RangeKept DEF RangeCheck
  <2>4. CASE Counts
    <3>1. range' = Widen(range, r.seenStart, r.seenStart + r.n) /\ UNCHANGED shared
      BY <2>1, <2>4 DEF RangeCheck
    <3>2. PICK i \in Slots, j \in Slots : /\ HasEnd(i) /\ range'.lo = start[i]
                                          /\ HasEnd(j) /\ range'.hi = End(j)
      BY <3>1, <2>4, <1>4, RangeWidened
    <3>3. HasEnd(i)' /\ HasEnd(j)' /\ start' = start /\ End(j)' = End(j)
      BY <3>1, <3>2, <1>0 DEF HasEnd, Resides, End, shared
    <3>4. \E x, y \in Slots : /\ HasEnd(x)' /\ range'.lo = start'[x]
                              /\ HasEnd(y)' /\ range'.hi = End(y)'
      BY <3>2, <3>3
    <3> QED
      BY <3>4, <2>2 DEF RangeFits
  <2> QED
    BY <2>3, <2>4
<1> QED
  BY <1>3, <1>4

LEMMA RangeStep ==
  ASSUME PlayInv, RangeSeen, [PlayNext]_vars
  PROVE  RangeSeen'
<1> SUFFICES ASSUME Watching' PROVE RangeFits' /\ Seen'
  BY DEF RangeSeen
<1>0. TypeOK /\ CallShape /\ [Next]_poolVars /\ r \in RendererCalls
  BY PoolDriven DEF PlayInv, PoolInv, SlotInv, TypeOK
<1>1. ASSUME UNCHANGED <<audioVars, r, range>>, version' = version \/ version' = version + 1
      PROVE  RangeFits' /\ Seen'
  <2>1. rk = "diagCheck" /\ snap' = snap
    BY <1>1 DEF Watching, audioVars
  <2>2. version = snap.version
    <3>1. snap.version <= version /\ version \in Nat /\ snap.version \in Nat
      BY <2>1, VersionAssumption DEF PlayInv, SnapFits, Loading, CoordinatorTypeOK, PlayTypeOK, Snapshots
    <3> QED
      BY <3>1, <2>1, <1>1 DEF Watching
  <2>3. Watching
    BY <2>1, <2>2 DEF Watching
  <2>4. Seen /\ r.at \in Slots
    BY <2>3, <1>0 DEF RangeSeen, RendererCalls
  <2>5. \A i \in Slots : Resides(i) => Resides(i)' /\ Frozen(i)
    BY <2>3, <2>4, <1>0, WatchedStays
  <2>6. Seen'
    BY <2>4, <2>5, <1>1 DEF Seen, Frozen
  <2> QED
    BY <2>1, <2>3, <2>6, <1>1, <1>0, RangeKept
<1>2. CASE WorkerCallNext \/ WorkerRuns
  BY <1>0, <1>1, <1>2, WorkerStepsOnly
<1>3. CASE UNCHANGED vars
  BY <1>1, <1>3 DEF vars, poolVars, workerVars
<1>4. CASE RendererStep /\ UNCHANGED <<workerVars, audioVars>>
  <2>1. Watching
    BY <1>4 DEF Watching, workerVars, audioVars
  <2> QED
    BY <1>4, <2>1, RangeLoads
<1>5. CASE DiagRange
  <2>1. range' = NoRange /\ r'.pc = "rangeState"
    BY <1>5 DEF DiagRange, RangeCall, RIdle
  <2> QED
    BY <2>1 DEF RangeFits, Seen
<1>6. CASE AudioCallNext
  BY <1>6 DEF AudioCallNext, RenderCall, DiagnosticsCall, LoadVersion, Watching
<1>7. ASSUME AudioRuns, ~ (RendererStep /\ UNCHANGED <<workerVars, audioVars>>), ~ DiagRange
      PROVE  FALSE
  <2>1. rk' = "diagCheck"
    BY DEF Watching
  <2>2. ASSUME NEW p, ReleaseAll(p), p # "diagCheck" PROVE FALSE
    BY <2>2, <2>1 DEF ReleaseAll, AudioAt, audioVars
  <2> QED
    BY <1>7, <2>1, <2>2
    DEF AudioRuns, SnapGen, SnapFrame, SnapChannels, SnapCheck, SnapRetry, Suspended, Prepared,
        Acquire, Acquired, Render, Consume, DiagGen, DiagDuration, DiagCheck, DiagRetry, DiagReturn,
        Load, LoadVersion, AudioAt
<1> QED
  BY <1>2, <1>3, <1>4, <1>5, <1>6, <1>7 DEF PlayNext

(* Diagnostics whose version check succeeds (try_read_diagnostics) are     *)
(* whole, although their buffered range was read slot by slot while the    *)
(* worker refilled: each end of it is the end of a chunk of the reported   *)
(* generation that can be played now, and within the reported duration.    *)
THEOREM DiagnosticsAreWhole == PlaySpec => []DiagnosticsWhole
<1>1. Init => RangeSeen /\ TileInv
  BY TileStarts DEF Init, RangeSeen, Watching
<1>2. CoordinatorInv /\ TileInv /\ RangeSeen /\ [PlayNext]_vars => TileInv' /\ RangeSeen'
  BY TileStep, RangeStep DEF CoordinatorInv
<1>3. CoordinatorInv /\ TileInv /\ RangeSeen => DiagnosticsWhole
  <2> SUFFICES ASSUME PlayInv, TileInv, RangeSeen, rk = "diagCheck", version = snap.version
               PROVE  /\ snap.gen = published.gen /\ snap.duration = published.duration
                      /\ range.hi <= snap.duration
                      /\ range # NoRange => \E i, j \in Resident(snap.gen) :
                                              range.lo = start[i] /\ range.hi = End(j)
    BY DEF CoordinatorInv, DiagnosticsWhole
  <2>1. snap.gen = published.gen /\ snap.duration = published.duration /\ version % 2 = 0
    BY DEF PlayInv, SnapFits, Loading
  <2>2. /\ wk # "publish" /\ published.gen = decGen /\ published.duration = decoder.length
        /\ decoder.at <= decoder.length
    BY <2>1 DEF PlayInv, Versions, StoresFit, Due
  <2>3. RangeFits
    BY DEF RangeSeen, Watching
  <2>4. range # NoRange => \E i, j \in Resident(snap.gen) : range.lo = start[i] /\ range.hi = End(j)
    BY <2>3 DEF RangeFits, HasEnd, Resides, Resident
  <2>5. decoder.at \in Nat /\ decoder.length \in Nat
    BY Bounds DEF PlayInv, CoordinatorTypeOK, PlayTypeOK
  <2>6. range.hi <= snap.duration
    <3>1. CASE range = NoRange
      BY <3>1, <2>1, <2>2, <2>5 DEF NoRange
    <3>2. ASSUME NEW j \in Slots, HasEnd(j), range.hi = End(j) PROVE range.hi <= snap.duration
      <4>1. OfGeneration(j)
        BY <3>2, <2>1, <2>2 DEF HasEnd, OfGeneration
      <4>2. End(j) <= decoder.at
        BY <4>1 DEF TileInv, Tiled, Placed
      <4>3. End(j) \in Nat
        <5>1. start[j] \in Starts /\ audio[j].frames \in FrameCounts
          BY DEF PlayInv, PoolInv, SlotInv, TypeOK
        <5> QED
          BY <5>1, Bounds DEF End, FrameCounts
      <4> QED
        BY <4>2, <4>3, <3>2, <2>1, <2>2, <2>5
    <3> QED
      BY <3>1, <3>2, <2>3 DEF RangeFits
  <2> QED
    BY <2>1, <2>4, <2>6
<1> QED
  BY <1>1, <1>2, <1>3, PlayInvariant, PTL DEF PlaySpec

(* Whatever the renderer reads without a lock and accepts, a snapshot by   *)
(* try_read_snapshot or diagnostics by try_read_diagnostics, is whole.     *)
THEOREM ReadsWhole == PlaySpec => []ReadsAreWhole
<1>1. SnapshotWhole /\ DiagnosticsWhole => ReadsAreWhole
  BY DEF ReadsAreWhole
<1> QED
  BY <1>1, SnapshotsAreWhole, DiagnosticsAreWhole, PTL

-----------------------------------------------------------------------------
(* Nothing is lost between the position and the decoder                    *)

(* The renderer plays the worker's generation and no seek was refused.     *)
Live == adopted = decGen /\ ~ refused

(* The position is before the chunks that are there, but for those that    *)
(* are being released, and not past what the worker is publishing.         *)
Position ==
  /\ pos <= decoder.at /\ (Filled => pos <= LastFrom)
  /\ \A i \in Slots : OfGeneration(i) => End(i) > pos \/ (rk = "consume" /\ i \in leases)
  /\ r.pc = "release" => End(r.at) <= pos

(* The slots acquire_ready_chunks has passed since it took the last lease: *)
(* a chunk in one of them was published later, so comes after the leases.  *)
Scanned ==
  IF rk = "render" \/ (rk = "acquired" /\ r.pc = "idle" /\ r.slot = NoSlot) THEN Slots
  ELSE IF rk = "acquired" /\ r.pc \in Acquiring THEN {i \in Slots : i < r.at} ELSE {}
Ahead == \A i \in Scanned \ leases : OfGeneration(i) => \A j \in leases : End(j) <= start[i]

(* Every frame the renderer has still to play, up to the decoder's, is in  *)
(* a chunk that is there or that is being published.                       *)
From == IF adopted = decGen THEN pos ELSE published.frame
Needed == ~ refused /\ decState \in {"Ready", "EndOfStream"} /\ wk \notin {"publish", "refillError"}
Covers(i, f) ==
  /\ OfGeneration(i) \/ (Filled /\ i = w.slot)
  /\ audio[i].from <= f /\ f < audio[i].from + audio[i].frames
Covered == Needed => \A f \in From .. decoder.at - 1 : \E i \in Slots : Covers(i, f)

PositionInv == (Live => Position /\ Ahead) /\ Covered

(* What is being published stays what it is, until it is in or given up.   *)
SameFill ==
  /\ Filled' => Filled /\ w'.slot = w.slot /\ audio'[w.slot] = audio[w.slot]
  /\ Filled /\ Needed' => Filled'

(* What a step of the worker does to the chunks of its generation.         *)
Interrupts == wk' = "publish" /\ (wk = "publish" \/ refused' \/ decGen' = decGen + 1)
Rests ==
  /\ wk # "publish" /\ wk' # "publish" /\ UNCHANGED <<decGen, decoder, refused>>
  /\ published'.frame = published.frame /\ NothingNew /\ SameFill /\ (Needed' => Needed)
Fills ==
  /\ wk # "publish" /\ wk' # "publish" /\ UNCHANGED <<decGen, refused, state>> /\ ~ Filled
  /\ published'.frame = published.frame /\ (Needed' => Needed)
  /\ Filled' /\ LastFrom' = decoder.at /\ decoder'.at = LastFrom' + LastFrames'
  /\ decoder'.at >= decoder.at
Completes == wk = "refillPublished" /\ PublishReady /\ UNCHANGED workerVars

LEMMA WorkerKinds ==
  ASSUME PlayInv, [Next]_poolVars, WorkerCallNext \/ WorkerRuns
  PROVE  Interrupts \/ WorkerFinish \/ Rests \/ Fills \/ Completes
<1>0. /\ WorkerTypeOK /\ CoordinatorTypeOK /\ WorkerPlace /\ StoresFit
      /\ TypeOK /\ CallShape /\ w \in WorkerCalls
  BY TypesOfThreads DEF PlayInv, PoolInv, SlotInv, TypeOK
<1>a. decGen \in Nat /\ decoder.at \in Nat /\ decoder.length \in Nat
  BY <1>0, Bounds DEF WorkerTypeOK
<1>b. ASSUME UNCHANGED state PROVE NothingNew
  BY <1>b DEF NothingNew, Resides
<1>1. ASSUME NEW dec, NEW st, NEW stores, Transition(dec, st, stores) PROVE Interrupts
  BY <1>1 DEF Transition, NextGeneration, Interrupts
<1>2. ASSUME wk \notin {"publish", "refillError"}, wk' # "publish", decState \in {"Ready", decState'},
             ~ Filled, ~ Filled', UNCHANGED <<decGen, decoder, refused, state>>,
             published'.frame = published.frame
      PROVE  Rests
  BY <1>2, <1>b DEF Rests, SameFill, Needed
<1>4. CASE WorkerCallNext
  <2>1. ASSUME NEW f, WorkerSeekRejected(f) PROVE Interrupts
    BY <2>1 DEF WorkerSeekRejected, Interrupts
  <2>2. CASE WorkerRefill
    <3>1. /\ UNCHANGED <<decGen, decoder, state, refused>> /\ wk' \in {"idle", "refillCount"}
          /\ wk = "idle" /\ decState' = decState
      BY <2>2 DEF WorkerRefill, RefillReturns, ReadyCountCall, shared, poolVars, WorkerIdle
    <3>2. published'.frame = published.frame
      BY <2>2, <1>0, ReturnsTypes DEF WorkerRefill, WorkerTypeOK
    <3> QED
      BY <3>1, <3>2, <1>2 DEF Filled
  <2> QED
    BY <1>1, <1>4, <2>1, <2>2 DEF WorkerCallNext, WorkerOpen, WorkerOpenFails, WorkerClose, WorkerSeek
<1>5. CASE WorkerStep /\ UNCHANGED <<workerVars, audioVars>>
  <2>1. UNCHANGED <<decGen, decoder, published, wk, refused, decState>>
    BY <1>5 DEF workerVars
  <2>2. CASE wk = "publish"
    BY <2>1, <2>2 DEF Interrupts
  <2>3. CASE wk # "publish" /\ PublishReady
    <3>1. w.pc = "pubReady"
      BY <2>3 DEF PublishReady
    <3>2. wk = "refillPublished"
      BY <3>1, <1>0 DEF WorkerPlace, WorkerTypeOK
    <3> QED
      BY <3>2, <2>3, <1>5 DEF Completes
  <2>4. CASE wk # "publish" /\ ~ PublishReady
    <3>1. NothingNew
      BY <2>4, NothingNewUnlessReady
    <3>2. ASSUME wk \in {"refillPublish", "refillPublished"}
          PROVE  w'.slot = w.slot /\ audio' = audio
      <4>2. w.pc # "idle"
        BY <1>5, <1>0, WorkerStaysInCall DEF WorkerStays
      <4>3. w.pc \in Publishing
        BY <3>2, <4>2, <1>0 DEF WorkerPlace, Publishing
      <4>4. PublishStart \/ PublishGeneration \/ PublishCount \/ PublishAdd
        BY <4>3, <1>5, <2>4 DEF WorkerStep, BeginWriteCas, BeginWriteClear, Cancel, DiscardCas,
           DiscardCheck, DiscardSub, ReadyCountLoad, Publishing
      <4>5. \E p \in WorkerPcs : w' = [w EXCEPT !.pc = p]
        BY <4>4 DEF PublishStart, PublishGeneration, PublishCount, PublishAdd, WorkerPcs
      <4>6. w'.slot = w.slot
        BY <4>5, <1>0 DEF WorkerCalls
      <4>7. UNCHANGED audio
        BY <4>4 DEF PublishStart, PublishGeneration, PublishCount, PublishAdd
      <4> QED
        BY <4>6, <4>7
    <3>3. SameFill
      BY <3>2, <2>1 DEF SameFill, Filled
    <3>4. Needed' => Needed
      BY <2>1 DEF Needed
    <3> QED
      BY <3>1, <3>3, <3>4, <2>1, <2>4 DEF Rests
  <2> QED
    BY <2>2, <2>3, <2>4
<1>6. CASE WorkerPublish
  BY <1>6 DEF WorkerPublish, Interrupts
<1>8. CASE RefillReserve
  <2>1. /\ UNCHANGED <<decGen, decoder, state, refused>> /\ wk' \in {"idle", "refillReserve"}
        /\ wk = "refillCount"
    BY <1>8 DEF RefillReserve, RefillReturns, BeginWriteCall, shared, poolVars
  <2>2. published'.frame = published.frame
    BY <1>8, <1>0, ReturnsTypes DEF RefillReserve, DecodeAheadState
  <2>3. decState = "Ready"
    BY <2>1, <1>0 DEF WorkerPlace
  <2> QED
    BY <2>1, <2>2, <2>3, <1>2 DEF Filled
<1>9. CASE RefillRead
  <2>0. wk = "refillReserve" /\ decState = "Ready"
    BY <1>9, <1>0 DEF RefillRead, WorkerPlace
  <2>1. CASE wk' # "refillPublish"
    <3>1. UNCHANGED <<decGen, decoder, state, refused>> /\ wk' \in {"idle", "refillEnd", "refillError"}
      BY <1>9, <2>1 DEF RefillRead, RefillReturns, CancelCall, shared, poolVars
    <3>2. published'.frame = published.frame
      BY <1>9, <2>1, <1>0, ReturnsTypes DEF RefillRead, DecodeAheadState
    <3> QED
      BY <2>0, <3>1, <3>2, <1>2 DEF Filled
  <2>2. CASE wk' = "refillPublish"
    <3>1. /\ Remaining > 0 /\ FillAudio(decoder.at, ReadFrames)
          /\ decoder' = [decoder EXCEPT !.at = @ + ReadFrames]
          /\ UNCHANGED <<published, decGen, refused>>
      BY <1>9, <2>2 DEF RefillRead, RefillReturns
    <3>2. ReadFrames \in 1 .. MaxFrames
      BY <3>1, <1>0, ReadSome
    <3>3. decoder'.at = decoder.at + ReadFrames
      BY <3>1, <1>0 DEF WorkerTypeOK
    <3>4. w.slot \in Slots /\ w' = w /\ UNCHANGED state
      BY <3>1 DEF FillAudio
    <3>5. audio'[w.slot] = [frames |-> ReadFrames, from |-> decoder.at]
      BY <3>1, <3>4, <1>0 DEF FillAudio, TypeOK
    <3>6. LastFrom' = decoder.at /\ LastFrames' = ReadFrames
      BY <3>4, <3>5 DEF LastFrom, LastFrames
    <3>9. ReadFrames \in Nat /\ ReadFrames >= 1
      BY <3>2
    <3>10. Filled' /\ ~ Filled /\ (Needed' => Needed)
      BY <3>1, <3>4, <2>0, <2>2 DEF Filled, Needed
    <3> QED
      BY <2>0, <2>2, <3>1, <3>3, <3>4, <3>6, <3>9, <3>10, <1>a DEF Fills
  <2> QED
    BY <2>1, <2>2
<1>10. CASE RefillPublish
  <2>1. /\ UNCHANGED <<decGen, decoder, published, refused, state, audio, decState>> /\ w'.slot = w.slot
        /\ wk = "refillPublish" /\ wk' \in {"refillPublished", "refillError"} /\ w.slot \in Slots
    BY <1>10, <1>0 DEF RefillPublish, PublishCall, shared, WorkerCalls
  <2>2. SameFill /\ (Needed' => Needed)
    BY <2>1 DEF SameFill, Needed, Filled
  <2> QED
    BY <2>1, <2>2, <1>b DEF Rests
<1>11. CASE RefillPublished
  <2>1. /\ UNCHANGED <<decGen, decoder, state, refused>> /\ wk' \in {"idle", "refillCount"}
        /\ wk = "refillPublished" /\ w.pc = "idle"
    BY <1>11 DEF RefillPublished, RefillReturns, ReadyCountCall, shared, poolVars
  <2>2. published'.frame = published.frame
    BY <1>11, <1>0, ReturnsTypes DEF RefillPublished, DecodeAheadState
  <2>3. w.slot = NoSlot /\ decState = "Ready"
    BY <2>1, <1>0 DEF WorkerPlace
  <2> QED
    BY <2>1, <2>2, <2>3, <1>2, SlotFacts DEF Filled
<1>12. CASE RefillStops
  <2>1. UNCHANGED <<decGen, decoder, state, refused>> /\ wk' = "idle" /\ wk \in {"refillEnd", "refillError"}
    BY <1>12 DEF RefillStops, RefillReturns, poolVars
  <2>2. published'.frame = published.frame
    BY <1>12, <1>0, ReturnsTypes DEF RefillStops, DecodeAheadState
  <2>3. CASE wk = "refillEnd"
    <3>1. decState = "Ready"
      BY <2>3, <1>0 DEF WorkerPlace
    <3> QED
      BY <3>1, <2>1, <2>2, <2>3, <1>2 DEF Filled
  <2>4. CASE wk = "refillError"
    <3>1. decState' = "Error"
      BY <2>4, <1>12 DEF RefillStops, RefillReturns
    <3> QED
      BY <3>1, <2>1, <2>2, <2>4, <1>b DEF Rests, SameFill, Needed, Filled
  <2> QED
    BY <2>1, <2>3, <2>4
<1> QED
  BY <1>4, <1>5, <1>6, <1>8, <1>9, <1>10, <1>11, <1>12 DEF WorkerRuns

(* The chunks of the worker's generation stay while no transition runs and *)
(* the renderer releases none.                                             *)
LEMMA ChunksStay ==
  ASSUME PlayInv, [Next]_poolVars, wk # "publish", r' = r, decGen' = decGen,
         NEW i \in Slots, OfGeneration(i)
  PROVE  OfGeneration(i)' /\ Frozen(i) /\ End(i)' = End(i)
<1>1. w.pc # "discardCheck"
  BY DEF PlayInv, WorkerPlace, CoordinatorTypeOK, PlayTypeOK
<1>2. ~ ReleaseCas /\ PoolInv
  BY DEF PlayInv, PoolInv, SlotInv, TypeOK, RendererCalls, ReleaseCas, RIdle
<1>3. Resides(i) /\ Resides(i)'
  BY <1>1, <1>2, ResidenceStep DEF OfGeneration, DiscardCheck
<1>4. Frozen(i) /\ End(i)' = End(i)
  BY <1>3, ChunkFrame
<1> QED
  BY <1>3, <1>4 DEF OfGeneration, Frozen

LEMMA FromFactsAfter ==
  ASSUME PlayInv'
  PROVE  From' \in Nat /\ decoder'.at \in Nat /\ pos' \in Nat
BY Bounds DEF PlayInv, CoordinatorTypeOK, PlayTypeOK, From

LEMMA FromFacts ==
  ASSUME PlayInv
  PROVE  From \in Nat /\ decoder.at \in Nat /\ pos \in Nat /\ published.frame \in Nat /\ decGen \in Nat
BY Bounds DEF PlayInv, CoordinatorTypeOK, PlayTypeOK, From

(* Where the position does not go back and only played chunks go, nothing  *)
(* is lost.                                                                *)
LEMMA CoveredKept ==
  ASSUME PlayInv, [Next]_poolVars, Covered, Needed' => Needed,
         From' \in Nat, From' >= From, decoder'.at = decoder.at,
         \A i \in Slots : OfGeneration(i) => OfGeneration(i)' \/ (Needed' => End(i) <= From'),
         Filled /\ Needed' => audio'[w.slot] = audio[w.slot] /\ Filled' /\ w'.slot = w.slot
  PROVE  Covered'
<1> SUFFICES ASSUME Needed', NEW f \in From' .. decoder.at - 1
             PROVE  \E i \in Slots : Covers(i, f)'
  BY DEF Covered
<1>1. f \in From .. decoder.at - 1 /\ f \in Nat /\ f >= From'
  BY FromFacts
<1>2. PICK i \in Slots : Covers(i, f)
  BY <1>1 DEF Covered
<1>3. audio[i].from <= f /\ f < audio[i].from + audio[i].frames
  BY <1>2 DEF Covers
<1>4. CASE OfGeneration(i)
  <2>1. /\ Frozen(i) /\ End(i) \in Nat /\ End(i) = audio[i].from + audio[i].frames
    BY <1>4, ChunkFrame DEF OfGeneration, End
  <2>2. OfGeneration(i)'
    BY <2>1, <1>1, <1>3, <1>4
  <2> QED
    BY <2>1, <2>2, <1>3 DEF Covers, Frozen
<1>5. CASE Filled /\ i = w.slot
  <2>1. audio'[i] = audio[i]
    BY <1>5
  <2>2. Filled' /\ i = w'.slot
    BY <1>5
  <2> QED
    BY <2>1, <2>2, <1>3 DEF Covers
<1> QED
  BY <1>2, <1>4, <1>5 DEF Covers

LEMMA CoveredWorker ==
  ASSUME PlayInv, PlayInv', TileInv, Covered, [Next]_poolVars, WorkerCallNext \/ WorkerRuns
  PROVE  Covered'
<1>0. /\ UNCHANGED <<audioVars, leases, r>> /\ TypeOK /\ CallShape
      /\ pos' = pos /\ adopted' = adopted
  BY WorkerStepsOnly DEF PlayInv, PoolInv, SlotInv, audioVars
<1>1. CASE Interrupts
  BY <1>1 DEF Interrupts, Covered, Needed
<1>2. CASE WorkerFinish
  <2>1. CASE refused
    BY <2>1, <1>2 DEF WorkerFinish, Covered, Needed
  <2>2. CASE ~ refused
    <3>1. adopted # decGen /\ wk = "publish" /\ todo = <<>>
      BY <2>2, <1>2 DEF WorkerFinish, PlayInv, Follows, Behind, Leased, CoordinatorTypeOK, PlayTypeOK, Generations
    <3>2. published.frame = decoder.at
      BY <2>2, <3>1 DEF PlayInv, StoresFit, Due
    <3>3. From' = decoder'.at
      BY <3>1, <3>2, <1>0, <1>2 DEF WorkerFinish, From
    <3>4. decoder.at \in Nat /\ decoder' = decoder
      BY <1>2, FromFacts DEF WorkerFinish
    <3> QED
      BY <3>3, <3>4 DEF Covered
  <2> QED
    BY <2>1, <2>2
<1>3. ASSUME wk # "publish", decGen' = decGen, published'.frame = published.frame
      PROVE  /\ From' = From /\ From' \in Nat /\ From' >= From
             /\ \A i \in Slots : OfGeneration(i) => OfGeneration(i)'
  <2>1. From' = From
    BY <1>0, <1>3 DEF From
  <2>2. \A i \in Slots : OfGeneration(i) => OfGeneration(i)'
    BY <1>0, <1>3, ChunksStay
  <2> QED
    BY <2>1, <2>2, FromFacts
<1>4. CASE Rests
  <2>1. Filled /\ Needed' => Filled' /\ w'.slot = w.slot /\ audio'[w.slot] = audio[w.slot]
    BY <1>4 DEF Rests, SameFill
  <2>2. /\ (Needed' => Needed) /\ decoder' = decoder
        /\ wk # "publish" /\ decGen' = decGen /\ published'.frame = published.frame
    BY <1>4 DEF Rests
  <2> QED
    BY <2>1, <2>2, <1>3, CoveredKept
<1>5. CASE Fills
  <2> SUFFICES ASSUME Needed', NEW f \in From' .. decoder'.at - 1
               PROVE  \E i \in Slots : Covers(i, f)'
    BY DEF Covered
  <2>1. /\ From' = From /\ From \in Nat /\ decoder.at \in Nat /\ decoder'.at \in Nat
        /\ \A i \in Slots : OfGeneration(i) => OfGeneration(i)'
    BY <1>3, <1>5, FromFacts, FromFactsAfter DEF Fills
  <2>2. CASE f < decoder.at
    <3>1. PICK i \in Slots : Covers(i, f)
      BY <2>1, <2>2, <1>5 DEF Fills, Covered
    <3>2. OfGeneration(i) /\ OfGeneration(i)'
      BY <3>1, <2>1, <1>5 DEF Covers, Fills
    <3>3. Frozen(i)
      BY <3>2, ChunkFrame DEF OfGeneration
    <3> QED
      BY <3>1, <3>2, <3>3 DEF Covers, Frozen
  <2>3. CASE f >= decoder.at
    <3>1. Filled' /\ LastFrom' <= f /\ f < LastFrom' + LastFrames'
      BY <2>1, <2>3, <1>5 DEF Fills
    <3>2. w'.slot \in Slots
      BY <3>1 DEF Filled
    <3>3. PICK i \in Slots : i = w'.slot
      BY <3>2
    <3>4. audio'[i].from <= f /\ f < audio'[i].from + audio'[i].frames
      BY <3>1, <3>3 DEF LastFrom, LastFrames
    <3> QED
      BY <3>1, <3>3, <3>4 DEF Covers
  <2> QED
    BY <2>1, <2>2, <2>3
<1>6. CASE Completes
  <2>1. /\ PublishReady /\ wk = "refillPublished" /\ UNCHANGED workerVars /\ w.slot \in Slots
        /\ w.pc = "pubReady"
    BY <1>0, <1>6 DEF Completes, PublishReady, CallShape
  <2>2. UNCHANGED <<decGen, decoder, published, wk, refused, decState>>
    BY <2>1 DEF workerVars
  <2>3. Needed' => Needed
    BY <2>2 DEF Needed
  <2>4. w.gen = decGen /\ gen[w.slot] = w.gen
    BY <2>1 DEF PlayInv, WorkerPlace, PoolInv, PublishShape
  <2>5. /\ audio' = audio /\ gen' = gen /\ state' = [state EXCEPT ![w.slot] = "Ready"]
        /\ state \in [Slots -> SlotState]
    BY <2>1, <1>0 DEF PublishReady, fields, TypeOK
  <2>6. state'[w.slot] = "Ready"
    BY <2>1, <2>5
  <2>7. \A k \in Slots : k = w.slot => OfGeneration(k)'
    BY <2>2, <2>4, <2>5, <2>6 DEF OfGeneration, Resides
  <2>8. ASSUME Needed', NEW f \in From' .. decoder'.at - 1
        PROVE  \E i \in Slots : Covers(i, f)'
    <3>1. PICK i \in Slots : Covers(i, f)
      BY <2>8, <2>1, <2>2, <2>3, <1>3 DEF Covered
    <3>2. OfGeneration(i)'
      BY <3>1, <2>1, <2>2, <2>7, <1>3 DEF Covers
    <3> QED
      BY <3>1, <3>2, <2>5 DEF Covers
  <2> QED
    BY <2>8 DEF Covered
<1> QED
  BY <1>1, <1>2, <1>4, <1>5, <1>6, WorkerKinds

(* What the renderer has leased is of the generation it plays.             *)
LEMMA LeasesLive ==
  ASSUME PlayInv, adopted = decGen, NEW j \in leases
  PROVE  j \in Slots /\ OfGeneration(j) /\ Resides(j)
BY DEF PlayInv, PoolInv, SlotInv, TypeOK, ExclusiveAudio, Leases, Leased, OfGeneration, Resides

LEMMA LastFromNat ==
  ASSUME PlayInv, Filled
  PROVE  LastFrom \in Nat /\ LastFrames \in Nat
<1>1. audio[w.slot].from \in Starts /\ audio[w.slot].frames \in FrameCounts
  BY DEF Filled, PlayInv, PoolInv, SlotInv, TypeOK
<1> QED
  BY <1>1, Bounds DEF LastFrom, LastFrames, FrameCounts

(* A chunk that is new comes after the position and after the leases.      *)
New(i) == Filled /\ start'[i] = LastFrom /\ End(i)' > LastFrom /\ End(i)' \in Nat
LEMMA PositionKept ==
  ASSUME PlayInv, TileInv, [Next]_poolVars, Live, Position, Ahead,
         UNCHANGED <<audioVars, leases, r, decGen>>, decoder'.at >= decoder.at, decoder'.at \in Nat,
         Filled' => pos <= LastFrom',
         \A i \in Slots : OfGeneration(i)' => OfGeneration(i) \/ New(i)
  PROVE  Position' /\ Ahead'
<1>0. pos' = pos /\ rk' = rk /\ pos \in Nat /\ decoder.at \in Nat /\ adopted = decGen
  BY FromFacts DEF audioVars, Live
<1>1. ASSUME NEW i \in Slots, OfGeneration(i)
      PROVE  /\ End(i)' = End(i) /\ End(i) \in Nat /\ start'[i] = start[i]
             /\ Filled => End(i) <= LastFrom
  BY <1>1, ChunkFrame DEF OfGeneration, Frozen, TileInv, Tiled, Placed
<1>2. ASSUME NEW j \in leases
      PROVE  /\ j \in Slots /\ OfGeneration(j) /\ End(j)' = End(j)
  BY <1>0, <1>1, LeasesLive
<1>3. ASSUME NEW i \in Slots, OfGeneration(i)'
      PROVE  End(i)' > pos \/ (rk = "consume" /\ i \in leases)
  <2>1. CASE OfGeneration(i)
    BY <2>1, <1>1 DEF Position
  <2>2. CASE New(i)
    <3>1. pos <= LastFrom /\ LastFrom \in Nat
      BY <2>2, LastFromNat DEF New, Position
    <3> QED
      BY <2>2, <3>1, <1>0 DEF New
  <2> QED
    BY <1>3, <2>1, <2>2
<1>4. r.pc = "release" => End(r.at) <= pos /\ r.at \in leases
  BY DEF Position, PlayInv, PoolInv, SlotInv, CallShape
<1>5. Position'
  <2>1. r.pc = "release" => start'[r.at] + audio'[r.at].frames <= pos
    BY <1>2, <1>4 DEF End
  <2>2. (r.pc = "release" => End(r.at) <= pos)'
    BY <2>1, <1>0 DEF End
  <2> QED
    BY <2>2, <1>0, <1>3 DEF Position
<1>6. ASSUME NEW i \in Scanned \ leases, OfGeneration(i)', NEW j \in leases
      PROVE  End(j)' <= start'[i]
  <2>0. i \in Slots
    BY DEF Scanned
  <2>1. CASE OfGeneration(i)
    BY <2>0, <2>1, <1>1, <1>2 DEF Ahead
  <2>2. CASE New(i)
    BY <2>2, <1>1, <1>2 DEF New
  <2> QED
    BY <1>6, <2>0, <2>1, <2>2
<1>7. Scanned' = Scanned
  BY <1>0 DEF Scanned
<1>8. Ahead'
  BY <1>6, <1>7 DEF Ahead
<1> QED
  BY <1>5, <1>8

LEMMA PositionWorker ==
  ASSUME PlayInv, PlayInv', TileInv, Live => Position /\ Ahead, [Next]_poolVars,
         WorkerCallNext \/ WorkerRuns
  PROVE  (Live => Position /\ Ahead)'
<1> SUFFICES ASSUME Live' PROVE Position' /\ Ahead'
  OBVIOUS
<1>0. UNCHANGED <<audioVars, leases, r>> /\ adopted' = adopted /\ TypeOK /\ CallShape
  BY WorkerStepsOnly DEF PlayInv, PoolInv, SlotInv, audioVars
<1>1. ~ Interrupts
  BY DEF Interrupts, Live, PlayInv, Follows, Behind, CoordinatorTypeOK, PlayTypeOK, Generations
<1>2. ASSUME UNCHANGED <<decGen, refused>> PROVE Live /\ Position /\ Ahead /\ wk # "publish"
  <2>1. Live
    BY <1>0, <1>2 DEF Live
  <2>2. wk # "publish"
    BY <2>1 DEF Live, PlayInv, Follows, Behind, CoordinatorTypeOK, PlayTypeOK, Generations
  <2> QED
    BY <2>1, <2>2
<1>3. CASE WorkerFinish
  BY <1>2, <1>3 DEF WorkerFinish
<1>a. decoder.at \in Nat /\ decoder'.at \in Nat
  BY FromFacts, FromFactsAfter
<1>4. CASE Rests
  <2>1. UNCHANGED <<decGen, refused, decoder>> /\ NothingNew /\ SameFill
    BY <1>4 DEF Rests
  <2>2. Filled' => pos <= LastFrom'
    BY <2>1, <1>2 DEF SameFill, Position, LastFrom
  <2>3. \A i \in Slots : OfGeneration(i)' => OfGeneration(i)
    <3>1. \A i \in Slots : Resides(i)' => Resides(i) /\ Frozen(i)
      BY <2>1, ChunkFrame DEF NothingNew
    <3> QED
      BY <3>1, <2>1 DEF OfGeneration, Frozen
  <2> QED
    BY <2>1, <2>2, <2>3, <1>0, <1>2, <1>a, PositionKept
<1>5. CASE Fills
  <2>1. /\ UNCHANGED <<decGen, refused, state>> /\ LastFrom' = decoder.at /\ decoder'.at >= decoder.at
    BY <1>5 DEF Fills
  <2>2. pos <= LastFrom'
    BY <2>1, <1>2 DEF Position
  <2>3. \A i \in Slots : OfGeneration(i)' => OfGeneration(i)
    <3>1. \A i \in Slots : Resides(i)' => Resides(i) /\ Frozen(i)
      BY <2>1, ChunkFrame DEF Resides
    <3> QED
      BY <3>1, <2>1 DEF OfGeneration, Frozen
  <2> QED
    BY <2>1, <2>2, <2>3, <1>0, <1>2, <1>a, PositionKept
<1>6. CASE Completes
  <2>1. /\ PublishReady /\ UNCHANGED <<decGen, refused, decoder>> /\ w.slot \in Slots
        /\ w.pc = "pubReady" /\ wk = "refillPublished"
    BY <1>0, <1>6 DEF Completes, PublishReady, CallShape, workerVars
  <2>2. /\ Filled /\ ~ Filled' /\ start[w.slot] = LastFrom /\ UNCHANGED <<start, audio, gen>>
    <3>1. w' = WIdle(NoSlot, 1) /\ UNCHANGED <<start, audio, gen>>
      BY <2>1 DEF PublishReady, fields
    <3>2. ~ Filled'
      BY <3>1, SlotFacts DEF WIdle, Filled
    <3>3. Filled /\ start[w.slot] = LastFrom
      BY <2>1 DEF Filled, LastFrom, PlayInv, PoolInv, PublishShape
    <3> QED
      BY <3>1, <3>2, <3>3
  <2>3. LastFrom \in Nat /\ LastFrames \in Nat /\ LastFrames >= 1
    BY <2>2, LastFromNat DEF TileInv, Tiled
  <2>4. \A i \in Slots : i = w.slot => New(i)
    <3>1. \A i \in Slots : End(i)' = End(i)
      BY <2>2 DEF End
    <3>2. End(w.slot) = LastFrom + LastFrames
      BY <2>2 DEF End, LastFrames
    <3> QED
      BY <3>1, <3>2, <2>2, <2>3 DEF New
  <2>5. \A i \in Slots : OfGeneration(i)' => OfGeneration(i) \/ i = w.slot
    <3>1. PoolInv
      BY DEF PlayInv
    <3> QED
      BY <3>1, <2>1, <2>2, ResidenceStep DEF OfGeneration
  <2>6. \A i \in Slots : OfGeneration(i)' => OfGeneration(i) \/ New(i)
    BY <2>4, <2>5
  <2>7. decoder'.at >= decoder.at
    BY <2>1, <1>a
  <2> QED
    BY <2>1, <2>2, <2>6, <2>7, <1>0, <1>2, <1>a, PositionKept
<1> QED
  BY <1>1, <1>3, <1>4, <1>5, <1>6, WorkerKinds

(* What the renderer's steps do to the chunks: only a release takes one    *)
(* away.                                                                   *)
LEMMA AudioChunks ==
  ASSUME PlayInv, [Next]_poolVars, AudioCallNext \/ AudioRuns, NEW i \in Slots
  PROVE  /\ OfGeneration(i)' => OfGeneration(i)
         /\ OfGeneration(i) => End(i)' = End(i) /\ start'[i] = start[i] /\ End(i) \in Nat
         /\ OfGeneration(i) => OfGeneration(i)' \/ (ReleaseCas /\ i = r.at /\ i \in leases)
<1>1. /\ UNCHANGED <<decGen, w, audio, gen, start>> /\ w \in WorkerCalls /\ PoolInv /\ CallShape
  BY AudioStepsOnly DEF workerVars, PlayInv, PoolInv, SlotInv, TypeOK
<1>2. ~ PublishReady /\ ~ DiscardCheck
  <2>1. ~ PublishReady
    BY <1>1 DEF PublishReady, WIdle
  <2>2. NextDiscard.pc # "discardCheck"
    BY <1>1 DEF NextDiscard, WIdle, WorkerCalls
  <2>3. [w EXCEPT !.pc = "discardSub", !.n = audio[w.at].frames].pc # "discardCheck"
    BY <1>1 DEF WorkerCalls
  <2> QED
    BY <1>1, <2>1, <2>2, <2>3 DEF DiscardCheck
<1>3. /\ Resides(i)' => Resides(i)
      /\ Resides(i) => Resides(i)' \/ (ReleaseCas /\ i = r.at)
  BY <1>1, <1>2, ResidenceStep
<1>4. ReleaseCas => r.at \in leases
  BY <1>1 DEF ReleaseCas, CallShape
<1> QED
  BY <1>1, <1>3, <1>4, ChunkFrame DEF OfGeneration, End

RenderSteps == Prepared \/ \E playing \in BOOLEAN : Render(playing)

LEMMA PlaceKept ==
  ASSUME AudioCallNext \/ AudioRuns, ~ RenderSteps
  PROVE  UNCHANGED <<adopted, pos>>
BY DEF RenderSteps, AudioCallNext, RenderCall, DiagnosticsCall, AudioRuns, SnapGen, SnapFrame,
   SnapChannels, SnapCheck, SnapRetry, ReleaseAll, Suspended, Acquire, Acquired, Consume, DiagGen,
   DiagDuration, DiagRange, DiagCheck, DiagRetry, DiagReturn, Load, LoadVersion, audioVars

(* A snapshot of the worker's generation starts where it was published.    *)
LEMMA PreparedFacts ==
  ASSUME PlayInv, Prepared
  PROVE  /\ adopted # decGen /\ rk' = "acquire" /\ r.pc = "idle" /\ UNCHANGED <<poolVars, workerVars>>
         /\ adopted' = decGen => pos' = published.frame
<1>1. /\ rk = "prepare" /\ r.pc = "idle" /\ rk' = "acquire" /\ UNCHANGED <<poolVars, workerVars>>
      /\ pos' = snap.frame /\ adopted' = snap.gen
  BY DEF Prepared, AudioAt
<1>2. adopted < decGen /\ (snap.gen = decGen => snap.frame = published.frame)
  BY <1>1 DEF PlayInv, Follows
<1>3. adopted \in Nat /\ decGen \in Nat
  BY Bounds DEF PlayInv, CoordinatorTypeOK, PlayTypeOK
<1> QED
  BY <1>1, <1>2, <1>3

LEMMA RenderFacts ==
  ASSUME PlayInv, AudioFits, NEW playing \in BOOLEAN, Render(playing)
  PROVE  /\ rk = "render" /\ rk' = "consume" /\ r.pc = "idle"
         /\ UNCHANGED <<poolVars, workerVars, adopted>>
         /\ \E p \in Nat : /\ p = pos \/ p \in LeasedFrames
                           /\ pos' \in Nat /\ p <= pos' /\ p .. pos' - 1 \subseteq LeasedFrames
<1>1. /\ rk = "render" /\ r.pc = "idle" /\ pos \in Nat
      /\ UNCHANGED <<poolVars, workerVars, adopted>> /\ rk' = "consume"
  BY FromFacts DEF Render, AudioAt
<1>2. PICK p \in {pos} \cup LeasedFrames : pos' = IF playing THEN Advance(p) ELSE p
  BY DEF Render
<1>3. p \in Nat
  BY <1>1, LeasedFrameInTrack
<1>4. Advance(p) \in p .. p + Quantum /\ p .. Advance(p) - 1 \subseteq LeasedFrames
  BY <1>3, AdvanceFacts
<1>5. pos' \in Nat /\ p <= pos' /\ p .. pos' - 1 \subseteq LeasedFrames
  <2>1. CASE playing
    BY <2>1, <1>2, <1>3, <1>4, FramesAssumption
  <2>2. CASE ~ playing
    BY <2>2, <1>2, <1>3
  <2> QED
    BY <2>1, <2>2
<1>6. /\ p = pos \/ p \in LeasedFrames
      /\ pos' \in Nat /\ p <= pos' /\ p .. pos' - 1 \subseteq LeasedFrames
  BY <1>2, <1>5
<1> QED
  BY <1>1, <1>3, <1>6

LEMMA LeasedFrameFacts ==
  ASSUME PlayInv, adopted = decGen, NEW f \in LeasedFrames
  PROVE  \E j \in leases : /\ OfGeneration(j) /\ j \in Slots /\ f < End(j) /\ start[j] <= f
                           /\ start[j] = audio[j].from /\ End(j) = audio[j].from + audio[j].frames
                           /\ End(j) \in Nat /\ f \in Nat
<1>1. PICK j \in leases : f \in start[j] .. End(j) - 1
  BY DEF LeasedFrames, FramesOf
<1>2. j \in Slots /\ OfGeneration(j)
  BY LeasesLive
<1>3. /\ start[j] = audio[j].from /\ start[j] \in Nat /\ audio[j].frames \in Nat
  <2>1. Resides(j) /\ PoolInv
    BY <1>2 DEF OfGeneration, PlayInv
  <2>2. start[j] \in Starts /\ audio[j].frames \in FrameCounts /\ start[j] = audio[j].from
    BY <1>2, <2>1 DEF PoolInv, SlotInv, TypeOK, PublishedWhole, Resides
  <2> QED
    BY <2>2, Bounds DEF FrameCounts
<1> QED
  BY <1>1, <1>2, <1>3 DEF End

LEMMA CoveredAudio ==
  ASSUME PlayInv, AudioFits, PlayInv', TileInv, Covered, Live => Position, [Next]_poolVars,
         AudioCallNext \/ AudioRuns
  PROVE  Covered'
<1>0. UNCHANGED <<decGen, w, audio, decoder, published, wk, refused, decState>>
  BY AudioStepsOnly DEF workerVars, PlayInv, PoolInv, SlotInv
<1>1. /\ From \in Nat /\ From' \in Nat /\ (Needed' => Needed) /\ decoder'.at = decoder.at
      /\ Filled => audio'[w.slot] = audio[w.slot] /\ Filled' /\ w'.slot = w.slot
      /\ Needed' /\ adopted = decGen => Live
  BY <1>0, FromFacts, FromFactsAfter DEF Needed, Filled, Live
<1>2. CASE ~ RenderSteps
  <2>1. From' = From /\ adopted' = adopted /\ pos' = pos
    BY <1>0, <1>2, PlaceKept DEF From
  <2>2. ASSUME NEW i \in Slots, OfGeneration(i), ~ OfGeneration(i)', Needed'
        PROVE  End(i) <= From'
    <3>1. ReleaseCas /\ i = r.at /\ i \in leases
      BY <2>2, AudioChunks
    <3>2. adopted = decGen
      BY <2>2, <3>1 DEF PlayInv, Leased, OfGeneration
    <3>3. Position /\ r.pc = "release"
      BY <3>1, <3>2, <2>2, <1>1 DEF ReleaseCas
    <3> QED
      BY <3>1, <3>2, <3>3, <2>1 DEF Position, From
  <2> QED
    BY <2>1, <2>2, <1>1, CoveredKept
<1>3. CASE Prepared
  <2>1. /\ adopted # decGen /\ UNCHANGED <<poolVars, workerVars>>
        /\ adopted' = decGen => pos' = published.frame
    BY <1>3, PreparedFacts
  <2>2. From' = From
    BY <2>1, <1>0 DEF From
  <2>3. \A i \in Slots : OfGeneration(i) => OfGeneration(i)'
    BY <2>1, <1>0 DEF OfGeneration, Resides, poolVars
  <2> QED
    BY <2>2, <2>3, <1>1, CoveredKept
<1>4. ASSUME NEW playing \in BOOLEAN, Render(playing) PROVE Covered'
  <2>1. /\ rk = "render" /\ UNCHANGED <<poolVars, adopted>>
    BY <1>4, RenderFacts
  <2>2. PICK p \in Nat : /\ p = pos \/ p \in LeasedFrames
                         /\ pos' \in Nat /\ p <= pos' /\ p .. pos' - 1 \subseteq LeasedFrames
    BY <1>4, RenderFacts
  <2>3. \A i \in Slots : OfGeneration(i) <=> OfGeneration(i)'
    BY <2>1, <1>0 DEF OfGeneration, Resides, poolVars
  <2>4. CASE adopted # decGen \/ p = pos
    <3>1. From' >= From
      BY <2>1, <2>2, <2>4, <1>0, <1>1 DEF From
    <3> QED
      BY <3>1, <2>3, <1>1, CoveredKept
  <2>5. CASE adopted = decGen /\ p \in LeasedFrames
    <3> SUFFICES ASSUME Needed', NEW f \in From' .. decoder'.at - 1
                 PROVE  \E i \in Slots : Covers(i, f)'
      BY DEF Covered
    <3>1. f \in Nat /\ pos' <= f /\ f <= decoder.at - 1 /\ p <= f /\ pos \in Nat
          /\ From = pos /\ decoder.at \in Nat
      BY <2>1, <2>2, <2>5, <1>0, <1>1, FromFacts DEF From
    <3>2. \E i \in Slots : Covers(i, f)
      <4>1. CASE f >= pos
        BY <4>1, <3>1, <1>1 DEF Covered
      <4>2. CASE f < pos
        <5>1. PICK j \in leases :
                /\ OfGeneration(j) /\ j \in Slots /\ p < End(j) /\ start[j] <= p
                /\ start[j] = audio[j].from /\ End(j) = audio[j].from + audio[j].frames
                /\ End(j) \in Nat
          BY <2>5, LeasedFrameFacts
        <5>2. End(j) > pos
          BY <5>1, <2>1, <2>5, <1>1 DEF Position
        <5>3. audio[j].from \in Nat
          <6>1. audio[j].from \in Starts
            BY <5>1 DEF PlayInv, PoolInv, SlotInv, TypeOK
          <6> QED
            BY <6>1, Bounds
        <5> QED
          BY <5>1, <5>2, <5>3, <4>2, <3>1 DEF Covers
      <4> QED
        BY <4>1, <4>2, <3>1
    <3> QED
      BY <3>2, <2>3, <1>0 DEF Covers, Filled
  <2> QED
    BY <2>2, <2>4, <2>5
<1> QED
  BY <1>2, <1>3, <1>4 DEF RenderSteps

LEMMA AllLeased ==
  ASSUME leases \subseteq Slots, Cardinality(leases) = ChunkCount
  PROVE  leases = Slots
<1>1. IsFiniteSet(Slots) /\ Cardinality(Slots) = ChunkCount
  <2>1. 0 \in Int /\ ChunkCount - 1 \in Int /\ ~ (0 > ChunkCount - 1)
    OBVIOUS
  <2>2. IsFiniteSet(0 .. ChunkCount - 1) /\ Cardinality(0 .. ChunkCount - 1) = ChunkCount - 1 - 0 + 1
    BY <2>1, FS_Interval
  <2> QED
    BY <2>2 DEF Slots
<1> QED
  BY <1>1, FS_Subset

(* A step of the scan for chunks of the generation being played: a slot it *)
(* passes holds none that the renderer has not leased.                     *)
LEMMA ScanOn ==
  ASSUME PlayInv, Live, Ahead, [Next]_poolVars, AcquireCas \/ AcquireCheck,
         UNCHANGED <<workerVars, audioVars>>
  PROVE  Ahead'
<1>0. /\ r \in RendererCalls /\ r.at \in Slots /\ rk = "acquired" /\ rk' = rk
      /\ r.pc \in Acquiring /\ r.gen = decGen /\ UNCHANGED <<decGen, gen, start, audio>>
      /\ state \in [Slots -> SlotState]
  BY DEF PlayInv, PoolInv, SlotInv, TypeOK, RendererCalls, AudioPlace, AcquireCas, AcquireCheck,
     Acquiring, Live, Leased, workerVars, audioVars, fields
<1>1. Scanned = {i \in Slots : i < r.at}
  BY <1>0 DEF Scanned, Acquiring
<1>2. \A i \in Slots : OfGeneration(i)' => OfGeneration(i)
  BY <1>0 DEF AcquireCas, AcquireCheck, OfGeneration, Resides
<1>3. \A i \in Slots : End(i)' = End(i)
  BY <1>0 DEF End
<1>4. ASSUME r' = NextAcquire, leases' = leases, OfGeneration(r.at) => r.at \in leases
      PROVE  Ahead'
  <2>1. Scanned' \subseteq Scanned \cup {r.at}
    <3>1. r.at \in Nat /\ \A i \in Slots : i \in Nat /\ i < ChunkCount
      BY <1>0 DEF Slots
    <3>2. CASE r.at + 1 < ChunkCount
      <4>1. r'.pc = "acquire" /\ r'.at = r.at + 1
        BY <3>2, <1>4, <1>0 DEF NextAcquire, RendererCalls
      <4> QED
        BY <4>1, <3>1, <1>0, <1>1 DEF Scanned, Acquiring
    <3>3. CASE ~ (r.at + 1 < ChunkCount)
      BY <3>1, <3>3, <1>1 DEF Scanned
    <3> QED
      BY <3>2, <3>3
  <2>2. ASSUME NEW i \in Scanned' \ leases', OfGeneration(i)', NEW j \in leases'
        PROVE  End(j)' <= start'[i]
    <3>1. i \in Slots /\ OfGeneration(i) /\ i \notin leases /\ j \in leases /\ j \in Slots
      BY <2>2, <1>2, <1>4 DEF Scanned, PlayInv, PoolInv, SlotInv, TypeOK
    <3>2. i \in Scanned
      BY <2>1, <3>1, <1>4
    <3>3. End(j) <= start[i]
      BY <3>1, <3>2 DEF Ahead
    <3> QED
      BY <3>1, <3>3, <1>0, <1>3
  <2> QED
    BY <2>2 DEF Ahead
<1>5. CASE AcquireCas
  <2>1. r.pc = "acquire" /\ leases' = leases
    BY <1>5 DEF AcquireCas
  <2>2. CASE state[r.at] = "Ready" /\ r' = [r EXCEPT !.pc = "acquireCheck"]
    <3>1. r'.pc = "acquireCheck" /\ r'.at = r.at
      BY <2>2, <1>0 DEF RendererCalls
    <3>2. Scanned' = Scanned
      BY <3>1, <1>0, <1>1 DEF Scanned, Acquiring
    <3>3. ASSUME NEW i \in Scanned \ leases, OfGeneration(i)', NEW j \in leases
          PROVE  End(j)' <= start'[i]
      <4>1. i \in Slots /\ j \in Slots
        BY <1>1 DEF PlayInv, PoolInv, SlotInv, TypeOK
      <4> QED
        BY <3>3, <4>1, <1>0, <1>2, <1>3 DEF Ahead
    <3> QED
      BY <3>2, <3>3, <2>1 DEF Ahead
  <2>3. CASE state[r.at] # "Ready" /\ r' = NextAcquire
    <3>1. wk # "publish" /\ w.pc # "discardCheck"
      BY DEF Live, PlayInv, Follows, Behind, WorkerPlace, CoordinatorTypeOK, PlayTypeOK, Generations
    <3>2. state[r.at] = "Reading" => r.at \in leases
      BY <1>0, <2>1, <3>1 DEF PlayInv, PoolInv, SlotInv, ExclusiveAudio, Discards, Probes, Leases
    <3>3. OfGeneration(r.at) => r.at \in leases
      BY <2>3, <3>2 DEF OfGeneration, Resides
    <3> QED
      BY <3>3, <2>1, <2>3, <1>4
  <2> QED
    BY <1>5, <2>2, <2>3 DEF AcquireCas
<1>6. CASE AcquireCheck
  <2>1. CASE gen[r.at] = r.gen /\ r' = RIdle(r.at)
    <3>1. r'.pc = "idle" /\ r'.slot # NoSlot
      BY <2>1, <1>0, SlotFacts DEF RIdle
    <3>2. Scanned' = {}
      BY <3>1, <1>0 DEF Scanned, Acquiring
    <3> QED
      BY <3>2 DEF Ahead
  <2>2. CASE gen[r.at] # r.gen /\ r' = NextAcquire /\ leases' = leases
    <3>1. ~ OfGeneration(r.at)
      BY <2>2, <1>0 DEF OfGeneration
    <3> QED
      BY <3>1, <2>2, <1>4
  <2> QED
    BY <1>6, <2>1, <2>2 DEF AcquireCheck
<1> QED
  BY <1>5, <1>6

(* A step that leaves the position where it is, and the leases that are    *)
(* still to be released.                                                   *)
LEMMA PositionSame ==
  ASSUME PlayInv, [Next]_poolVars, AudioCallNext \/ AudioRuns, Live, Position, pos' = pos,
         \A i \in leases : OfGeneration(i)' /\ End(i) <= pos => rk' = "consume" /\ i \in leases',
         r'.pc = "release" => r'.at \in leases /\ start[r'.at] + audio[r'.at].frames <= pos
  PROVE  Position'
<1>1. /\ UNCHANGED <<decoder, wk, w, start, audio>> /\ pos \in Nat
  BY AudioStepsOnly, FromFacts DEF workerVars, PlayInv, PoolInv, SlotInv
<1>2. pos' <= decoder'.at /\ (Filled' => pos' <= LastFrom')
  BY <1>1 DEF Position, Filled, LastFrom
<1>3. ASSUME NEW i \in Slots, OfGeneration(i)'
      PROVE  End(i)' > pos' \/ (rk' = "consume" /\ i \in leases')
  <2>1. OfGeneration(i) /\ End(i)' = End(i) /\ End(i) \in Nat
    BY <1>3, AudioChunks
  <2>2. End(i) > pos \/ i \in leases
    BY <2>1 DEF Position
  <2> QED
    BY <1>1, <1>3, <2>1, <2>2
<1>4. (r.pc = "release" => End(r.at) <= pos)'
  BY <1>1 DEF End
<1> QED
  BY <1>2, <1>3, <1>4 DEF Position

LEMMA PositionAudio ==
  ASSUME PlayInv, AudioFits, PlayInv', TileInv, Live => Position /\ Ahead, [Next]_poolVars,
         AudioCallNext \/ AudioRuns, ~ RenderSteps
  PROVE  (Live => Position /\ Ahead)'
<1> SUFFICES ASSUME Live' PROVE Position' /\ Ahead'
  OBVIOUS
<1>0. /\ UNCHANGED <<decGen, refused, w, audio, start, gen>> /\ pos' = pos /\ adopted' = adopted
      /\ leases \subseteq Slots /\ r \in RendererCalls
  BY AudioStepsOnly, PlaceKept DEF workerVars, PlayInv, PoolInv, SlotInv, TypeOK
<1>1. Live /\ Position /\ Ahead /\ ~ Behind
  <2>1. Live
    BY <1>0 DEF Live
  <2>2. ~ Behind
    BY <2>1, FromFacts DEF Live, Behind
  <2> QED
    BY <2>1, <2>2
<1>2. \A i \in leases : rk # "consume" => End(i) > pos /\ End(i) \in Nat
  BY <1>0, <1>1, LeasesLive, AudioChunks DEF Position, Live
<1>3. ASSUME rk # "consume", r'.pc # "release" PROVE Position'
  BY <1>0, <1>1, <1>2, <1>3, FromFacts, PositionSame
<1>4. ASSUME Scanned' = {} PROVE Ahead'
  BY <1>4 DEF Ahead
<1>5. ASSUME UNCHANGED poolVars, r.pc = "idle", rk # "consume", rk' \notin {"render", "acquired"}
      PROVE  Position' /\ Ahead'
  <2>1. r'.pc = "idle"
    BY <1>5 DEF poolVars
  <2> QED
    BY <1>3, <1>4, <1>5, <2>1 DEF Scanned
<1>6. CASE AudioCallNext
  BY <1>5, <1>6 DEF AudioCallNext, RenderCall, DiagnosticsCall, LoadVersion, AudioAt
<1>7. CASE SnapGen \/ SnapFrame \/ SnapChannels \/ SnapCheck \/ SnapRetry \/ Suspended
           \/ DiagGen \/ DiagDuration \/ DiagCheck \/ DiagRetry \/ DiagReturn
  BY <1>5, <1>7 DEF SnapGen, SnapFrame, SnapChannels, SnapCheck, SnapRetry, Suspended, DiagGen,
     DiagDuration, DiagCheck, DiagRetry, DiagReturn, Load, LoadVersion, AudioAt
<1>8. ASSUME NEW pc \in {"suspend", "prepare"}, ReleaseAll(pc) PROVE FALSE
  BY <1>8, <1>1 DEF ReleaseAll, AudioAt, PlayInv, Follows
<1>9. CASE DiagRange
  <2>1. r'.pc = "rangeState" /\ rk = "diagRange" /\ rk' = "diagCheck"
    BY <1>9 DEF DiagRange, RangeCall, RIdle, AudioAt
  <2> QED
    BY <2>1, <1>3, <1>4 DEF Scanned
<1>10. CASE Acquire
  <2>1. CASE rk' = "acquired" /\ AcquireCall(renderGen)
    <3>1. r'.pc = "acquire" /\ r'.at = 0 /\ rk = "acquire"
      BY <1>10, <2>1 DEF Acquire, AcquireCall, RIdle, AudioAt
    <3>2. Scanned' = {}
      BY <3>1, <2>1, SlotFacts DEF Scanned, Slots
    <3> QED
      BY <3>1, <3>2, <1>3, <1>4
  <2>2. CASE Cardinality(leases) = ChunkCount /\ rk' = "render" /\ UNCHANGED poolVars
    <3>1. leases' = Slots /\ r'.pc = "idle" /\ rk = "acquire"
      BY <2>2, <1>0, <1>10, AllLeased DEF poolVars, Acquire, AudioAt
    <3>2. Scanned' \ leases' = {}
      BY <3>1 DEF Scanned
    <3> QED
      BY <3>1, <3>2, <1>3 DEF Ahead
  <2> QED
    BY <1>10, <2>1, <2>2 DEF Acquire
<1>11. CASE Acquired
  <2>1. rk = "acquired" /\ r.pc = "idle" /\ UNCHANGED poolVars
        /\ rk' = IF r.slot = NoSlot THEN "render" ELSE "acquire"
    BY <1>11 DEF Acquired, AudioAt
  <2>2. r'.pc = "idle" /\ UNCHANGED <<state, leases>>
    BY <2>1 DEF poolVars
  <2>3. Scanned' \subseteq Scanned
    BY <2>1, <2>2 DEF Scanned
  <2>4. ASSUME NEW i \in Scanned' \ leases', OfGeneration(i)', NEW j \in leases'
        PROVE  End(j)' <= start'[i]
    <3>1. i \in Scanned \ leases /\ OfGeneration(i) /\ j \in leases
      BY <2>2, <2>3, <2>4, <1>0 DEF OfGeneration, Resides
    <3> QED
      BY <3>1, <1>0, <1>1 DEF Ahead, End
  <2>5. Ahead'
    BY <2>4 DEF Ahead
  <2> QED
    BY <2>1, <2>2, <2>5, <1>3
<1>12. CASE Consume
  <2>1. rk = "consume" /\ r.pc = "idle" /\ rk' \in {"consume", "idle"}
    BY <1>12 DEF Consume, AudioAt
  <2>2. Ahead'
    BY <2>1, <1>4 DEF Scanned
  <2>3. ASSUME NEW i \in Consumed, ReleaseCall(i), rk' = rk PROVE Position'
    <3>1. r'.pc = "release" /\ r'.at = i /\ leases' = leases /\ i \in leases
      BY <2>3 DEF ReleaseCall, RIdle
    <3>2. start[i] + audio[i].frames <= pos
      BY DEF Consumed, End
    <3> QED
      BY <3>1, <3>2, <2>1, <2>3, <1>0, <1>1, PositionSame
  <2>4. CASE Consumed = {} /\ UNCHANGED poolVars
    <3>1. r'.pc = "idle"
      BY <2>1, <2>4 DEF poolVars
    <3>2. \A i \in leases : ~ (End(i) <= pos)
      BY <2>4 DEF Consumed
    <3> QED
      BY <3>1, <3>2, <2>2, <1>0, <1>1, PositionSame
  <2> QED
    BY <1>12, <2>2, <2>3, <2>4 DEF Consume
<1>13. CASE RendererStep /\ UNCHANGED <<workerVars, audioVars>>
  <2>1. TypeOK /\ CallShape /\ rk' = rk
    BY <1>13 DEF PlayInv, PoolInv, SlotInv, audioVars
  <2>2. /\ r.pc \in Acquiring \cup Releasing \cup Ranging
        /\ r.pc \in Acquiring => r'.pc # "release"
        /\ r.pc \in Ranging => r'.pc # "release"
    BY <2>1, <1>13, RendererStaysInCall DEF Acquiring, Ranging
  <2>3. CASE r.pc \in Acquiring
    <3>1. rk = "acquired"
      BY <2>3 DEF PlayInv, AudioPlace, Acquiring
    <3>2. AcquireCas \/ AcquireCheck
      BY <2>3, <1>13 DEF RendererStep, ReleaseCas, ReleaseSub, RangeState, RangeGen, RangeStart,
         RangeCount, RangeCheck, Acquiring
    <3>3. Ahead'
      BY <3>2, <1>1, <1>13, ScanOn
    <3> QED
      BY <3>1, <3>3, <2>2, <2>3, <1>3
  <2>4. CASE r.pc \in Ranging
    <3>1. rk = "diagCheck"
      BY <2>4 DEF PlayInv, AudioPlace, Ranging
    <3> QED
      BY <3>1, <2>1, <2>2, <2>4, <1>3, <1>4 DEF Scanned
  <2>5. CASE r.pc \in Releasing
    <3>1. rk = "consume"
      BY <2>5, <1>1 DEF PlayInv, AudioPlace, Releasing, Follows
    <3>2. Ahead'
      BY <3>1, <2>1, <1>4 DEF Scanned
    <3>3. CASE ReleaseSub
      <4>1. r'.pc = "idle" /\ leases' = leases
        BY <3>3 DEF ReleaseSub, RIdle
      <4> QED
        BY <4>1, <3>1, <3>2, <2>1, <1>0, <1>1, PositionSame
    <3>4. CASE ReleaseCas
      <4>1. r'.pc # "release" /\ r.at \in leases /\ leases' = leases \ {r.at}
        BY <3>4, <2>1, <1>0 DEF ReleaseCas, CallShape, RendererCalls, RIdle
      <4>2. ~ Resides(r.at) \/ state' = [state EXCEPT ![r.at] = "Free"]
        <5>1. state[r.at] = "Reading"
          BY <4>1, <1>0 DEF PlayInv, PoolInv, SlotInv, ExclusiveAudio, Leases
        <5> QED
          BY <5>1, <3>4 DEF ReleaseCas
      <4>3. state[r.at] = "Reading" /\ state \in [Slots -> SlotState]
        BY <4>1, <1>0, <2>1 DEF PlayInv, PoolInv, SlotInv, ExclusiveAudio, Leases, TypeOK
      <4>4. \A i \in leases : i \in leases' \/ ~ OfGeneration(i)'
        BY <4>1, <4>2, <4>3, <1>0 DEF OfGeneration, Resides
      <4> QED
        BY <4>1, <4>4, <3>1, <3>2, <2>1, <1>0, <1>1, PositionSame
    <3> QED
      BY <2>5, <3>3, <3>4, <1>13 DEF RendererStep, AcquireCas, AcquireCheck, RangeState, RangeGen,
         RangeStart, RangeCount, RangeCheck, Releasing
  <2> QED
    BY <2>2, <2>3, <2>4, <2>5
<1> QED
  BY <1>6, <1>7, <1>8, <1>9, <1>10, <1>11, <1>12, <1>13 DEF AudioRuns, RenderSteps

(* Rendering moves the position within the leased frames.                  *)
LEMMA PositionRender ==
  ASSUME PlayInv, AudioFits, PlayInv', TileInv, Live => Position /\ Ahead, [Next]_poolVars,
         AudioRuns, NEW playing \in BOOLEAN, Render(playing)
  PROVE  (Live => Position /\ Ahead)'
<1> SUFFICES ASSUME Live' PROVE Position' /\ Ahead'
  OBVIOUS
<1>0. /\ rk = "render" /\ rk' = "consume" /\ r.pc = "idle"
      /\ UNCHANGED <<poolVars, workerVars, adopted>>
  BY RenderFacts
<1>1. Live /\ Position /\ Ahead /\ adopted = decGen /\ pos \in Nat /\ decoder.at \in Nat
  BY <1>0, FromFacts DEF Live, workerVars
<1>2. PICK p \in Nat : /\ p = pos \/ p \in LeasedFrames
                       /\ pos' \in Nat /\ p <= pos' /\ p .. pos' - 1 \subseteq LeasedFrames
  BY RenderFacts
<1>3. pos' = pos \/ \E j \in leases : pos' <= End(j)
  <2>1. CASE pos' = p
    <3>1. CASE p = pos
      BY <2>1, <3>1
    <3>2. CASE p \in LeasedFrames
      <4>1. PICK j \in leases : p < End(j) /\ End(j) \in Nat
        BY <3>2, <1>1, LeasedFrameFacts
      <4> QED
        BY <4>1, <2>1, <1>2
    <3> QED
      BY <3>1, <3>2, <1>2
  <2>2. CASE pos' # p
    <3>1. pos' - 1 \in LeasedFrames
      <4>1. p \in Nat /\ pos' \in Nat /\ p <= pos' /\ p .. pos' - 1 \subseteq LeasedFrames
        BY <1>2
      <4>2. \A a, b \in Nat : a <= b /\ b # a => b - 1 \in a .. b - 1
        OBVIOUS
      <4>3. pos' - 1 \in p .. pos' - 1
        BY <4>1, <4>2, <2>2
      <4> QED
        BY <4>1, <4>3
    <3>2. PICK j \in leases : pos' - 1 < End(j) /\ End(j) \in Nat
      BY <3>1, <1>1, LeasedFrameFacts
    <3> QED
      BY <3>2, <1>2
  <2> QED
    BY <2>1, <2>2
<1>4. \A j \in leases : /\ End(j) <= decoder.at /\ End(j) \in Nat /\ (Filled => End(j) <= LastFrom)
  <2>1. \A j \in leases : j \in Slots /\ OfGeneration(j)
    BY <1>1, LeasesLive
  <2> QED
    BY <2>1, AudioChunks DEF TileInv, Tiled, Placed
<1>5. pos' <= decoder.at /\ (Filled => pos' <= LastFrom)
  <2>1. Filled => LastFrom \in Nat
    BY LastFromNat
  <2> QED
    BY <2>1, <1>1, <1>2, <1>3, <1>4 DEF Position
<1>6. ASSUME NEW i \in Slots, OfGeneration(i), i \notin leases PROVE End(i) > pos'
  <2>1. End(i) > pos
    BY <1>6, <1>0, <1>1 DEF Position
  <2>2. ASSUME NEW j \in leases, pos' <= End(j) PROVE End(i) > pos'
    <3>1. End(j) <= start[i]
      BY <1>0, <1>1, <1>6 DEF Ahead, Scanned
    <3>2. audio[i].frames >= 1 /\ start[i] \in Nat /\ audio[i].frames \in Nat
      BY <1>6, ChunkFrame DEF OfGeneration, TileInv, Tiled, Placed
    <3>3. End(i) = start[i] + audio[i].frames
      BY DEF End
    <3> QED
      BY <2>2, <3>1, <3>2, <3>3, <1>2, <1>4
  <2> QED
    BY <2>1, <2>2, <1>3
<1>7. Position'
  <2>1. UNCHANGED <<decoder, wk, w, audio, start, gen, state, decGen, leases, r>>
    BY <1>0 DEF poolVars, workerVars
  <2>2. pos' <= decoder'.at /\ (Filled' => pos' <= LastFrom')
    BY <2>1, <1>5 DEF Filled, LastFrom
  <2>3. ASSUME NEW i \in Slots, OfGeneration(i)'
        PROVE  End(i)' > pos' \/ (rk' = "consume" /\ i \in leases')
    <3>1. OfGeneration(i) /\ End(i)' = End(i)
      BY <2>1, <2>3 DEF OfGeneration, Resides, End
    <3> QED
      BY <3>1, <2>1, <1>0, <1>6
  <2>4. (r.pc = "release" => End(r.at) <= pos)'
    BY <2>1, <1>0
  <2> QED
    BY <2>2, <2>3, <2>4 DEF Position
<1>8. Scanned' = {}
  BY <1>0 DEF Scanned
<1> QED
  BY <1>7, <1>8 DEF Ahead

(* The generation that is adopted has not been played.                     *)
LEMMA PositionPrepared ==
  ASSUME PlayInv, PlayInv', TileInv, Prepared
  PROVE  (Live => Position /\ Ahead)'
<1> SUFFICES ASSUME Live' PROVE Position' /\ Ahead'
  OBVIOUS
<1>0. /\ rk' = "acquire" /\ r.pc = "idle" /\ UNCHANGED <<poolVars, workerVars>>
      /\ adopted' = decGen => pos' = published.frame
  BY PreparedFacts
<1>1. UNCHANGED <<decoder, wk, w, audio, start, gen, state, decGen, leases, r, refused, published>>
  BY <1>0 DEF poolVars, workerVars
<1>2. pos' = published.frame /\ ~ refused
  BY <1>0, <1>1 DEF Live
<1>3. wk # "publish"
  BY <1>1 DEF Live, PlayInv, Follows, Behind, CoordinatorTypeOK, PlayTypeOK, Generations
<1>4. pos' <= decoder.at /\ (Filled => pos' <= LastFrom)
  BY <1>2, <1>3 DEF PlayInv, StoresFit, TileInv, Tiled
<1>5. pos' <= decoder'.at /\ (Filled' => pos' <= LastFrom')
  BY <1>1, <1>4 DEF Filled, LastFrom
<1>6. ASSUME NEW i \in Slots, OfGeneration(i)' PROVE End(i)' > pos'
  <2>1. OfGeneration(i) /\ End(i)' = End(i)
    BY <1>1, <1>6 DEF OfGeneration, Resides, End
  <2>2. audio[i].frames >= 1 /\ published.frame <= start[i]
    BY <2>1 DEF TileInv, Tiled, Placed
  <2>3. start[i] \in Nat /\ audio[i].frames \in Nat /\ published.frame \in Nat
    <3>1. start[i] \in Starts /\ audio[i].frames \in FrameCounts
      BY DEF PlayInv, PoolInv, SlotInv, TypeOK
    <3> QED
      BY <3>1, FromFacts, Bounds DEF FrameCounts
  <2> QED
    BY <2>1, <2>2, <2>3, <1>2 DEF End
<1>7. (r.pc = "release" => End(r.at) <= pos)'
  BY <1>0, <1>1
<1>8. Position'
  BY <1>5, <1>6, <1>7 DEF Position
<1>9. Scanned' = {}
  BY <1>0, <1>1 DEF Scanned, Acquiring
<1> QED
  BY <1>8, <1>9 DEF Ahead

LEMMA PositionStep ==
  ASSUME PlayInv, AudioFits, PlayInv', TileInv, PositionInv, [PlayNext]_vars
  PROVE  PositionInv'
<1>0. [Next]_poolVars /\ (Live => Position /\ Ahead) /\ Covered
  BY PoolDriven DEF PositionInv
<1>1. CASE WorkerCallNext \/ WorkerRuns
  BY <1>0, <1>1, CoveredWorker, PositionWorker DEF PositionInv
<1>2. CASE AudioCallNext \/ AudioRuns
  <2>1. Covered'
    BY <1>0, <1>2, CoveredAudio
  <2>2. CASE ~ RenderSteps
    BY <1>0, <1>2, <2>1, <2>2, PositionAudio DEF PositionInv
  <2>3. CASE Prepared
    BY <2>1, <2>3, PositionPrepared DEF PositionInv
  <2>4. ASSUME NEW playing \in BOOLEAN, Render(playing) PROVE PositionInv'
    <3>1. AudioRuns
      BY <2>4 DEF AudioRuns
    <3> QED
      BY <1>0, <2>1, <2>4, <3>1, PositionRender DEF PositionInv
  <2> QED
    BY <2>2, <2>3, <2>4 DEF RenderSteps
<1>3. CASE UNCHANGED vars
  <2>1. UNCHANGED <<decoder, wk, w, audio, start, gen, state, decGen, leases, r, refused, published,
                    decState, adopted, pos, rk>>
    BY <1>3 DEF vars, poolVars, workerVars, audioVars
  <2> QED
    BY <2>1 DEF PositionInv, Live, Position, Ahead, Covered, Needed, From, Covers, Scanned, Filled,
       LastFrom, OfGeneration, Resides, End
<1> QED
  BY <1>1, <1>2, <1>3 DEF PlayNext

(* Once the renderer has adopted the worker's generation, every frame from *)
(* its position to the decoder's is in a chunk that is in the pool, or in  *)
(* the one being published (decode_ahead.hpp fills, discard_before_genera- *)
(* tion and release_consumed empty): nothing that was decoded is lost,     *)
(* unless a seek of this generation was refused.                           *)
THEOREM NothingIsLost == PlaySpec => []NoHoleUnlessRefused
<1>1. Init => TileInv /\ PositionInv
  <2> SUFFICES ASSUME Init PROVE PositionInv
    BY TileStarts
  <2>1. /\ \A i \in Slots : state[i] = "Free"
        /\ wk = "idle" /\ rk = "idle" /\ pos = 0 /\ decoder.at = 0 /\ r.pc = "idle" /\ decState = "Closed"
    BY DEF Init, PoolInit, Closed, RIdle
  <2> QED
    BY <2>1 DEF PositionInv, Position, Ahead, Scanned, Covered, Needed, OfGeneration, Resides, Filled
<1>2. /\ CoordinatorInv /\ CoordinatorInv' /\ TileInv /\ PositionInv /\ [PlayNext]_vars
      => TileInv' /\ PositionInv'
  BY TileStep, PositionStep DEF CoordinatorInv
<1>3. CoordinatorInv /\ TileInv /\ PositionInv => NoHoleUnlessRefused
  <2> SUFFICES ASSUME CoordinatorInv, TileInv, PositionInv, ~ refused, adopted = decGen,
                      decState \in {"Ready", "EndOfStream"}, wk # "refillError",
                      NEW f \in pos .. decoder.at - 1
               PROVE  \E i \in Held : f \in audio[i].from .. audio[i].from + audio[i].frames - 1
    BY DEF NoHoleUnlessRefused, NoHole, Between
  <2>1. PlayInv
    BY DEF CoordinatorInv
  <2>2. wk # "publish"
    BY <2>1, FromFacts DEF PlayInv, Follows, Behind
  <2>3. Needed /\ From = pos
    BY <2>2 DEF Needed, From
  <2>4. PICK i \in Slots : Covers(i, f)
    BY <2>3 DEF PositionInv, Covered
  <2>5. i \in Held
    BY <2>4 DEF Covers, Held, Resident, OfGeneration, Resides, Filled
  <2>6. audio[i].from \in Nat /\ audio[i].frames \in Nat /\ f \in Nat
    <3>1. audio[i].from \in Starts /\ audio[i].frames \in FrameCounts
      BY <2>1 DEF PlayInv, PoolInv, SlotInv, TypeOK
    <3> QED
      BY <3>1, <2>1, FromFacts, Bounds DEF FrameCounts
  <2> QED
    BY <2>4, <2>5, <2>6 DEF Covers
<1> QED
  BY <1>1, <1>2, <1>3, PlayInvariant, PTL DEF PlaySpec
=============================================================================
