----------------------------- MODULE AudioFilePlayer -----------------------------
(***************************************************************************)
(* The file player module (modules/audio_file_player.hpp) around           *)
(* PreparedPlayback: command handlers and lifecycle callbacks leave one    *)
(* request under request_mutex_, the worker loop takes and executes it,    *)
(* process renders and hands seek intents to the worker in two atomics.    *)
(*                                                                         *)
(* Four actors: command threads (Handle...), CommRaT's lifecycle (On...),  *)
(* the worker (loop), the audio thread (process).  A region under          *)
(* request_mutex_ is one step; every other shared access is a step.        *)
(*                                                                         *)
(* An intent is kept as the track it was computed for, the frame is left   *)
(* out.  Tempo analysis and the quantizer are components of their own.     *)
(*                                                                         *)
(* M_X is a plausible bug in X: the properties are checked to notice it.   *)
(***************************************************************************)
EXTENDS PreparedPlayback

CONSTANTS
  MaxCalls,     \* bound on the commands, lifecycle callbacks and seek intents, together
  Commands,     \* the commands clients send: subset of {"Load", "Seek", "Unload"}
  Lifecycle,    \* callbacks used: subset of {"Enable", "Disable", "Stop"}
  ProtectLoads  \* parameter protect_playing_loads

ASSUME CallsAssumption == MaxCalls \in Nat
ASSUME CommandsAssumption == /\ Commands \subseteq {"Load", "Seek", "Unload"}
                             /\ Lifecycle \subseteq {"Enable", "Disable", "Stop"}
ASSUME ProtectAssumption == ProtectLoads \in BOOLEAN

VARIABLES
  pending,        \* pending_request_
  lifecycle,      \* lifecycle_request_
  inProgress,     \* request_in_progress_
  counter,        \* load_request_counter_
  request,        \* worker_loop: request
  loop,           \* worker_loop: what it does next
  stopping,       \* stop_requested
  transportSeek,  \* transport_seek_frame_
  cueSeek,        \* cue_seek_frame_
  accepted,       \* history: load requests a handler accepted
  calls           \* how much of MaxCalls is used

requests == <<pending, lifecycle, inProgress, counter, accepted>>
seeks == <<transportSeek, cueSeek>>
playerVars == <<preparedVars, requests, request, loop, stopping, seeks, calls>>

NoRequest == [type |-> "None", id |-> 0, protect |-> TRUE]
Request(type, id, prot) == [type |-> type, id |-> id, protect |-> prot]
NoSeek == MaxRequest + 1                      \* no_transport_seek

PlayerInit ==
  /\ PreparedInit
  /\ pending = NoRequest /\ lifecycle = NoRequest
  /\ inProgress = FALSE /\ counter = 0 /\ accepted = {}
  /\ request = NoRequest /\ loop = "off" /\ stopping = FALSE
  /\ transportSeek = NoSeek /\ cueSeek = NoSeek
  /\ calls = 0

----------------------------------------------------------------------------
(* Command handlers, on CommRaT's command threads *)

Busy == pending.type # "None" \/ inProgress \/ lifecycle.type # "None"

Call(who, kinds) ==
  /\ who \in kinds /\ calls < MaxCalls /\ calls' = calls + 1
  /\ UNCHANGED <<preparedVars, request, seeks>>

M_Exhausted == FALSE
Exhausted == counter = MaxRequest

(* A busy player or an exhausted ID counter rejects and changes nothing. *)
HandleLoad ==
  /\ Call("Load", Commands)
  /\ ~ Busy /\ ~ Exhausted
  /\ counter' = counter + 1
  /\ pending' = Request("Load", counter', ProtectLoads)
  /\ accepted' = accepted \union {counter'}
  /\ UNCHANGED <<lifecycle, inProgress, loop, stopping>>

(* enqueue, for SeekMedia and UnloadMedia *)
HandleOther(type) ==
  /\ Call(type, Commands)
  /\ ~ Busy
  /\ pending' = Request(type, 0, TRUE)
  /\ UNCHANGED <<lifecycle, inProgress, counter, accepted, loop, stopping>>

----------------------------------------------------------------------------
(* Lifecycle callbacks, one at a time.  enqueue_lifecycle overwrites what is *)
(* there; a load is never protected.  With its IDs exhausted it leaves a     *)
(* request without an ID behind and throws.                                  *)

Running == loop # "off" /\ ~ stopping

OnEnable ==
  /\ Call("Enable", Lifecycle) /\ Running
  /\ \/ /\ ~ Exhausted
        /\ counter' = counter + 1
        /\ lifecycle' = Request("Load", counter', FALSE)
     \/ /\ Exhausted
        /\ lifecycle' = Request("Load", 0, TRUE) /\ UNCHANGED counter
  /\ UNCHANGED <<pending, inProgress, accepted, loop, stopping>>

OnDisable ==
  /\ Call("Disable", Lifecycle) /\ Running
  /\ lifecycle' = Request("Unload", 0, TRUE)
  /\ UNCHANGED <<pending, inProgress, counter, accepted, loop, stopping>>

OnStart ==
  /\ loop = "off" /\ loop' = "top"
  /\ UNCHANGED <<preparedVars, requests, request, stopping, seeks, calls>>

(* on_stop: ask the worker to stop and join it; render has stopped. *)
OnStop ==
  /\ Call("Stop", Lifecycle) /\ Running /\ au.pc = "idle"
  /\ stopping' = TRUE
  /\ UNCHANGED <<requests, loop>>

OnStopClear ==
  /\ loop = "exited"
  /\ IF pending.type = "Load" THEN CancelRequestCall(pending.id) ELSE UNCHANGED preparedVars
  /\ pending' = NoRequest /\ lifecycle' = NoRequest /\ inProgress' = FALSE
  /\ loop' = "joined"
  /\ UNCHANGED <<counter, accepted, request, stopping, seeks, calls>>

OnStopShutdown ==
  /\ loop = "joined" /\ op.pc = "idle"
  /\ Shutdown
  /\ loop' = "off" /\ stopping' = FALSE
  /\ UNCHANGED <<requests, request, seeks, calls>>

----------------------------------------------------------------------------
(* worker_loop.  A call of PreparedPlayback runs to its end (op.pc = "idle") *)
(* before the loop goes on.                                                  *)

At(pc) == loop = pc /\ op.pc = "idle"
Stay == UNCHANGED <<stopping, calls>>

LoopTop ==
  /\ At("top")
  /\ \/ stopping /\ loop' = "exited" /\ UNCHANGED preparedVars
     \/ ~ stopping /\ RefillCall /\ loop' = "pending?"
  /\ UNCHANGED <<requests, request, seeks>> /\ Stay

(* A lifecycle request withdraws a load the renderer has not claimed yet;    *)
(* otherwise the loop waits for the answer.                                  *)
LoopPending ==
  /\ At("pending?")
  /\ IF ~ Pending THEN loop' = "take" /\ UNCHANGED preparedVars
     ELSE /\ loop' = "top"
          /\ IF lifecycle.type # "None" THEN CancelLoadCall ELSE UNCHANGED preparedVars
  /\ UNCHANGED <<requests, request, seeks>> /\ Stay

(* The mutex region: a lifecycle request goes first and cancels a queued load. *)
M_CancelQueued == UNCHANGED preparedVars
CancelQueued == IF lifecycle.type # "None" /\ pending.type = "Load"
                THEN CancelRequestCall(pending.id) ELSE UNCHANGED preparedVars
M_Taken == IF pending.type # "None" THEN pending ELSE lifecycle
Taken == IF lifecycle.type # "None" THEN lifecycle ELSE pending
M_ClearRequests == /\ lifecycle' = NoRequest
                   /\ pending' = IF lifecycle.type # "None" THEN pending ELSE NoRequest
ClearRequests == pending' = NoRequest /\ lifecycle' = NoRequest

LoopTake ==
  /\ At("take")
  /\ IF stopping
     THEN loop' = "exited" /\ UNCHANGED <<preparedVars, pending, lifecycle, inProgress, request>>
     ELSE /\ CancelQueued /\ ClearRequests
          /\ request' = Taken
          /\ inProgress' = (request'.type # "None")
          /\ loop' = IF inProgress' THEN "clearTransport" ELSE "cueIntent"
  /\ UNCHANGED <<counter, accepted, seeks>> /\ Stay

LoopClearTransport ==
  /\ At("clearTransport")
  /\ transportSeek' = NoSeek /\ loop' = "clearCue"
  /\ UNCHANGED <<preparedVars, requests, request, cueSeek>> /\ Stay

LoopClearCue ==
  /\ At("clearCue")
  /\ cueSeek' = NoSeek /\ loop' = "execute"
  /\ UNCHANGED <<preparedVars, requests, request, transportSeek>> /\ Stay

LoopExecute ==
  /\ At("execute")
  /\ \/ request.type = "Load" /\ PrepareCall(request.id, request.protect)
     \/ request.type = "Seek" /\ SeekCall
     \/ request.type = "Unload" /\ CloseCall
  /\ loop' = "refill"
  /\ UNCHANGED <<requests, request, seeks>> /\ Stay

(* No request: the cue intent, or else the transport intent, is executed. *)
Intent(track) == Request("Intent", track, TRUE)

LoopCueIntent ==
  /\ At("cueIntent")
  /\ cueSeek' = NoSeek
  /\ \/ /\ cueSeek # NoSeek /\ SeekCall
        /\ request' = Intent(cueSeek) /\ loop' = "refill"
     \/ /\ cueSeek = NoSeek
        /\ loop' = "transportIntent" /\ UNCHANGED <<preparedVars, request>>
  /\ UNCHANGED <<requests, transportSeek>> /\ Stay

LoopTransportIntent ==
  /\ At("transportIntent")
  /\ transportSeek' = NoSeek
  /\ \/ /\ transportSeek # NoSeek /\ SeekCall
        /\ request' = Intent(transportSeek)
     \/ /\ transportSeek = NoSeek
        /\ UNCHANGED <<preparedVars, request>>
  /\ loop' = "refill"
  /\ UNCHANGED <<requests, cueSeek>> /\ Stay

LoopRefill ==
  /\ At("refill") /\ RefillCall
  /\ loop' = "settle"
  /\ UNCHANGED <<requests, request, seeks>> /\ Stay

(* A load that waits for the renderer keeps the player busy. *)
LoopSettle ==
  /\ At("settle")
  /\ inProgress' = IF Pending THEN inProgress ELSE FALSE
  /\ request' = NoRequest /\ loop' = "top"
  /\ UNCHANGED <<preparedVars, pending, lifecycle, counter, accepted, seeks>> /\ Stay

WorkerLoop ==
  \/ WorkerOp /\ UNCHANGED <<requests, request, loop, stopping, seeks, calls>>
  \/ LoopTop \/ LoopPending \/ LoopTake
  \/ LoopClearTransport \/ LoopClearCue \/ LoopExecute
  \/ LoopCueIntent \/ LoopTransportIntent \/ LoopRefill \/ LoopSettle

----------------------------------------------------------------------------
(* process, on the audio thread *)

PlayerRest == UNCHANGED <<requests, request, loop, stopping>>
AudioGoes(pc) == au' = [au EXCEPT !.pc = pc]
Elsewhere == <<workerSide, handoff, rend, audioSlot, innerGen, trackId, status, terminal>>
OnlyAudio == UNCHANGED Elsewhere
Intends == calls < MaxCalls /\ calls' = calls + 1
HeardTrack == rend[audioSlot].track

(* update_transport_sync may publish a seek. *)
ProcessBegin ==
  /\ Running /\ au.pc = "idle"
  /\ au' = [NoRender EXCEPT !.pc = "load"]
  /\ \/ UNCHANGED <<transportSeek, calls>>
     \/ /\ Intends                               \* publish_transport_seek
        /\ transportSeek' = IF transportSeek = NoSeek THEN HeardTrack ELSE transportSeek
  /\ UNCHANGED <<Elsewhere, cueSeek>> /\ PlayerRest

(* The generation changed during render: clear both intents. *)
ProcessClearTransport ==
  /\ au.pc = "done" /\ au.moved
  /\ transportSeek' = NoSeek /\ AudioGoes("clearCue")
  /\ OnlyAudio /\ UNCHANGED <<cueSeek, calls>> /\ PlayerRest

ProcessClearCue ==
  /\ au.pc = "clearCue"
  /\ cueSeek' = NoSeek /\ AudioGoes("takeCue")
  /\ OnlyAudio /\ UNCHANGED <<transportSeek, calls>> /\ PlayerRest

(* take_seek_request; controls do not reach the renderer in the block of a commit. *)
ProcessTakeCue ==
  /\ au.pc = "takeCue" \/ (au.pc = "done" /\ ~ au.moved)
  /\ \/ UNCHANGED <<cueSeek, calls>>
     \/ au.ack # "Committed" /\ Intends /\ cueSeek' = HeardTrack
  /\ au' = NoRender
  /\ OnlyAudio /\ UNCHANGED transportSeek /\ PlayerRest

Process ==
  \/ RenderStep /\ UNCHANGED <<seeks, calls>> /\ PlayerRest
  \/ ProcessClearTransport \/ ProcessClearCue \/ ProcessTakeCue

Handlers == HandleLoad \/ (\E type \in {"Seek", "Unload"} : HandleOther(type))
Callbacks == OnEnable \/ OnDisable \/ OnStart \/ OnStop
Stops == OnStopClear \/ OnStopShutdown

PlayerNext == Handlers \/ Callbacks \/ Stops \/ WorkerLoop \/ ProcessBegin \/ Process
PlayerSpec == PlayerInit /\ [][PlayerNext]_playerVars

(* The worker's thread runs, and process is called for every block until on_stop. *)
LiveSpec == PlayerSpec /\ WF_playerVars(WorkerLoop) /\ WF_playerVars(Process)
                       /\ WF_playerVars(ProcessBegin) /\ WF_playerVars(Stops)

----------------------------------------------------------------------------
(* Properties *)

Tracks == RequestIds
OpPcs == {"idle", "publish", "store", "open", "offer", "retire", "drop", "settle", "cancel",
          "seek", "close"}
LoopPcs == {"off", "top", "pending?", "take", "clearTransport", "clearCue", "execute",
            "cueIntent", "transportIntent", "refill", "settle", "exited", "joined"}
RequestTypes == {"None", "Load", "Seek", "Unload", "Intent"}
Requests == [type : RequestTypes, id : RequestIds, protect : BOOLEAN]
SlotRecords == [gen : Nat, track : Tracks, busy : BOOLEAN]
RendRecords == [gen : Nat, track : Tracks, leased : BOOLEAN]
Handoffs == {"Idle", "Prepared", "Adopting", "Committed", "Protected"}
Cells == [busy : BOOLEAN, id : RequestIds, state : LoadStates]
Loads == [id : RequestIds, state : LoadStates]
WorkerCalls == [pc : OpPcs, id : RequestIds, protect : BOOLEAN, state : LoadStates, then : OpPcs]
AudioPcs == {"idle", "load", "claim", "decide", "render", "identify", "ack", "done",
             "clearCue", "takeCue"}
AudioCalls == [pc : AudioPcs, ack : {"Idle", "Committed", "Protected"}, moved : BOOLEAN]
SeekIntents == Tracks \union {NoSeek}

(* Every variable has its type. *)
PlayerTypeOK ==
  /\ slot \in [SlotIds -> SlotRecords] /\ rend \in [SlotIds -> RendRecords]
  /\ workerSlot \in SlotIds /\ audioSlot \in SlotIds
  /\ handoff \in Handoffs
  /\ preparedId \in RequestIds /\ protect \in BOOLEAN
  /\ innerGen \in Nat /\ trackId \in Tracks
  /\ cell \in Cells /\ status \in Loads /\ terminal \in Loads
  /\ outcome \in [RequestIds -> LoadStates]
  /\ op \in WorkerCalls /\ au \in AudioCalls
  /\ pending \in Requests /\ lifecycle \in Requests /\ request \in Requests
  /\ inProgress \in BOOLEAN /\ counter \in RequestIds /\ accepted \subseteq RequestIds
  /\ loop \in LoopPcs /\ stopping \in BOOLEAN
  /\ transportSeek \in SeekIntents /\ cueSeek \in SeekIntents

(* Two threads agree, without a lock, on which slot is whose: while nothing is *)
(* handed over they name the same one, a committed slot is the renderer's      *)
(* before it is the worker's, a slot on offer or refused is only the worker's. *)
HandoffSlots ==
  /\ handoff \in {"Prepared", "Protected"} => audioSlot = workerSlot
  /\ handoff = "Committed" =>
       (audioSlot = Candidate) <=> (op.pc \in {"idle", "retire"})
  /\ handoff = "Idle" => audioSlot = workerSlot

(* The slot the worker opens or closes around a load is one the renderer has   *)
(* left: it holds no lease there and is not rendering from it.                 *)
Target == IF op.pc = "retire" THEN workerSlot ELSE Candidate
RetiredSlotUnused ==
  op.pc \in {"open", "retire", "drop", "cancel"} =>
    /\ ~ rend[Target].leased
    /\ audioSlot # Target

(* What status reports as the loaded track is never another track than the one *)
(* that is heard: the ID changes with the audio, at the block boundary.        *)
NoForeignTrack ==
  au.pc \in {"idle", "done", "clearCue", "takeCue"} /\ trackId # 0 /\ HeardTrack # 0
    => trackId = HeardTrack

(* A load has one outcome: nothing is published about it after a terminal state. *)
OneOutcome ==
  [][\A id \in RequestIds \ {0} :
       outcome[id] \in TerminalStates => outcome'[id] = outcome[id]]_playerVars

(* The load status a client polls goes forward: never back to an older load, and *)
(* never away from the end of the load it shows.                                 *)
LoadStatusForward ==
  [][/\ status'.id >= status.id
     /\ status'.id = status.id /\ status.state \in TerminalStates => status' = status
    ]_playerVars

(* Every load a handler accepted comes to an end, whatever requests, lifecycle   *)
(* callbacks and seeks come in between, unless the module stays stopped.         *)
LoadsSettle ==
  \A id \in RequestIds \ {0} :
    (id \in accepted) ~> (outcome[id] \in TerminalStates \/ loop = "off")

(* Disabling the module empties the deck even when it races a load the renderer  *)
(* has just claimed, unless it is enabled again at once.                         *)
DisableEmptiesDeck ==
  (lifecycle.type = "Unload")
    ~> ((slot[workerSlot].track = 0 /\ ~ Pending) \/ lifecycle.type = "Load" \/ loop = "off")

(* The worker executes a seek intent on the track it was computed for: an intent *)
(* for a track that has been replaced is not applied to the new one.             *)
IntentForItsTrack ==
  op.pc = "seek" /\ request.type = "Intent" /\ request.id # 0
    => slot[workerSlot].track = request.id

(* Only a loaded deck is protected: when the renderer itself plays nothing, it   *)
(* takes the load.                                                               *)
ProtectedOnlyIfLoaded ==
  au.pc = "render" /\ au.ack = "Protected" => HeardTrack # 0
=============================================================================
