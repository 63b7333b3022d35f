---------------------------- MODULE PreparedPlayback ----------------------------
(***************************************************************************)
(* Track replacement with two preallocated playback slots                  *)
(* (backends/media/prepared_playback_coordinator.hpp).  The worker opens   *)
(* and fills the inactive slot, offers it through handoff, and the render  *)
(* thread adopts it at a block boundary; the worker collects the answer.   *)
(*                                                                         *)
(* A slot is a whole PlaybackCoordinator.  Of it this module keeps what    *)
(* PlaybackCoordinator establishes at its interface: a transition is       *)
(* invisible or complete to the renderer (SnapshotWhole), a reader that    *)
(* meets a running one gives up (busy), and the renderer plays only the    *)
(* generation it adopted (OneGeneration).  A track is the ID of the load   *)
(* request that opened it, 0 when the slot is closed.                      *)
(*                                                                         *)
(* The worker's and the render thread's calls are programs in op and au,   *)
(* one shared access per step; AudioFilePlayer makes the calls.            *)
(* M_X is a plausible bug in X: the properties are checked to notice it.   *)
(***************************************************************************)
EXTENDS Naturals

CONSTANT
  MaxRequest   \* bound on the 64-bit load request IDs

ASSUME RequestAssumption == MaxRequest \in Nat

SlotIds == {0, 1}
RequestIds == 0 .. MaxRequest

VARIABLES
  slot,        \* slots_, worker side: generation, track, transition running
  rend,        \* slots_, renderer side: adopted generation and its track, leases held
  workerSlot,  \* worker_slot_
  audioSlot,   \* audio_slot_
  handoff,     \* handoff_
  preparedId,  \* prepared_request_id_
  protect,     \* protect_playing_
  innerGen,    \* adopted_inner_generation_
  trackId,     \* track_instance_id_
  cell,        \* load_version_ (odd: busy), load_request_id_, load_state_
  status,      \* audio_load_status_
  terminal,    \* terminal_load_status_
  outcome,     \* history: the last state published for each request
  op,          \* the worker's call
  au           \* the render call

workerSide == <<slot, workerSlot, preparedId, protect, cell, outcome, op>>
audioSide == <<rend, audioSlot, innerGen, trackId, status, terminal, au>>
preparedVars == <<workerSide, audioSide, handoff>>

LoadStates == {"Idle", "Preparing", "Prepared", "Committed", "Failed", "Protected", "Cancelled"}
TerminalStates == {"Committed", "Failed", "Protected", "Cancelled"}
NoLoad == [id |-> 0, state |-> "Idle"]

Candidate == 1 - workerSlot
Pending == handoff # "Idle"                       \* worker_load_pending
Returned == [pc |-> "idle", id |-> 0, protect |-> TRUE, state |-> "Idle",
                     then |-> "idle"]
NoRender == [pc |-> "idle", ack |-> "Idle", moved |-> FALSE]

PreparedInit ==
  /\ slot = [s \in SlotIds |-> [gen |-> 0, track |-> 0, busy |-> FALSE]]
  /\ rend = [s \in SlotIds |-> [gen |-> 0, track |-> 0, leased |-> FALSE]]
  /\ workerSlot = 0 /\ audioSlot = 0 /\ handoff = "Idle"
  /\ preparedId = 0 /\ protect = TRUE
  /\ innerGen = 0 /\ trackId = 0
  /\ cell = [busy |-> FALSE, id |-> 0, state |-> "Idle"]
  /\ status = NoLoad /\ terminal = NoLoad
  /\ outcome = [id \in RequestIds |-> "Idle"]
  /\ op = Returned /\ au = NoRender

----------------------------------------------------------------------------
(* Worker calls *)

(* publish_load(st) and then go on at pc next: make the version odd, store *)
(* the fields, make it even.                                               *)
Publishing(o, id, st, next) == [o EXCEPT !.pc = "publish", !.id = id, !.state = st, !.then = next]

PublishBegin ==
  /\ op.pc = "publish"
  /\ cell' = [cell EXCEPT !.busy = TRUE]
  /\ op' = [op EXCEPT !.pc = "store"]
  /\ UNCHANGED <<slot, workerSlot, preparedId, protect, outcome, handoff, audioSide>>

PublishEnd ==
  /\ op.pc = "store"
  /\ cell' = [busy |-> FALSE, id |-> op.id, state |-> op.state]
  /\ outcome' = [outcome EXCEPT ![op.id] = op.state]
  /\ op' = IF op.then = "idle" THEN Returned
           ELSE [op EXCEPT !.pc = op.then]
  /\ UNCHANGED <<slot, workerSlot, preparedId, protect, handoff, audioSide>>

(* A transition of slot s that has run to its end: the next generation.    *)
Transition(s, track) ==
  [slot EXCEPT ![s] = [gen |-> @.gen + 1, track |-> track, busy |-> FALSE]]
Reset(s) == Transition(s, 0)                                    \* worker_close
Suspend(s, b) == [slot EXCEPT ![s].busy = b]                    \* it begins, or is refused

(* worker_prepare: one open and one refill of the candidate. *)
PrepareCall(id, prot) ==
  /\ op.pc = "idle"
  /\ op' = IF Pending \/ id = 0 THEN Returned
           ELSE Publishing([op EXCEPT !.protect = prot], id, "Preparing", "open")
  /\ UNCHANGED <<slot, workerSlot, preparedId, protect, cell, outcome, handoff, audioSide>>

PrepareOpen ==
  /\ op.pc = "open"
  /\ \/ /\ slot' = Transition(Candidate, op.id)
        /\ preparedId' = op.id /\ protect' = op.protect
        /\ op' = Publishing(op, op.id, "Prepared", "offer")
     \/ /\ slot' = Reset(Candidate)          \* worker_close after the failed open
        /\ op' = Publishing(op, op.id, "Failed", "idle")
        /\ UNCHANGED <<preparedId, protect>>
  /\ UNCHANGED <<workerSlot, cell, outcome, handoff, audioSide>>

PrepareOffer ==
  /\ op.pc = "offer"
  /\ handoff' = "Prepared"
  /\ op' = Returned
  /\ UNCHANGED <<slot, workerSlot, preparedId, protect, cell, outcome, audioSide>>

(* worker_refill: collect the answer of the render thread, then fill the   *)
(* worker's slot (not visible here).                                       *)
RefillCall ==
  /\ op.pc = "idle"
  /\ op' = CASE handoff = "Committed" -> [op EXCEPT !.pc = "retire"]
             [] handoff = "Protected" -> [op EXCEPT !.pc = "drop"]
             [] OTHER -> Returned
  /\ UNCHANGED <<slot, workerSlot, preparedId, protect, cell, outcome, handoff, audioSide>>

M_CollectCommitted ==
  /\ op.pc = "retire"
  /\ slot' = Reset(workerSlot)
  /\ op' = Publishing(op, preparedId, "Committed", "settle")
  /\ UNCHANGED <<workerSlot, preparedId, protect, cell, outcome, handoff, audioSide>>
CollectCommitted ==
  /\ op.pc = "retire"
  /\ slot' = Reset(workerSlot)
  /\ workerSlot' = Candidate
  /\ op' = Publishing(op, preparedId, "Committed", "settle")
  /\ UNCHANGED <<preparedId, protect, cell, outcome, handoff, audioSide>>

CollectProtected ==
  /\ op.pc = "drop"
  /\ slot' = Reset(Candidate)
  /\ op' = Publishing(op, preparedId, "Protected", "settle")
  /\ UNCHANGED <<workerSlot, preparedId, protect, cell, outcome, handoff, audioSide>>

CollectSettle ==
  /\ op.pc = "settle"
  /\ handoff' = "Idle"
  /\ op' = Returned
  /\ UNCHANGED <<slot, workerSlot, preparedId, protect, cell, outcome, audioSide>>

Withdrawable == handoff = "Prepared"

(* worker_cancel_load: the compare-exchange races the render thread's. *)
CancelLoadCall ==
  /\ op.pc = "idle"
  /\ \/ /\ Withdrawable
        /\ handoff' = "Idle" /\ op' = [op EXCEPT !.pc = "cancel"]
     \/ /\ ~ Withdrawable
        /\ op' = Returned /\ UNCHANGED handoff
  /\ UNCHANGED <<slot, workerSlot, preparedId, protect, cell, outcome, audioSide>>

CancelClose ==
  /\ op.pc = "cancel"
  /\ slot' = Reset(Candidate)
  /\ op' = Publishing(op, preparedId, "Cancelled", "idle")
  /\ UNCHANGED <<workerSlot, preparedId, protect, cell, outcome, handoff, audioSide>>

CancelRequestCall(id) ==
  /\ op.pc = "idle"
  /\ op' = Publishing(op, id, "Cancelled", "idle")
  /\ UNCHANGED <<slot, workerSlot, preparedId, protect, cell, outcome, handoff, audioSide>>

(* worker_seek and worker_close: a transition of the worker's slot. *)
TransitionCall(pc) ==
  /\ op.pc = "idle"
  /\ IF Pending THEN op' = Returned /\ UNCHANGED slot
     ELSE /\ slot' = Suspend(workerSlot, TRUE)
          /\ op' = [op EXCEPT !.pc = pc]
  /\ UNCHANGED <<workerSlot, preparedId, protect, cell, outcome, handoff, audioSide>>

SeekCall == TransitionCall("seek")
CloseCall == TransitionCall("close")

SeekEnd ==
  /\ op.pc = "seek"
  /\ \/ /\ slot[workerSlot].track # 0          \* sought: the next generation
        /\ slot' = Transition(workerSlot, slot[workerSlot].track)
     \/ slot' = Suspend(workerSlot, FALSE)   \* refused
  /\ op' = Returned
  /\ UNCHANGED <<workerSlot, preparedId, protect, cell, outcome, handoff, audioSide>>

CloseEnd ==
  /\ op.pc = "close"
  /\ slot' = Reset(workerSlot)
  /\ op' = Returned
  /\ UNCHANGED <<workerSlot, preparedId, protect, cell, outcome, handoff, audioSide>>

WorkerOp ==
  \/ PublishBegin \/ PublishEnd
  \/ PrepareOpen \/ PrepareOffer
  \/ CollectCommitted \/ CollectProtected \/ CollectSettle \/ CancelClose
  \/ SeekEnd \/ CloseEnd

----------------------------------------------------------------------------
(* render, step by step from au.pc = "load" to au.pc = "done" *)

M_Readable == ~ cell.busy
Readable == ~ cell.busy /\ cell.id # terminal.id

(* read_load: a load that has reached its end here is not looked at again. *)
RenderReadLoad ==
  /\ au.pc = "load"
  /\ status' = IF Readable
               THEN [id |-> cell.id, state |-> cell.state] ELSE status
  /\ au' = [au EXCEPT !.pc = "claim"]
  /\ UNCHANGED <<workerSide, handoff, rend, audioSlot, innerGen, trackId,
                 terminal>>

(* The compare-exchange Prepared -> Adopting. *)
RenderClaim ==
  /\ au.pc = "claim"
  /\ \/ /\ handoff = "Prepared"
        /\ handoff' = "Adopting" /\ au' = [au EXCEPT !.pc = "decide"]
     \/ /\ handoff # "Prepared"
        /\ au' = [au EXCEPT !.pc = "render"] /\ UNCHANGED handoff
  /\ UNCHANGED <<workerSide, rend, audioSlot, innerGen, trackId, status,
                 terminal>>

Decide(ack) ==
  /\ terminal' = [id |-> preparedId, state |-> ack]
  /\ status' = terminal'
  /\ au' = [au EXCEPT !.pc = "render", !.ack = ack]

M_RetireRenderer == UNCHANGED rend
RetireRenderer == rend' = [rend EXCEPT ![audioSlot].leased = FALSE]
M_AdoptCandidate == /\ audioSlot' = 1 - audioSlot
                    /\ trackId' = IF trackId = 0 THEN preparedId ELSE trackId
AdoptCandidate == audioSlot' = 1 - audioSlot /\ trackId' = preparedId

(* Controls and the transport may start or stop playback in any block, so the *)
(* deck plays or not at this boundary.                                        *)
Protects(isPlaying) == protect /\ trackId # 0 /\ isPlaying

RenderDecide ==
  /\ au.pc = "decide"
  /\ \E isPlaying \in BOOLEAN :
     \/ /\ Protects(isPlaying)
        /\ Decide("Protected")
        /\ UNCHANGED <<rend, audioSlot, trackId>>
     \/ /\ ~ Protects(isPlaying)
        /\ Decide("Committed")
        /\ RetireRenderer /\ AdoptCandidate
  /\ UNCHANGED <<workerSide, handoff, innerGen>>

(* The active coordinator's render: suspended while a transition runs, else *)
(* adopt its generation and lease what is ready.                            *)
RenderActive ==
  /\ au.pc = "render"
  /\ LET now == slot[audioSlot] IN
     \/ now.busy /\ rend' = [rend EXCEPT ![audioSlot].leased = FALSE]
     \/ /\ ~ now.busy
        /\ \E leased \in {FALSE, now.track # 0} :
             rend' = [rend EXCEPT ![audioSlot] =
                        [gen |-> now.gen, track |-> now.track, leased |-> leased]]
  /\ au' = [au EXCEPT !.pc = "identify"]
  /\ UNCHANGED <<workerSide, handoff, audioSlot, innerGen, trackId, status, terminal>>

(* A new inner generation moves the outer one (au.moved: generation_ was      *)
(* incremented); a deck found closed loses its track ID, if the diagnostics   *)
(* could be read just now.                                                    *)
RenderIdentify ==
  /\ au.pc = "identify"
  /\ LET now == slot[audioSlot]
         moved == au.ack = "Committed" \/ innerGen # rend[audioSlot].gen
     IN /\ innerGen' = rend[audioSlot].gen
        /\ trackId' = IF moved /\ ~ now.busy /\ now.track = 0 THEN 0 ELSE trackId
        /\ au' = [au EXCEPT !.pc = IF au.ack = "Idle" THEN "done" ELSE "ack", !.moved = moved]
  /\ UNCHANGED <<workerSide, handoff, rend, audioSlot, status, terminal>>

RenderAck ==
  /\ au.pc = "ack"
  /\ handoff' = au.ack
  /\ au' = [au EXCEPT !.pc = "done"]
  /\ UNCHANGED <<workerSide, rend, audioSlot, innerGen, trackId, status,
                 terminal>>

RenderStep ==
  RenderReadLoad \/ RenderClaim \/ RenderDecide \/ RenderActive \/ RenderIdentify \/ RenderAck

(* shutdown, when both threads have stopped: collect or cancel, close both. *)
Shutdown ==
  LET last == CASE handoff \in {"Committed", "Protected"} -> handoff
                [] handoff = "Prepared" -> "Cancelled"
                [] OTHER -> "Idle"
  IN /\ slot' = [s \in SlotIds |-> [gen |-> slot[s].gen + 1, track |-> 0, busy |-> FALSE]]
     /\ workerSlot' = IF handoff = "Committed" THEN Candidate ELSE workerSlot
     /\ IF last = "Idle" THEN UNCHANGED <<cell, outcome>>
        ELSE /\ cell' = [busy |-> FALSE, id |-> preparedId, state |-> last]
             /\ outcome' = [outcome EXCEPT ![preparedId] = last]
     /\ handoff' = "Idle"
     /\ UNCHANGED <<preparedId, protect, op, audioSide>>
=============================================================================
