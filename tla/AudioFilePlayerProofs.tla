-------------------------- MODULE AudioFilePlayerProofs --------------------------
(***************************************************************************)
(* Proofs about the file player: the worker and the audio thread agree on  *)
(* the two slots, the track that is reported is the one that is heard, and *)
(* a load has one outcome, which its clients see in order.  They hold for  *)
(* every number of load requests, commands and lifecycle callbacks.        *)
(*                                                                         *)
(* None of the properties is inductive.  What they rest on is who may be   *)
(* where: which call of PreparedPlayback the loop is in (CallPlace), what  *)
(* the handoff word says during it (HandoffPlace, AudioPlace), that a      *)
(* player with a load under way takes no second one (OneRequest), and the  *)
(* order of the load IDs on their way from a client to the status          *)
(* (IdsInOrder).                                                           *)
(***************************************************************************)
EXTENDS AudioFilePlayer, TLAPS

(* publish_load runs, and the call goes on at next.                          *)
Publishes == op.pc \in {"publish", "store"}
Tells(next) == Publishes /\ op.then = next
Prepares == op.pc \in {"open", "offer"} \/ Tells("open") \/ Tells("offer")
Collects == op.pc \in {"retire", "drop", "settle"} \/ Tells("settle")
Offers == op.pc = "offer" \/ Tells("offer")
Executes == loop \in {"clearTransport", "clearCue", "execute"}

(* The calls the worker loop can be in at each of its places.                *)
CallPlace ==
  op.pc # "idle" =>
    \/ loop \in {"pending?", "settle"} /\ Collects
    \/ loop = "top" /\ (op.pc = "cancel" \/ Tells("idle"))
    \/ loop \in {"clearTransport", "joined"} /\ Tells("idle")
    \/ loop = "refill" /\ (Prepares \/ op.pc \in {"seek", "close"} \/ Tells("idle"))

(* A load under way keeps the player busy: no command is queued behind it.   *)
OneRequest ==
  /\ loop # "joined" /\ Pending => inProgress /\ pending.type = "None"
  /\ Prepares \/ Executes => inProgress /\ pending.type = "None"

(* While the loop stops, and before it starts, nothing is rendered.          *)
StopPlace ==
  /\ stopping \/ loop = "off" => au.pc = "idle"
  /\ loop \in {"exited", "joined"} => stopping

(* What the handoff word says during a call of the worker.                   *)
HandoffPlace ==
  /\ loop \in {"off", "take", "cueIntent", "transportIntent"} \/ Executes => handoff = "Idle"
  /\ op.pc # "idle" /\ ~ Collects => handoff = "Idle"
  /\ Collects => handoff \in {"Committed", "Protected"}
  /\ op.pc = "retire" => handoff = "Committed"
  /\ op.pc = "drop" => handoff = "Protected"

(* What it says during a render, and which slot the renderer has by then.    *)
AudioPlace ==
  /\ au.pc \in {"load", "claim", "decide"} => au.ack = "Idle"
  /\ au.pc = "decide" => handoff = "Adopting"
  /\ au.pc = "ack" => au.ack # "Idle"
  /\ au.pc \in {"render", "identify", "ack"} /\ au.ack # "Idle" => handoff = "Adopting"
  /\ handoff = "Adopting" =>
       /\ au.pc \in {"decide", "render", "identify", "ack"}
       /\ au.pc # "decide" => au.ack # "Idle"
       /\ audioSlot = IF au.ack = "Committed" THEN Candidate ELSE workerSlot

(* The slot the renderer does not play holds no lease.                       *)
LeasesHere == ~ rend[1 - audioSlot].leased

(* A transition runs in the worker's slot only; the track of the slot that    *)
(* is rendered is the one reported, and a track on offer is the one prepared. *)
TrackPlace ==
  /\ \A s \in SlotIds : slot[s].busy => s = workerSlot /\ op.pc \in {"seek", "close"}
  /\ slot[audioSlot].track \in {0, trackId}
  /\ handoff = "Prepared" \/ au.pc = "decide" \/ Offers => slot[Candidate].track = preparedId
  /\ ~ (au.pc = "render" /\ au.ack = "Committed") /\ trackId # 0 /\ HeardTrack # 0
       => trackId = HeardTrack

(* The load on its way to the renderer has been published and has no end yet. *)
Undecided ==
  \/ handoff \in {"Prepared", "Adopting"}
  \/ handoff \in {"Committed", "Protected"} /\ op.pc \in {"idle", "retire", "drop"}
  \/ op.pc = "cancel" \/ Tells("settle") \/ Offers

(* Load IDs grow from the status cell over the call, the request and the      *)
(* queued command to the queued callback, the last one given out.             *)
IdsInOrder ==
  /\ cell.id <= counter
  /\ outcome[cell.id] = cell.state
  /\ \A id \in RequestIds : outcome[id] # "Idle" => id <= cell.id
  /\ Publishes => /\ cell.id <= op.id /\ op.id <= counter
                  /\ outcome[op.id] \notin TerminalStates
  /\ Tells("open") => cell.id < op.id /\ op.state = "Preparing"
  /\ op.pc = "open" => op.id = cell.id /\ outcome[op.id] \notin TerminalStates
  /\ Offers => op.id = preparedId
  /\ Tells("offer") => op.state = "Prepared"
  /\ Tells("settle") => op.id = preparedId
  /\ Undecided => preparedId = cell.id /\ outcome[preparedId] \notin TerminalStates

Waits(id) == id <= counter /\ cell.id < id /\ (Publishes => op.id < id)
RequestsInOrder ==
  /\ Executes /\ request.type = "Load" /\ request.id # 0 => Waits(request.id)
  /\ pending.type = "Load" => Waits(pending.id)
  /\ lifecycle.type = "Load" /\ lifecycle.id # 0 =>
       /\ Waits(lifecycle.id)
       /\ pending.type = "Load" => pending.id < lifecycle.id
       /\ Executes /\ request.type = "Load" => request.id < lifecycle.id

(* The status shown is not ahead of the cell, and an end that is shown is the *)
(* renderer's own answer or the outcome.                                      *)
StatusInOrder ==
  /\ status.id <= cell.id /\ terminal.id <= cell.id
  /\ Prepares /\ ~ Tells("open") => terminal.id < op.id
  /\ handoff = "Prepared" \/ au.pc = "decide" => terminal.id < preparedId
  /\ status.state \in TerminalStates => status = terminal \/ outcome[status.id] = status.state

PlayerInv ==
  /\ PlayerTypeOK
  /\ CallPlace /\ OneRequest /\ StopPlace /\ HandoffPlace /\ AudioPlace
  /\ HandoffSlots /\ LeasesHere /\ TrackPlace
  /\ IdsInOrder /\ RequestsInOrder /\ StatusInOrder

------------------------------------------------------------------------------------
(* Types *)

(* A slot, a load ID and a request in the records the calls build.           *)
LEMMA TypeFacts ==
  /\ 0 \in SlotIds /\ \A s \in SlotIds : 1 - s \in SlotIds
  /\ 0 \in RequestIds /\ \A i \in RequestIds : i \in Nat
  /\ \A i \in RequestIds : i # MaxRequest => i + 1 \in RequestIds
  /\ NoRequest \in Requests /\ NoSeek \in SeekIntents /\ NoRender \in AudioCalls
  /\ \A type \in RequestTypes, i \in RequestIds, b \in BOOLEAN : Request(type, i, b) \in Requests
BY RequestAssumption
DEF SlotIds, RequestIds, NoRequest, NoSeek, SeekIntents, Requests, RequestTypes, Request, NoRender,
    AudioCalls, AudioPcs, Tracks

(* What the worker makes of its call is a call, and so does the render thread. *)
LEMMA CallTypes ==
  /\ Returned \in WorkerCalls
  /\ op \in WorkerCalls =>
       /\ \A pc \in OpPcs : [op EXCEPT !.pc = pc] \in WorkerCalls
       /\ \A i \in RequestIds, st \in LoadStates, next \in OpPcs :
            Publishing(op, i, st, next) \in WorkerCalls
       /\ \A i \in RequestIds, st \in LoadStates, next \in OpPcs, b \in BOOLEAN :
            Publishing([op EXCEPT !.protect = b], i, st, next) \in WorkerCalls
  /\ au \in AudioCalls =>
       \A pc \in AudioPcs, ack \in {"Idle", "Committed", "Protected"}, b \in BOOLEAN :
         /\ [au EXCEPT !.pc = pc] \in AudioCalls
         /\ [au EXCEPT !.pc = pc, !.ack = ack] \in AudioCalls
         /\ [au EXCEPT !.pc = pc, !.moved = b] \in AudioCalls
<1>1. Returned \in WorkerCalls
  BY TypeFacts DEF Returned, WorkerCalls, OpPcs, LoadStates
<1>2. ASSUME op \in WorkerCalls, NEW pc \in OpPcs PROVE [op EXCEPT !.pc = pc] \in WorkerCalls
  BY <1>2 DEF WorkerCalls
<1>3. ASSUME op \in WorkerCalls, NEW i \in RequestIds, NEW st \in LoadStates, NEW next \in OpPcs,
             NEW b \in BOOLEAN
      PROVE /\ Publishing(op, i, st, next) \in WorkerCalls
            /\ Publishing([op EXCEPT !.protect = b], i, st, next) \in WorkerCalls
  <2>1. "publish" \in OpPcs
    BY DEF OpPcs
  <2> QED
    BY <1>3, <2>1 DEF WorkerCalls, Publishing
<1>4. ASSUME au \in AudioCalls, NEW pc \in AudioPcs, NEW ack \in {"Idle", "Committed", "Protected"},
             NEW b \in BOOLEAN
      PROVE /\ [au EXCEPT !.pc = pc] \in AudioCalls
            /\ [au EXCEPT !.pc = pc, !.ack = ack] \in AudioCalls
            /\ [au EXCEPT !.pc = pc, !.moved = b] \in AudioCalls
  BY <1>4 DEF AudioCalls
<1> QED
  BY <1>1, <1>2, <1>3, <1>4

(* What a transition makes of a slot is a slot.                              *)
LEMMA SlotTypes ==
  slot \in [SlotIds -> SlotRecords] =>
    \A s \in SlotIds :
      /\ slot[s].track \in Tracks
      /\ \A i \in Tracks : Transition(s, i) \in [SlotIds -> SlotRecords]
      /\ Reset(s) \in [SlotIds -> SlotRecords]
      /\ \A b \in BOOLEAN : Suspend(s, b) \in [SlotIds -> SlotRecords]
<1> SUFFICES ASSUME slot \in [SlotIds -> SlotRecords], NEW s \in SlotIds
             PROVE  /\ slot[s].track \in Tracks
                    /\ \A i \in Tracks : Transition(s, i) \in [SlotIds -> SlotRecords]
                    /\ \A b \in BOOLEAN : Suspend(s, b) \in [SlotIds -> SlotRecords]
  BY TypeFacts DEF Reset, Tracks
<1>1. /\ slot[s] \in SlotRecords
      /\ \A x \in SlotRecords : [slot EXCEPT ![s] = x] \in [SlotIds -> SlotRecords]
  OBVIOUS
<1>2. \A b \in BOOLEAN : [slot[s] EXCEPT !.busy = b] \in SlotRecords
  BY <1>1 DEF SlotRecords
<1>3. \A i \in Tracks : [gen |-> slot[s].gen + 1, track |-> i, busy |-> FALSE] \in SlotRecords
  BY <1>1 DEF SlotRecords
<1>4. slot[s].track \in Tracks
  BY <1>1 DEF SlotRecords
<1> QED
  BY <1>1, <1>2, <1>3, <1>4 DEF Transition, Suspend

(* The fields of the typed records.                                          *)
LEMMA FieldTypes ==
  PlayerTypeOK =>
    /\ op.pc \in OpPcs /\ op.id \in RequestIds /\ op.protect \in BOOLEAN
    /\ op.state \in LoadStates /\ op.then \in OpPcs
    /\ cell.busy \in BOOLEAN /\ cell.id \in RequestIds /\ cell.state \in LoadStates
    /\ pending.id \in RequestIds /\ pending.type \in RequestTypes
    /\ request.id \in RequestIds /\ request.protect \in BOOLEAN
    /\ lifecycle.id \in RequestIds
    /\ au.ack \in {"Idle", "Committed", "Protected"}
    /\ \A s \in SlotIds : /\ slot[s].gen \in Nat /\ slot[s].track \in RequestIds
                          /\ rend[s].gen \in Nat /\ rend[s].track \in RequestIds
BY DEF PlayerTypeOK, WorkerCalls, Cells, Requests, AudioCalls, SlotRecords, RendRecords, Tracks

(* Types are preserved by every step.                                        *)
LEMMA TypeStep == PlayerTypeOK /\ PlayerNext => PlayerTypeOK'
<1> SUFFICES ASSUME PlayerTypeOK, PlayerNext PROVE PlayerTypeOK'
  OBVIOUS
<1> USE DEF preparedVars, workerSide, audioSide, requests, seeks
<1>0. /\ op \in WorkerCalls /\ au \in AudioCalls
      /\ slot \in [SlotIds -> SlotRecords] /\ rend \in [SlotIds -> RendRecords]
      /\ workerSlot \in SlotIds /\ audioSlot \in SlotIds
      /\ preparedId \in RequestIds /\ trackId \in RequestIds /\ innerGen \in Nat
      /\ cell \in Cells /\ status \in Loads /\ terminal \in Loads
      /\ outcome \in [RequestIds -> LoadStates]
      /\ pending \in Requests /\ lifecycle \in Requests /\ request \in Requests
      /\ inProgress \in BOOLEAN /\ counter \in RequestIds
      /\ transportSeek \in SeekIntents /\ cueSeek \in SeekIntents
  BY DEF PlayerTypeOK, Tracks
<1>1. CASE PublishBegin /\ UNCHANGED <<requests, request, loop, stopping, seeks, calls>>
  <2>1. cell' \in Cells
    BY <1>0, <1>1 DEF PublishBegin, Cells
  <2>2. op' \in WorkerCalls
    BY <1>0, <1>1, CallTypes, FieldTypes, TypeFacts DEF PublishBegin, OpPcs, LoadStates
  <2> QED
    BY <1>1, <2>1, <2>2 DEF PlayerTypeOK, LoopPcs, Handoffs, PublishBegin
<1>2. CASE PublishEnd /\ UNCHANGED <<requests, request, loop, stopping, seeks, calls>>
  <2>1. cell' \in Cells
    BY <1>0, <1>2, FieldTypes DEF PublishEnd, Cells
  <2>2. outcome' \in [RequestIds -> LoadStates]
    BY <1>0, <1>2, FieldTypes DEF PublishEnd
  <2>3. op' \in WorkerCalls
    BY <1>0, <1>2, CallTypes, FieldTypes, TypeFacts DEF PublishEnd, OpPcs, LoadStates
  <2> QED
    BY <1>2, <2>1, <2>2, <2>3 DEF PlayerTypeOK, LoopPcs, Handoffs, PublishEnd
<1>3. CASE PrepareOpen /\ UNCHANGED <<requests, request, loop, stopping, seeks, calls>>
  <2>1. slot' \in [SlotIds -> SlotRecords]
    BY <1>0, <1>3, SlotTypes, FieldTypes, TypeFacts DEF PrepareOpen, Candidate, Tracks
  <2>2. op' \in WorkerCalls
    <3>1. CASE op' = Publishing(op, op.id, "Prepared", "offer")
      BY <1>0, <3>1, CallTypes, FieldTypes, TypeFacts DEF PrepareOpen, OpPcs, LoadStates
    <3>2. CASE op' = Publishing(op, op.id, "Failed", "idle")
      BY <1>0, <3>2, CallTypes, FieldTypes, TypeFacts DEF PrepareOpen, OpPcs, LoadStates
    <3> QED
      BY <1>3, <3>1, <3>2 DEF PrepareOpen
  <2>3. preparedId' \in RequestIds /\ protect' \in BOOLEAN
    BY <1>0, <1>3, FieldTypes DEF PrepareOpen, PlayerTypeOK
  <2> QED
    BY <1>3, <2>1, <2>2, <2>3 DEF PlayerTypeOK, LoopPcs, Handoffs, PrepareOpen
<1>4. CASE PrepareOffer /\ UNCHANGED <<requests, request, loop, stopping, seeks, calls>>
  <2>1. op' \in WorkerCalls
    BY <1>0, <1>4, CallTypes, FieldTypes, TypeFacts DEF PrepareOffer, OpPcs, LoadStates
  <2> QED
    BY <1>4, <2>1 DEF PlayerTypeOK, LoopPcs, Handoffs, PrepareOffer
<1>5. CASE CollectCommitted /\ UNCHANGED <<requests, request, loop, stopping, seeks, calls>>
  <2>1. slot' \in [SlotIds -> SlotRecords]
    BY <1>0, <1>5, SlotTypes, FieldTypes, TypeFacts DEF CollectCommitted, Candidate, Tracks
  <2>2. op' \in WorkerCalls
    BY <1>0, <1>5, CallTypes, FieldTypes, TypeFacts DEF CollectCommitted, OpPcs, LoadStates
  <2>3. workerSlot' \in SlotIds
    BY <1>0, <1>5, TypeFacts DEF CollectCommitted, Candidate
  <2> QED
    BY <1>5, <2>1, <2>2, <2>3 DEF PlayerTypeOK, LoopPcs, Handoffs, CollectCommitted
<1>6. CASE CollectProtected /\ UNCHANGED <<requests, request, loop, stopping, seeks, calls>>
  <2>1. slot' \in [SlotIds -> SlotRecords]
    BY <1>0, <1>6, SlotTypes, FieldTypes, TypeFacts DEF CollectProtected, Candidate, Tracks
  <2>2. op' \in WorkerCalls
    BY <1>0, <1>6, CallTypes, FieldTypes, TypeFacts DEF CollectProtected, OpPcs, LoadStates
  <2> QED
    BY <1>6, <2>1, <2>2 DEF PlayerTypeOK, LoopPcs, Handoffs, CollectProtected
<1>7. CASE CollectSettle /\ UNCHANGED <<requests, request, loop, stopping, seeks, calls>>
  <2>1. op' \in WorkerCalls
    BY <1>0, <1>7, CallTypes, FieldTypes, TypeFacts DEF CollectSettle, OpPcs, LoadStates
  <2> QED
    BY <1>7, <2>1 DEF PlayerTypeOK, LoopPcs, Handoffs, CollectSettle
<1>8. CASE CancelClose /\ UNCHANGED <<requests, request, loop, stopping, seeks, calls>>
  <2>1. slot' \in [SlotIds -> SlotRecords]
    BY <1>0, <1>8, SlotTypes, FieldTypes, TypeFacts DEF CancelClose, Candidate, Tracks
  <2>2. op' \in WorkerCalls
    BY <1>0, <1>8, CallTypes, FieldTypes, TypeFacts DEF CancelClose, OpPcs, LoadStates
  <2> QED
    BY <1>8, <2>1, <2>2 DEF PlayerTypeOK, LoopPcs, Handoffs, CancelClose
<1>9. CASE SeekEnd /\ UNCHANGED <<requests, request, loop, stopping, seeks, calls>>
  <2>1. slot' \in [SlotIds -> SlotRecords]
    <3>1. slot[workerSlot].track \in Tracks
      BY <1>0, FieldTypes DEF Tracks
    <3>2. /\ Transition(workerSlot, slot[workerSlot].track) \in [SlotIds -> SlotRecords]
          /\ Suspend(workerSlot, FALSE) \in [SlotIds -> SlotRecords]
      BY <1>0, <3>1, SlotTypes
    <3> QED
      BY <1>9, <3>2 DEF SeekEnd
  <2>2. op' \in WorkerCalls
    BY <1>0, <1>9, CallTypes, FieldTypes, TypeFacts DEF SeekEnd, OpPcs, LoadStates
  <2> QED
    BY <1>9, <2>1, <2>2 DEF PlayerTypeOK, LoopPcs, Handoffs, SeekEnd
<1>10. CASE CloseEnd /\ UNCHANGED <<requests, request, loop, stopping, seeks, calls>>
  <2>1. slot' \in [SlotIds -> SlotRecords]
    BY <1>0, <1>10, SlotTypes, FieldTypes, TypeFacts DEF CloseEnd, Candidate, Tracks
  <2>2. op' \in WorkerCalls
    BY <1>0, <1>10, CallTypes, FieldTypes, TypeFacts DEF CloseEnd, OpPcs, LoadStates
  <2> QED
    BY <1>10, <2>1, <2>2 DEF PlayerTypeOK, LoopPcs, Handoffs, CloseEnd
<1>11. CASE LoopTop
  <2>1. op' \in WorkerCalls
    BY <1>0, <1>11, CallTypes, FieldTypes, TypeFacts
    DEF LoopTop, At, Stay, RefillCall, OpPcs, LoadStates
  <2> QED
    BY <1>11, <2>1 DEF PlayerTypeOK, LoopPcs, Handoffs, LoopTop, At, Stay, RefillCall
<1>12. CASE LoopPending
  <2>1. op' \in WorkerCalls
    BY <1>0, <1>12, CallTypes, FieldTypes, TypeFacts
    DEF LoopPending, At, Stay, Pending, CancelLoadCall, Withdrawable, OpPcs, LoadStates
  <2> QED
    BY <1>12, <2>1
    DEF PlayerTypeOK, LoopPcs, Handoffs, LoopPending, At, Stay, Pending, CancelLoadCall,
        Withdrawable
<1>13. CASE LoopTake
  <2>1. op' \in WorkerCalls
    BY <1>0, <1>13, CallTypes, FieldTypes, TypeFacts
    DEF LoopTake, At, Stay, CancelQueued, CancelRequestCall, Taken, ClearRequests, OpPcs,
        LoadStates
  <2>2. /\ pending' \in Requests /\ lifecycle' \in Requests /\ request' \in Requests
        /\ inProgress' \in BOOLEAN
    BY <1>0, <1>13, TypeFacts
    DEF LoopTake, At, Stay, CancelQueued, CancelRequestCall, Taken, ClearRequests
  <2> QED
    BY <1>13, <2>1, <2>2
    DEF PlayerTypeOK, LoopPcs, Handoffs, LoopTake, At, Stay, CancelQueued, CancelRequestCall,
        Taken, ClearRequests
<1>14. CASE LoopClearTransport
  <2>1. transportSeek' \in SeekIntents
    BY <1>0, <1>14, TypeFacts DEF LoopClearTransport, At, Stay
  <2> QED
    BY <1>14, <2>1 DEF PlayerTypeOK, LoopPcs, Handoffs, LoopClearTransport, At, Stay
<1>15. CASE LoopClearCue
  <2>1. cueSeek' \in SeekIntents
    BY <1>0, <1>15, TypeFacts DEF LoopClearCue, At, Stay
  <2> QED
    BY <1>15, <2>1 DEF PlayerTypeOK, LoopPcs, Handoffs, LoopClearCue, At, Stay
<1>16. CASE LoopExecute
  <2>1. slot' \in [SlotIds -> SlotRecords]
    BY <1>0, <1>16, SlotTypes, FieldTypes, TypeFacts
    DEF LoopExecute, At, Stay, PrepareCall, Pending, SeekCall, CloseCall, TransitionCall,
        Candidate, Tracks
  <2>2. op' \in WorkerCalls
    <3>1. CASE PrepareCall(request.id, request.protect)
      BY <1>0, <3>1, CallTypes, FieldTypes, TypeFacts
      DEF LoopExecute, At, Stay, PrepareCall, Pending, SeekCall, CloseCall, TransitionCall,
          OpPcs, LoadStates
    <3>2. CASE SeekCall
      BY <1>0, <3>2, CallTypes, FieldTypes, TypeFacts
      DEF LoopExecute, At, Stay, PrepareCall, Pending, SeekCall, CloseCall, TransitionCall,
          OpPcs, LoadStates
    <3>3. CASE CloseCall
      BY <1>0, <3>3, CallTypes, FieldTypes, TypeFacts
      DEF LoopExecute, At, Stay, PrepareCall, Pending, SeekCall, CloseCall, TransitionCall,
          OpPcs, LoadStates
    <3> QED
      BY <1>16, <3>1, <3>2, <3>3
      DEF LoopExecute, At, Stay, PrepareCall, Pending, SeekCall, CloseCall, TransitionCall
  <2> QED
    BY <1>16, <2>1, <2>2
    DEF PlayerTypeOK, LoopPcs, Handoffs, LoopExecute, At, Stay, PrepareCall, Pending, SeekCall,
        CloseCall, TransitionCall
<1>17. CASE LoopCueIntent
  <2>1. slot' \in [SlotIds -> SlotRecords]
    BY <1>0, <1>17, SlotTypes, FieldTypes, TypeFacts
    DEF LoopCueIntent, At, Stay, Intent, SeekCall, TransitionCall, Pending, Candidate, Tracks
  <2>2. op' \in WorkerCalls
    BY <1>0, <1>17, CallTypes, FieldTypes, TypeFacts
    DEF LoopCueIntent, At, Stay, Intent, SeekCall, TransitionCall, Pending, OpPcs, LoadStates
  <2>3. cueSeek' \in SeekIntents
    BY <1>0, <1>17, TypeFacts
    DEF LoopCueIntent, At, Stay, Intent, SeekCall, TransitionCall, Pending
  <2>4. request' \in Requests
    BY <1>0, <1>17, TypeFacts
    DEF LoopCueIntent, At, Stay, Intent, SeekCall, TransitionCall, Pending, Intent,
        RequestTypes, SeekIntents, Tracks
  <2> QED
    BY <1>17, <2>1, <2>2, <2>3, <2>4
    DEF PlayerTypeOK, LoopPcs, Handoffs, LoopCueIntent, At, Stay, Intent, SeekCall,
        TransitionCall, Pending
<1>18. CASE LoopTransportIntent
  <2>1. slot' \in [SlotIds -> SlotRecords]
    BY <1>0, <1>18, SlotTypes, FieldTypes, TypeFacts
    DEF LoopTransportIntent, At, Stay, Intent, SeekCall, TransitionCall, Pending, Candidate,
        Tracks
  <2>2. op' \in WorkerCalls
    BY <1>0, <1>18, CallTypes, FieldTypes, TypeFacts
    DEF LoopTransportIntent, At, Stay, Intent, SeekCall, TransitionCall, Pending, OpPcs,
        LoadStates
  <2>3. transportSeek' \in SeekIntents
    BY <1>0, <1>18, TypeFacts
    DEF LoopTransportIntent, At, Stay, Intent, SeekCall, TransitionCall, Pending
  <2>4. request' \in Requests
    BY <1>0, <1>18, TypeFacts
    DEF LoopTransportIntent, At, Stay, Intent, SeekCall, TransitionCall, Pending, Intent,
        RequestTypes, SeekIntents, Tracks
  <2> QED
    BY <1>18, <2>1, <2>2, <2>3, <2>4
    DEF PlayerTypeOK, LoopPcs, Handoffs, LoopTransportIntent, At, Stay, Intent, SeekCall,
        TransitionCall, Pending
<1>19. CASE LoopRefill
  <2>1. op' \in WorkerCalls
    BY <1>0, <1>19, CallTypes, FieldTypes, TypeFacts
    DEF LoopRefill, At, Stay, RefillCall, OpPcs, LoadStates
  <2> QED
    BY <1>19, <2>1 DEF PlayerTypeOK, LoopPcs, Handoffs, LoopRefill, At, Stay, RefillCall
<1>20. CASE LoopSettle
  <2>1. request' \in Requests
    BY <1>0, <1>20, TypeFacts DEF LoopSettle, At, Stay, Pending
  <2> QED
    BY <1>20, <2>1 DEF PlayerTypeOK, LoopPcs, Handoffs, LoopSettle, At, Stay, Pending
<1>21. CASE HandleLoad
  <2>1. counter' \in RequestIds
    BY <1>0, <1>21, TypeFacts DEF HandleLoad, Call, Busy, Exhausted
  <2>2. pending' \in Requests
    BY <1>0, <1>21, TypeFacts, ProtectAssumption, <2>1
    DEF HandleLoad, Call, Busy, Exhausted, RequestTypes
  <2> QED
    BY <1>21, <2>1, <2>2 DEF PlayerTypeOK, LoopPcs, Handoffs, HandleLoad, Call, Busy, Exhausted
<1>22. CASE HandleOther("Seek")
  <2>1. pending' \in Requests
    BY <1>0, <1>22, TypeFacts DEF HandleOther, Call, Busy, RequestTypes
  <2> QED
    BY <1>22, <2>1 DEF PlayerTypeOK, LoopPcs, Handoffs, HandleOther, Call, Busy
<1>23. CASE HandleOther("Unload")
  <2>1. pending' \in Requests
    BY <1>0, <1>23, TypeFacts DEF HandleOther, Call, Busy, RequestTypes
  <2> QED
    BY <1>23, <2>1 DEF PlayerTypeOK, LoopPcs, Handoffs, HandleOther, Call, Busy
<1>24. CASE OnEnable
  <2>1. counter' \in RequestIds
    BY <1>0, <1>24, TypeFacts DEF OnEnable, Call, Running, Exhausted
  <2>2. lifecycle' \in Requests
    BY <1>0, <1>24, TypeFacts, <2>1 DEF OnEnable, Call, Running, Exhausted, RequestTypes
  <2> QED
    BY <1>24, <2>1, <2>2 DEF PlayerTypeOK, LoopPcs, Handoffs, OnEnable, Call, Running, Exhausted
<1>25. CASE OnDisable
  <2>1. lifecycle' \in Requests
    BY <1>0, <1>25, TypeFacts DEF OnDisable, Call, Running, RequestTypes
  <2> QED
    BY <1>25, <2>1 DEF PlayerTypeOK, LoopPcs, Handoffs, OnDisable, Call, Running
<1>26. CASE OnStart
  BY <1>26 DEF PlayerTypeOK, LoopPcs, Handoffs, OnStart
<1>27. CASE OnStop
  BY <1>27 DEF PlayerTypeOK, LoopPcs, Handoffs, OnStop, Call, Running
<1>28. CASE OnStopClear
  <2>1. op' \in WorkerCalls
    BY <1>0, <1>28, CallTypes, FieldTypes, TypeFacts
    DEF OnStopClear, CancelRequestCall, OpPcs, LoadStates
  <2>2. pending' \in Requests /\ lifecycle' \in Requests
    BY <1>0, <1>28, TypeFacts DEF OnStopClear, CancelRequestCall
  <2> QED
    BY <1>28, <2>1, <2>2 DEF PlayerTypeOK, LoopPcs, Handoffs, OnStopClear, CancelRequestCall
<1>29. CASE OnStopShutdown
  <2>1. slot' \in [SlotIds -> SlotRecords]
    BY <1>0, <1>29, FieldTypes, TypeFacts DEF OnStopShutdown, Shutdown, SlotRecords, Tracks
  <2>2. cell' \in Cells
    <3>1. CASE handoff \in {"Committed", "Protected"}
      <4>1. cell' = [busy |-> FALSE, id |-> preparedId, state |-> handoff] /\ handoff \in LoadStates
        BY <1>29, <3>1 DEF OnStopShutdown, Shutdown, LoadStates
      <4> QED
        BY <1>0, <4>1 DEF Cells, LoadStates
    <3>2. CASE handoff = "Prepared"
      <4>1. cell' = [busy |-> FALSE, id |-> preparedId, state |-> "Cancelled"]
        BY <1>29, <3>2 DEF OnStopShutdown, Shutdown, LoadStates
      <4> QED
        BY <1>0, <4>1 DEF Cells, LoadStates
    <3>3. CASE handoff \notin {"Committed", "Protected", "Prepared"}
      <4>1. cell' = cell
        BY <1>29, <3>3 DEF OnStopShutdown, Shutdown, LoadStates
      <4> QED
        BY <1>0, <4>1 DEF Cells, LoadStates
    <3> QED
      BY <3>1, <3>2, <3>3
  <2>3. outcome' \in [RequestIds -> LoadStates]
    BY <1>0, <1>29, FieldTypes DEF OnStopShutdown, Shutdown, LoadStates
  <2>4. workerSlot' \in SlotIds
    BY <1>0, <1>29, TypeFacts DEF OnStopShutdown, Shutdown, Candidate
  <2> QED
    BY <1>29, <2>1, <2>2, <2>3, <2>4
    DEF PlayerTypeOK, LoopPcs, Handoffs, OnStopShutdown, Shutdown
<1>30. CASE ProcessBegin
  <2>1. au' \in AudioCalls
    BY <1>0, <1>30
    DEF ProcessBegin, Running, Intends, HeardTrack, Elsewhere, PlayerRest, AudioCalls, AudioPcs,
        NoRender
  <2>2. transportSeek' \in SeekIntents
    BY <1>0, <1>30, FieldTypes, TypeFacts
    DEF ProcessBegin, Running, Intends, HeardTrack, Elsewhere, PlayerRest, SeekIntents, Tracks
  <2> QED
    BY <1>30, <2>1, <2>2
    DEF PlayerTypeOK, LoopPcs, Handoffs, ProcessBegin, Running, Intends, HeardTrack, Elsewhere,
        PlayerRest
<1>31. CASE RenderReadLoad /\ UNCHANGED <<seeks, calls>> /\ PlayerRest
  <2>1. status' \in Loads
    BY <1>0, <1>31, FieldTypes DEF RenderReadLoad, PlayerRest, Readable, Loads
  <2>2. au' \in AudioCalls
    BY <1>0, <1>31, CallTypes, TypeFacts, FieldTypes
    DEF RenderReadLoad, PlayerRest, Readable, AudioPcs
  <2> QED
    BY <1>31, <2>1, <2>2
    DEF PlayerTypeOK, LoopPcs, Handoffs, RenderReadLoad, PlayerRest, Readable
<1>32. CASE RenderClaim /\ UNCHANGED <<seeks, calls>> /\ PlayerRest
  <2>1. au' \in AudioCalls
    BY <1>0, <1>32, CallTypes, TypeFacts, FieldTypes DEF RenderClaim, PlayerRest, AudioPcs
  <2> QED
    BY <1>32, <2>1 DEF PlayerTypeOK, LoopPcs, Handoffs, RenderClaim, PlayerRest
<1>33. CASE RenderDecide /\ UNCHANGED <<seeks, calls>> /\ PlayerRest
  <2>1. terminal' \in Loads /\ status' \in Loads
    BY <1>0, <1>33, FieldTypes
    DEF RenderDecide, PlayerRest, Protects, Decide, RetireRenderer, AdoptCandidate, Loads,
        LoadStates
  <2>2. rend' \in [SlotIds -> RendRecords]
    BY <1>0, <1>33
    DEF RenderDecide, PlayerRest, Protects, Decide, RetireRenderer, AdoptCandidate, RendRecords
  <2>3. au' \in AudioCalls
    BY <1>0, <1>33, CallTypes, TypeFacts, FieldTypes
    DEF RenderDecide, PlayerRest, Protects, Decide, RetireRenderer, AdoptCandidate, AudioPcs
  <2>4. audioSlot' \in SlotIds /\ trackId' \in Tracks
    BY <1>0, <1>33, TypeFacts
    DEF RenderDecide, PlayerRest, Protects, Decide, RetireRenderer, AdoptCandidate, Tracks
  <2> QED
    BY <1>33, <2>1, <2>2, <2>3, <2>4
    DEF PlayerTypeOK, LoopPcs, Handoffs, RenderDecide, PlayerRest, Protects, Decide,
        RetireRenderer, AdoptCandidate
<1>34. CASE RenderActive /\ UNCHANGED <<seeks, calls>> /\ PlayerRest
  <2>1. rend' \in [SlotIds -> RendRecords]
    <3>1. /\ rend[audioSlot] \in RendRecords
          /\ \A x \in RendRecords : [rend EXCEPT ![audioSlot] = x] \in [SlotIds -> RendRecords]
      BY <1>0
    <3>2. [rend[audioSlot] EXCEPT !.leased = FALSE] \in RendRecords
      BY <3>1 DEF RendRecords
    <3>3. \A b \in BOOLEAN :
            [gen |-> slot[audioSlot].gen, track |-> slot[audioSlot].track, leased |-> b] \in RendRecords
      BY <1>0, FieldTypes DEF RendRecords, Tracks
    <3>4. (slot[audioSlot].track # 0) \in BOOLEAN
      OBVIOUS
    <3> QED
      BY <1>34, <3>1, <3>2, <3>3, <3>4 DEF RenderActive
  <2>2. au' \in AudioCalls
    BY <1>0, <1>34, CallTypes, TypeFacts, FieldTypes DEF RenderActive, PlayerRest, AudioPcs
  <2> QED
    BY <1>34, <2>1, <2>2 DEF PlayerTypeOK, LoopPcs, Handoffs, RenderActive, PlayerRest
<1>35. CASE RenderIdentify /\ UNCHANGED <<seeks, calls>> /\ PlayerRest
  <2>1. au' \in AudioCalls
    BY <1>0, <1>35, CallTypes, TypeFacts, FieldTypes DEF RenderIdentify, PlayerRest, AudioPcs
  <2>2. innerGen' \in Nat /\ trackId' \in Tracks
    BY <1>0, <1>35, FieldTypes, TypeFacts DEF RenderIdentify, PlayerRest, Tracks
  <2> QED
    BY <1>35, <2>1, <2>2 DEF PlayerTypeOK, LoopPcs, Handoffs, RenderIdentify, PlayerRest
<1>36. CASE RenderAck /\ UNCHANGED <<seeks, calls>> /\ PlayerRest
  <2>1. au' \in AudioCalls
    BY <1>0, <1>36, CallTypes, TypeFacts, FieldTypes DEF RenderAck, PlayerRest, AudioPcs
  <2>2. handoff' \in Handoffs
    BY <1>0, <1>36, FieldTypes DEF RenderAck, PlayerRest, Handoffs
  <2> QED
    BY <1>36, <2>1, <2>2 DEF PlayerTypeOK, LoopPcs, Handoffs, RenderAck, PlayerRest
<1>37. CASE ProcessClearTransport
  <2>1. au' \in AudioCalls
    BY <1>0, <1>37, CallTypes, TypeFacts, FieldTypes
    DEF ProcessClearTransport, AudioGoes, OnlyAudio, Elsewhere, PlayerRest, AudioPcs
  <2>2. transportSeek' \in SeekIntents
    BY <1>0, <1>37, TypeFacts
    DEF ProcessClearTransport, AudioGoes, OnlyAudio, Elsewhere, PlayerRest
  <2> QED
    BY <1>37, <2>1, <2>2
    DEF PlayerTypeOK, LoopPcs, Handoffs, ProcessClearTransport, AudioGoes, OnlyAudio, Elsewhere,
        PlayerRest
<1>38. CASE ProcessClearCue
  <2>1. au' \in AudioCalls
    BY <1>0, <1>38, CallTypes, TypeFacts, FieldTypes
    DEF ProcessClearCue, AudioGoes, OnlyAudio, Elsewhere, PlayerRest, AudioPcs
  <2>2. cueSeek' \in SeekIntents
    BY <1>0, <1>38, TypeFacts DEF ProcessClearCue, AudioGoes, OnlyAudio, Elsewhere, PlayerRest
  <2> QED
    BY <1>38, <2>1, <2>2
    DEF PlayerTypeOK, LoopPcs, Handoffs, ProcessClearCue, AudioGoes, OnlyAudio, Elsewhere,
        PlayerRest
<1>39. CASE ProcessTakeCue
  <2>1. cueSeek' \in SeekIntents
    BY <1>0, <1>39, FieldTypes
    DEF ProcessTakeCue, Intends, HeardTrack, OnlyAudio, Elsewhere, PlayerRest, SeekIntents,
        Tracks
  <2>2. au' \in AudioCalls
    BY <1>0, <1>39, TypeFacts
    DEF ProcessTakeCue, Intends, HeardTrack, OnlyAudio, Elsewhere, PlayerRest
  <2> QED
    BY <1>39, <2>1, <2>2
    DEF PlayerTypeOK, LoopPcs, Handoffs, ProcessTakeCue, Intends, HeardTrack, OnlyAudio,
        Elsewhere, PlayerRest
<1> QED
  BY <1>1, <1>2, <1>3, <1>4, <1>5, <1>6, <1>7, <1>8, <1>9, <1>10, <1>11, <1>12, <1>13, <1>14,
     <1>15, <1>16, <1>17, <1>18, <1>19, <1>20, <1>21, <1>22, <1>23, <1>24, <1>25, <1>26, <1>27,
     <1>28, <1>29, <1>30, <1>31, <1>32, <1>33, <1>34, <1>35, <1>36, <1>37, <1>38, <1>39
  DEF PlayerNext, Handlers, Callbacks, Stops, WorkerLoop, WorkerOp, Process, RenderStep

------------------------------------------------------------------------------------
(* The places of the threads, and what they leave alone *)

(* The fields of a call that is about to publish.                            *)
LEMMA PublishingFields ==
  \A o \in WorkerCalls : \A i, st, next :
    /\ Publishing(o, i, st, next).pc = "publish" /\ Publishing(o, i, st, next).id = i
    /\ Publishing(o, i, st, next).state = st /\ Publishing(o, i, st, next).then = next
BY DEF WorkerCalls, Publishing

(* The steps that begin to publish on behalf of a queued command: cancelled by a *)
(* lifecycle request, or by the end of the loop, or executed as a load.          *)
Announces(id, st, next) ==
  /\ op.pc = "idle"
  /\ op'.pc = "publish" /\ op'.id = id /\ op'.state = st /\ op'.then = next
  /\ UNCHANGED <<slot, workerSlot, preparedId, protect, cell, outcome, handoff, audioSide>>
  /\ UNCHANGED <<counter, accepted>>

LEMMA QueuedLoadCancelled ==
  PlayerTypeOK /\ LoopTake /\ ~ stopping /\ lifecycle.type # "None" /\ pending.type = "Load" =>
    /\ Announces(pending.id, "Cancelled", "idle")
    /\ loop = "take" /\ loop' = "clearTransport"
    /\ request' = lifecycle /\ inProgress' = TRUE
    /\ lifecycle' = NoRequest /\ pending' = NoRequest /\ stopping' = stopping
<1> SUFFICES ASSUME PlayerTypeOK, LoopTake, ~ stopping, lifecycle.type # "None", pending.type = "Load"
             PROVE  /\ Announces(pending.id, "Cancelled", "idle")
                    /\ loop = "take" /\ loop' = "clearTransport"
                    /\ request' = lifecycle /\ inProgress' = TRUE
                    /\ lifecycle' = NoRequest /\ pending' = NoRequest /\ stopping' = stopping
  OBVIOUS
<1>1. op' = Publishing(op, pending.id, "Cancelled", "idle") /\ op.pc = "idle"
  BY DEF LoopTake, CancelQueued, CancelRequestCall, At
<1>2. Announces(pending.id, "Cancelled", "idle")
  <2>1. op \in WorkerCalls
    BY DEF PlayerTypeOK
  <2> QED
    BY <1>1, <2>1, PublishingFields DEF Announces, LoopTake, CancelQueued, CancelRequestCall
<1> QED
  BY <1>2 DEF LoopTake, At, Stay, ClearRequests, Taken

LEMMA StoppedLoadCancelled ==
  PlayerTypeOK /\ OnStopClear /\ pending.type = "Load" =>
    /\ Announces(pending.id, "Cancelled", "idle")
    /\ loop = "exited" /\ loop' = "joined"
    /\ request' = request /\ inProgress' = FALSE
    /\ lifecycle' = NoRequest /\ pending' = NoRequest /\ stopping' = stopping
<1> SUFFICES ASSUME PlayerTypeOK, OnStopClear, pending.type = "Load"
             PROVE  /\ Announces(pending.id, "Cancelled", "idle")
                    /\ loop = "exited" /\ loop' = "joined"
                    /\ request' = request /\ inProgress' = FALSE
                    /\ lifecycle' = NoRequest /\ pending' = NoRequest /\ stopping' = stopping
  OBVIOUS
<1>1. op' = Publishing(op, pending.id, "Cancelled", "idle") /\ op.pc = "idle"
  BY DEF OnStopClear, CancelRequestCall
<1>2. Announces(pending.id, "Cancelled", "idle")
  <2>1. op \in WorkerCalls
    BY DEF PlayerTypeOK
  <2> QED
    BY <1>1, <2>1, PublishingFields DEF Announces, OnStopClear, CancelRequestCall
<1> QED
  BY <1>2 DEF OnStopClear

LEMMA LoadBegun ==
  PlayerTypeOK /\ LoopExecute /\ request.type = "Load" /\ ~ Pending /\ request.id # 0 =>
    /\ Announces(request.id, "Preparing", "open")
    /\ loop = "execute" /\ loop' = "refill"
    /\ UNCHANGED <<requests, request, stopping>>
<1> SUFFICES ASSUME PlayerTypeOK, LoopExecute, request.type = "Load", ~ Pending, request.id # 0
             PROVE  /\ Announces(request.id, "Preparing", "open")
                    /\ loop = "execute" /\ loop' = "refill"
                    /\ UNCHANGED <<requests, request, stopping>>
  OBVIOUS
<1>1. /\ op' = Publishing([op EXCEPT !.protect = request.protect], request.id, "Preparing", "open")
      /\ op.pc = "idle"
  BY DEF LoopExecute, PrepareCall
<1>2. Announces(request.id, "Preparing", "open")
  <2>1. PICK o \in WorkerCalls : o = [op EXCEPT !.protect = request.protect]
    BY DEF PlayerTypeOK, WorkerCalls, Requests
  <2>2. op'.pc = "publish" /\ op'.id = request.id /\ op'.state = "Preparing" /\ op'.then = "open"
    BY <1>1, <2>1, PublishingFields
  <2>3. PrepareCall(request.id, request.protect) /\ UNCHANGED requests
    BY DEF LoopExecute
  <2> QED
    BY <1>1, <2>2, <2>3 DEF Announces, PrepareCall, requests
<1> QED
  BY <1>2 DEF LoopExecute, At, Stay

(* The render thread's decision, as the two outcomes it can have.            *)
LEMMA Decided ==
  PlayerTypeOK /\ RenderDecide =>
    /\ au.pc = "decide" /\ au'.pc = "render" /\ au'.ack = terminal'.state
    /\ terminal'.id = preparedId /\ status' = terminal'
    /\ UNCHANGED <<workerSide, handoff>>
    /\ \/ terminal'.state = "Protected" /\ UNCHANGED <<audioSlot, trackId, rend>>
       \/ terminal'.state = "Committed" /\ audioSlot' = 1 - audioSlot /\ trackId' = preparedId
<1> SUFFICES ASSUME PlayerTypeOK, RenderDecide
             PROVE  /\ au.pc = "decide" /\ au'.pc = "render" /\ au'.ack = terminal'.state
                    /\ terminal'.id = preparedId /\ status' = terminal'
                    /\ UNCHANGED <<workerSide, handoff>>
                    /\ \/ terminal'.state = "Protected" /\ UNCHANGED <<audioSlot, trackId, rend>>
                       \/ /\ terminal'.state = "Committed"
                          /\ audioSlot' = 1 - audioSlot /\ trackId' = preparedId
  OBVIOUS
<1>1. au \in AudioCalls
  BY DEF PlayerTypeOK
<1>2. CASE Decide("Protected") /\ UNCHANGED <<rend, audioSlot, trackId>>
  BY <1>1, <1>2 DEF RenderDecide, Decide, AudioCalls
<1>3. CASE Decide("Committed") /\ AdoptCandidate
  BY <1>1, <1>3 DEF RenderDecide, Decide, AdoptCandidate, AudioCalls
<1> QED
  BY <1>2, <1>3 DEF RenderDecide

(* What the threads leave alone.                                             *)
LEMMA WorkerFrame == WorkerLoop \/ Handlers \/ Callbacks \/ Stops => UNCHANGED audioSide
BY DEF WorkerLoop, WorkerOp, PublishBegin, PublishEnd, PrepareOpen, PrepareOffer, CollectCommitted,
       CollectProtected, CollectSettle, CancelClose, SeekEnd, CloseEnd,
       LoopTop, LoopPending, LoopTake, LoopClearTransport, LoopClearCue, LoopExecute, LoopCueIntent,
       LoopTransportIntent, LoopRefill, LoopSettle, RefillCall, CancelLoadCall, CancelQueued,
       CancelRequestCall, PrepareCall, SeekCall, CloseCall, TransitionCall, preparedVars,
       Handlers, HandleLoad, HandleOther, Callbacks, OnEnable, OnDisable, OnStart, OnStop, Call,
       Stops, OnStopClear, OnStopShutdown, Shutdown

LEMMA CallFrame ==
  Handlers \/ OnEnable \/ OnDisable =>
    UNCHANGED <<preparedVars, request, seeks, inProgress, loop, stopping>>
BY DEF Handlers, HandleLoad, HandleOther, OnEnable, OnDisable, Call

LEMMA AudioFrame ==
  ProcessBegin \/ Process => UNCHANGED <<workerSide, requests, request, loop, stopping>>
BY DEF ProcessBegin, Process, RenderStep, RenderReadLoad, RenderClaim, RenderDecide, RenderActive,
       RenderIdentify, RenderAck, ProcessClearTransport, ProcessClearCue, ProcessTakeCue,
       PlayerRest, OnlyAudio, Elsewhere

LEMMA QuietFrame == ProcessBegin \/ Process => RenderClaim \/ RenderAck \/ UNCHANGED handoff
BY DEF ProcessBegin, Process, RenderStep, RenderReadLoad, RenderDecide, RenderActive,
       RenderIdentify, ProcessClearTransport, ProcessClearCue, ProcessTakeCue, OnlyAudio, Elsewhere

(* The audio thread's call ends before the stop.                             *)
LEMMA StopPlaceStep == PlayerInv /\ PlayerNext => StopPlace'
<1> SUFFICES ASSUME PlayerInv, PlayerNext PROVE StopPlace'
  OBVIOUS
<1> USE DEF PlayerInv, preparedVars, workerSide, audioSide, requests, seeks, PlayerTypeOK,
            StopPlace, CallPlace, LoopPcs, AudioCalls, AudioPcs, RendRecords
<1>1. CASE WorkerOp /\ UNCHANGED <<requests, request, loop, stopping, seeks, calls>>
  BY <1>1, WorkerFrame DEF WorkerLoop
<1>2. CASE LoopTop
  BY <1>2 DEF LoopTop, At, Stay, RefillCall, Returned
<1>3. CASE LoopPending
  BY <1>3 DEF LoopPending, At, Stay, Pending, CancelLoadCall, Withdrawable, Returned
<1>4. CASE LoopTake
  BY <1>4
  DEF LoopTake, At, Stay, CancelQueued, CancelRequestCall, Publishing, Taken, ClearRequests,
      NoRequest, Request
<1>5. CASE LoopClearTransport
  BY <1>5 DEF LoopClearTransport, At, Stay, NoSeek
<1>6. CASE LoopClearCue
  BY <1>6 DEF LoopClearCue, At, Stay, NoSeek
<1>7. CASE LoopExecute
  BY <1>7
  DEF LoopExecute, At, Stay, PrepareCall, Pending, Publishing, Returned, SeekCall, CloseCall,
      TransitionCall, Suspend
<1>8. CASE LoopCueIntent
  BY <1>8
  DEF LoopCueIntent, At, Stay, Intent, Request, NoSeek, SeekCall, TransitionCall, Suspend,
      Pending, Returned
<1>9. CASE LoopTransportIntent
  BY <1>9
  DEF LoopTransportIntent, At, Stay, Intent, Request, NoSeek, SeekCall, TransitionCall, Suspend,
      Pending, Returned
<1>10. CASE LoopRefill
  BY <1>10 DEF LoopRefill, At, Stay, RefillCall, Returned
<1>11. CASE LoopSettle
  BY <1>11 DEF LoopSettle, At, Stay, Pending, NoRequest
<1>12. CASE Handlers \/ OnEnable \/ OnDisable
  BY <1>12, CallFrame
<1>13. CASE OnStart
  BY <1>13 DEF OnStart
<1>14. CASE OnStop
  BY <1>14 DEF OnStop, Call, Running
<1>15. CASE OnStopClear
  BY <1>15 DEF OnStopClear, CancelRequestCall, Publishing, NoRequest
<1>16. CASE OnStopShutdown
  BY <1>16 DEF OnStopShutdown, Shutdown, Candidate
<1>17. CASE ProcessBegin
  BY <1>17
  DEF ProcessBegin, Running, NoRender, Intends, HeardTrack, Elsewhere, PlayerRest, NoSeek
<1>18. CASE RenderStep /\ UNCHANGED <<seeks, calls>> /\ PlayerRest
  <2>1. CASE RenderReadLoad
    BY <1>18, <2>1 DEF RenderReadLoad, PlayerRest, Readable
  <2>2. CASE RenderClaim
    BY <1>18, <2>2 DEF RenderClaim, PlayerRest
  <2>3. CASE RenderDecide
    BY <1>18, <2>3
    DEF RenderDecide, PlayerRest, Protects, Decide, RetireRenderer, AdoptCandidate
  <2>4. CASE RenderActive
    BY <1>18, <2>4 DEF RenderActive, PlayerRest
  <2>5. CASE RenderIdentify
    BY <1>18, <2>5 DEF RenderIdentify, PlayerRest
  <2>6. CASE RenderAck
    BY <1>18, <2>6 DEF RenderAck, PlayerRest
  <2> QED
    BY <1>18, <2>1, <2>2, <2>3, <2>4, <2>5, <2>6 DEF RenderStep
<1>19. CASE ProcessClearTransport
  BY <1>19 DEF ProcessClearTransport, NoSeek, AudioGoes, OnlyAudio, Elsewhere, PlayerRest
<1>20. CASE ProcessClearCue
  BY <1>20 DEF ProcessClearCue, NoSeek, AudioGoes, OnlyAudio, Elsewhere, PlayerRest
<1>21. CASE ProcessTakeCue
  BY <1>21 DEF ProcessTakeCue, NoRender, Intends, HeardTrack, OnlyAudio, Elsewhere, PlayerRest
<1> QED
  BY <1>1, <1>2, <1>3, <1>4, <1>5, <1>6, <1>7, <1>8, <1>9, <1>10, <1>11, <1>12, <1>13, <1>14,
     <1>15, <1>16, <1>17, <1>18, <1>19, <1>20, <1>21
  DEF PlayerNext, Handlers, Callbacks, Stops, WorkerLoop, Process

(* A renderer gives its leases back before the other slot becomes active.    *)
LEMMA LeasesHereStep == PlayerInv /\ PlayerNext => LeasesHere'
<1> SUFFICES ASSUME PlayerInv, PlayerNext PROVE LeasesHere'
  OBVIOUS
<1> USE DEF PlayerInv, preparedVars, workerSide, audioSide, requests, seeks, PlayerTypeOK,
            AudioPlace, LeasesHere, SlotIds, AudioCalls, AudioPcs, RendRecords
<1>1. CASE WorkerLoop
  BY <1>1, WorkerFrame
<1>2. CASE Handlers \/ OnEnable \/ OnDisable
  BY <1>2, CallFrame
<1>3. CASE OnStart \/ OnStop \/ Stops
  BY <1>3, WorkerFrame DEF Callbacks
<1>4. CASE ProcessBegin
  BY <1>4
  DEF ProcessBegin, Running, NoRender, Intends, HeardTrack, Elsewhere, PlayerRest, NoSeek
<1>5. CASE RenderStep /\ UNCHANGED <<seeks, calls>> /\ PlayerRest
  <2>1. CASE RenderReadLoad
    BY <1>5, <2>1 DEF RenderReadLoad, PlayerRest, Readable
  <2>2. CASE RenderClaim
    BY <1>5, <2>2 DEF RenderClaim, PlayerRest
  <2>3. CASE RenderDecide
    BY <1>5, <2>3 DEF RenderDecide, PlayerRest, Protects, Decide, RetireRenderer, AdoptCandidate
  <2>4. CASE RenderActive
    BY <1>5, <2>4 DEF RenderActive, PlayerRest
  <2>5. CASE RenderIdentify
    BY <1>5, <2>5 DEF RenderIdentify, PlayerRest
  <2>6. CASE RenderAck
    BY <1>5, <2>6 DEF RenderAck, PlayerRest
  <2> QED
    BY <1>5, <2>1, <2>2, <2>3, <2>4, <2>5, <2>6 DEF RenderStep
<1>6. CASE ProcessClearTransport
  BY <1>6 DEF ProcessClearTransport, NoSeek, AudioGoes, OnlyAudio, Elsewhere, PlayerRest
<1>7. CASE ProcessClearCue
  BY <1>7 DEF ProcessClearCue, NoSeek, AudioGoes, OnlyAudio, Elsewhere, PlayerRest
<1>8. CASE ProcessTakeCue
  BY <1>8 DEF ProcessTakeCue, NoRender, Intends, HeardTrack, OnlyAudio, Elsewhere, PlayerRest
<1> QED
  BY <1>1, <1>2, <1>3, <1>4, <1>5, <1>6, <1>7, <1>8
  DEF PlayerNext, Handlers, Callbacks, Process

(* A call of PreparedPlayback begins at one place of the loop and ends there.*)
LEMMA CallPlaceStep == PlayerInv /\ PlayerNext => CallPlace'
<1> SUFFICES ASSUME PlayerInv, PlayerNext PROVE CallPlace'
  OBVIOUS
<1> USE DEF PlayerInv, preparedVars, workerSide, audioSide, requests, seeks, PlayerTypeOK,
            CallPlace, OneRequest, HandoffPlace, SlotIds, OpPcs, WorkerCalls, AudioCalls,
            AudioPcs, Cells, SlotRecords, RendRecords, Handoffs, Loads, Requests, RequestTypes,
            LoopPcs, Publishes, Tells, Prepares, Collects, Executes
<1>1. CASE WorkerOp /\ UNCHANGED <<requests, request, loop, stopping, seeks, calls>>
  <2>1. CASE PublishBegin
    BY <1>1, <2>1 DEF PublishBegin, Publishing
  <2>2. CASE PublishEnd
    BY <1>1, <2>2 DEF PublishEnd, Returned
  <2>3. CASE PrepareOpen
    BY <1>1, <2>3 DEF PrepareOpen, Reset, Transition, Publishing, Candidate
  <2>4. CASE PrepareOffer
    BY <1>1, <2>4 DEF PrepareOffer, Returned
  <2>5. CASE CollectCommitted
    BY <1>1, <2>5 DEF CollectCommitted, Reset, Transition, Publishing, Candidate
  <2>6. CASE CollectProtected
    BY <1>1, <2>6 DEF CollectProtected, Reset, Transition, Publishing, Candidate
  <2>7. CASE CollectSettle
    BY <1>1, <2>7 DEF CollectSettle, Returned
  <2>8. CASE CancelClose
    BY <1>1, <2>8 DEF CancelClose, Reset, Transition, Publishing, Candidate
  <2>9. CASE SeekEnd
    BY <1>1, <2>9 DEF SeekEnd, Returned, Transition, Suspend
  <2>10. CASE CloseEnd
    BY <1>1, <2>10 DEF CloseEnd, Returned, Reset, Transition
  <2> QED
    BY <1>1, <2>1, <2>2, <2>3, <2>4, <2>5, <2>6, <2>7, <2>8, <2>9, <2>10 DEF WorkerOp
<1>2. CASE LoopTop
  BY <1>2 DEF LoopTop, At, Stay, RefillCall, Returned
<1>3. CASE LoopPending
  BY <1>3 DEF LoopPending, At, Stay, Pending, CancelLoadCall, Withdrawable, Returned
<1>4. CASE LoopTake
  BY <1>4
  DEF LoopTake, At, Stay, CancelQueued, CancelRequestCall, Publishing, Taken, ClearRequests,
      NoRequest, Request
<1>5. CASE LoopClearTransport
  BY <1>5 DEF LoopClearTransport, At, Stay, NoSeek
<1>6. CASE LoopClearCue
  BY <1>6 DEF LoopClearCue, At, Stay, NoSeek
<1>7. CASE LoopExecute
  <2>1. CASE request.type = "Load" /\ Pending
    BY <1>7, <2>1
    DEF LoopExecute, At, Stay, PrepareCall, Pending, Publishing, Returned, SeekCall, CloseCall,
        TransitionCall, Suspend
  <2>2. CASE request.type = "Load" /\ request.id = 0
    BY <1>7, <2>2
    DEF LoopExecute, At, Stay, PrepareCall, Pending, Publishing, Returned, SeekCall, CloseCall,
        TransitionCall, Suspend
  <2>3. CASE request.type = "Load" /\ ~ Pending /\ request.id # 0
    <3>1. /\ Announces(request.id, "Preparing", "open")
            /\ loop = "execute" /\ loop' = "refill"
            /\ UNCHANGED <<requests, request, stopping>>
      BY <1>7, <2>3, LoadBegun DEF PlayerInv
    <3> QED
      BY <2>3, <3>1 DEF NoRequest, Announces
  <2>4. CASE request.type = "Seek"
    BY <1>7, <2>4
    DEF LoopExecute, At, Stay, PrepareCall, Pending, Publishing, Returned, SeekCall, CloseCall,
        TransitionCall, Suspend
  <2>5. CASE request.type = "Unload"
    BY <1>7, <2>5
    DEF LoopExecute, At, Stay, PrepareCall, Pending, Publishing, Returned, SeekCall, CloseCall,
        TransitionCall, Suspend
  <2> QED
    BY <1>7, <2>1, <2>2, <2>3, <2>4, <2>5 DEF LoopExecute, At
<1>8. CASE LoopCueIntent
  BY <1>8
  DEF LoopCueIntent, At, Stay, Intent, Request, NoSeek, SeekCall, TransitionCall, Suspend,
      Pending, Returned
<1>9. CASE LoopTransportIntent
  BY <1>9
  DEF LoopTransportIntent, At, Stay, Intent, Request, NoSeek, SeekCall, TransitionCall, Suspend,
      Pending, Returned
<1>10. CASE LoopRefill
  BY <1>10 DEF LoopRefill, At, Stay, RefillCall, Returned
<1>11. CASE LoopSettle
  BY <1>11 DEF LoopSettle, At, Stay, Pending, NoRequest
<1>12. CASE Handlers \/ OnEnable \/ OnDisable
  BY <1>12, CallFrame
<1>13. CASE OnStart
  BY <1>13 DEF OnStart
<1>14. CASE OnStop
  BY <1>14 DEF OnStop, Call, Running
<1>15. CASE OnStopClear
  BY <1>15 DEF OnStopClear, CancelRequestCall, Publishing, NoRequest
<1>16. CASE OnStopShutdown
  BY <1>16 DEF OnStopShutdown, Shutdown, Candidate
<1>17. CASE ProcessBegin \/ Process
  BY <1>17, AudioFrame
<1> QED
  BY <1>1, <1>2, <1>3, <1>4, <1>5, <1>6, <1>7, <1>8, <1>9, <1>10, <1>11, <1>12, <1>13, <1>14,
     <1>15, <1>16, <1>17
  DEF PlayerNext, Handlers, Callbacks, Stops, WorkerLoop, Process

(* A command is taken only when no load is under way.                        *)
LEMMA OneRequestStep == PlayerInv /\ PlayerNext => OneRequest'
<1> SUFFICES ASSUME PlayerInv, PlayerNext PROVE OneRequest'
  OBVIOUS
<1> USE DEF PlayerInv, preparedVars, workerSide, audioSide, requests, seeks, PlayerTypeOK,
            CallPlace, OneRequest, HandoffPlace, AudioPlace, SlotIds, OpPcs, WorkerCalls,
            AudioCalls, AudioPcs, Cells, SlotRecords, RendRecords, Handoffs, Loads, Requests,
            RequestTypes, LoopPcs, Publishes, Tells, Prepares, Collects, Executes, Pending
<1>1. CASE WorkerOp /\ UNCHANGED <<requests, request, loop, stopping, seeks, calls>>
  <2>1. CASE PublishBegin
    BY <1>1, <2>1 DEF PublishBegin, Publishing
  <2>2. CASE PublishEnd
    BY <1>1, <2>2 DEF PublishEnd, Returned
  <2>3. CASE PrepareOpen
    BY <1>1, <2>3 DEF PrepareOpen, Reset, Transition, Publishing, Candidate
  <2>4. CASE PrepareOffer
    BY <1>1, <2>4 DEF PrepareOffer, Returned
  <2>5. CASE CollectCommitted
    BY <1>1, <2>5 DEF CollectCommitted, Reset, Transition, Publishing, Candidate
  <2>6. CASE CollectProtected
    BY <1>1, <2>6 DEF CollectProtected, Reset, Transition, Publishing, Candidate
  <2>7. CASE CollectSettle
    BY <1>1, <2>7 DEF CollectSettle, Returned
  <2>8. CASE CancelClose
    BY <1>1, <2>8 DEF CancelClose, Reset, Transition, Publishing, Candidate
  <2>9. CASE SeekEnd
    BY <1>1, <2>9 DEF SeekEnd, Returned, Transition, Suspend
  <2>10. CASE CloseEnd
    BY <1>1, <2>10 DEF CloseEnd, Returned, Reset, Transition
  <2> QED
    BY <1>1, <2>1, <2>2, <2>3, <2>4, <2>5, <2>6, <2>7, <2>8, <2>9, <2>10 DEF WorkerOp
<1>2. CASE LoopTop
  BY <1>2 DEF LoopTop, At, Stay, RefillCall, Returned
<1>3. CASE LoopPending
  BY <1>3 DEF LoopPending, At, Stay, CancelLoadCall, Withdrawable, Returned
<1>4. CASE LoopTake
  <2>1. CASE stopping
    BY <1>4, <2>1
    DEF LoopTake, At, Stay, CancelQueued, CancelRequestCall, Publishing, Taken, ClearRequests,
        NoRequest, Request
  <2>2. CASE ~ stopping /\ lifecycle.type = "None"
    BY <1>4, <2>2
    DEF LoopTake, At, Stay, CancelQueued, CancelRequestCall, Publishing, Taken, ClearRequests,
        NoRequest, Request
  <2>3. CASE ~ stopping /\ lifecycle.type # "None" /\ pending.type = "Load"
    <3>1. /\ Announces(pending.id, "Cancelled", "idle")
            /\ loop = "take" /\ loop' = "clearTransport"
            /\ request' = lifecycle /\ inProgress' = TRUE
            /\ lifecycle' = NoRequest /\ pending' = NoRequest /\ stopping' = stopping
      BY <1>4, <2>3, QueuedLoadCancelled DEF PlayerInv
    <3> QED
      BY <2>3, <3>1 DEF NoRequest, Announces
  <2>4. CASE ~ stopping /\ lifecycle.type # "None" /\ pending.type # "Load"
    BY <1>4, <2>4
    DEF LoopTake, At, Stay, CancelQueued, CancelRequestCall, Publishing, Taken, ClearRequests,
        NoRequest, Request
  <2> QED
    BY <1>4, <2>1, <2>2, <2>3, <2>4 DEF LoopTake, At
<1>5. CASE LoopClearTransport
  BY <1>5 DEF LoopClearTransport, At, Stay, NoSeek
<1>6. CASE LoopClearCue
  BY <1>6 DEF LoopClearCue, At, Stay, NoSeek
<1>7. CASE LoopExecute
  BY <1>7
  DEF LoopExecute, At, Stay, PrepareCall, Publishing, Returned, SeekCall, CloseCall,
      TransitionCall, Suspend
<1>8. CASE LoopCueIntent
  BY <1>8
  DEF LoopCueIntent, At, Stay, Intent, Request, NoSeek, SeekCall, TransitionCall, Suspend,
      Returned
<1>9. CASE LoopTransportIntent
  BY <1>9
  DEF LoopTransportIntent, At, Stay, Intent, Request, NoSeek, SeekCall, TransitionCall, Suspend,
      Returned
<1>10. CASE LoopRefill
  BY <1>10 DEF LoopRefill, At, Stay, RefillCall, Returned
<1>11. CASE LoopSettle
  BY <1>11 DEF LoopSettle, At, Stay, NoRequest
<1>12. CASE HandleLoad
  BY <1>12 DEF HandleLoad, Call, Busy, Exhausted, Request
<1>13. CASE HandleOther("Seek")
  BY <1>13 DEF HandleOther, Call, Busy, Request
<1>14. CASE HandleOther("Unload")
  BY <1>14 DEF HandleOther, Call, Busy, Request
<1>15. CASE OnEnable
  BY <1>15 DEF OnEnable, Call, Running, Exhausted, Request
<1>16. CASE OnDisable
  BY <1>16 DEF OnDisable, Call, Running, Request
<1>17. CASE OnStart
  BY <1>17 DEF OnStart
<1>18. CASE OnStop
  BY <1>18 DEF OnStop, Call, Running
<1>19. CASE OnStopClear
  BY <1>19 DEF OnStopClear, CancelRequestCall, Publishing, NoRequest
<1>20. CASE OnStopShutdown
  BY <1>20 DEF OnStopShutdown, Shutdown, Candidate
<1>21. CASE ProcessBegin \/ Process
  <2>1. CASE RenderClaim
    BY <1>21, <2>1, AudioFrame DEF RenderClaim
  <2>2. CASE RenderAck
    BY <1>21, <2>2, AudioFrame DEF RenderAck
  <2>3. CASE UNCHANGED handoff
    BY <1>21, <2>3, AudioFrame
  <2> QED
    BY <1>21, <2>1, <2>2, <2>3, QuietFrame
<1> QED
  BY <1>1, <1>2, <1>3, <1>4, <1>5, <1>6, <1>7, <1>8, <1>9, <1>10, <1>11, <1>12, <1>13, <1>14,
     <1>15, <1>16, <1>17, <1>18, <1>19, <1>20, <1>21
  DEF PlayerNext, Handlers, Callbacks, Stops, WorkerLoop, Process

(* The handoff word moves only as the worker's call and the render allow.    *)
LEMMA HandoffPlaceStep == PlayerInv /\ PlayerNext => HandoffPlace'
<1> SUFFICES ASSUME PlayerInv, PlayerNext PROVE HandoffPlace'
  OBVIOUS
<1> USE DEF PlayerInv, preparedVars, workerSide, audioSide, requests, seeks, PlayerTypeOK,
            CallPlace, OneRequest, HandoffPlace, AudioPlace, StopPlace, SlotIds, OpPcs,
            WorkerCalls, AudioCalls, AudioPcs, Cells, SlotRecords, RendRecords, Handoffs, Loads,
            Requests, RequestTypes, LoopPcs, Publishes, Tells, Prepares, Collects, Executes,
            Pending
<1>1. CASE WorkerOp /\ UNCHANGED <<requests, request, loop, stopping, seeks, calls>>
  <2>1. CASE PublishBegin
    BY <1>1, <2>1 DEF PublishBegin, Publishing
  <2>2. CASE PublishEnd
    BY <1>1, <2>2 DEF PublishEnd, Returned
  <2>3. CASE PrepareOpen
    <3>1. CASE preparedId' = op.id /\ op' = Publishing(op, op.id, "Prepared", "offer") /\ slot' = Transition(Candidate, op.id)
      BY <1>1, <2>3, <3>1 DEF PrepareOpen, Reset, Transition, Publishing, Candidate
    <3>2. CASE preparedId' = preparedId /\ op' = Publishing(op, op.id, "Failed", "idle") /\ slot' = Reset(Candidate)
      BY <1>1, <2>3, <3>2 DEF PrepareOpen, Reset, Transition, Publishing, Candidate
    <3> QED
      BY <1>1, <2>3, <3>1, <3>2 DEF PrepareOpen, At
  <2>4. CASE PrepareOffer
    BY <1>1, <2>4 DEF PrepareOffer, Returned
  <2>5. CASE CollectCommitted
    BY <1>1, <2>5 DEF CollectCommitted, Reset, Transition, Publishing, Candidate
  <2>6. CASE CollectProtected
    BY <1>1, <2>6 DEF CollectProtected, Reset, Transition, Publishing, Candidate
  <2>7. CASE CollectSettle
    BY <1>1, <2>7 DEF CollectSettle, Returned
  <2>8. CASE CancelClose
    BY <1>1, <2>8 DEF CancelClose, Reset, Transition, Publishing, Candidate
  <2>9. CASE SeekEnd
    BY <1>1, <2>9 DEF SeekEnd, Returned, Transition, Suspend
  <2>10. CASE CloseEnd
    BY <1>1, <2>10 DEF CloseEnd, Returned, Reset, Transition
  <2> QED
    BY <1>1, <2>1, <2>2, <2>3, <2>4, <2>5, <2>6, <2>7, <2>8, <2>9, <2>10 DEF WorkerOp
<1>2. CASE LoopTop
  BY <1>2 DEF LoopTop, At, Stay, RefillCall, Returned
<1>3. CASE LoopPending
  BY <1>3 DEF LoopPending, At, Stay, CancelLoadCall, Withdrawable, Returned
<1>4. CASE LoopTake
  <2>1. CASE stopping
    BY <1>4, <2>1
    DEF LoopTake, At, Stay, CancelQueued, CancelRequestCall, Publishing, Taken, ClearRequests,
        NoRequest, Request
  <2>2. CASE ~ stopping /\ lifecycle.type = "None"
    BY <1>4, <2>2
    DEF LoopTake, At, Stay, CancelQueued, CancelRequestCall, Publishing, Taken, ClearRequests,
        NoRequest, Request
  <2>3. CASE ~ stopping /\ lifecycle.type # "None" /\ pending.type = "Load"
    <3>1. /\ Announces(pending.id, "Cancelled", "idle")
            /\ loop = "take" /\ loop' = "clearTransport"
            /\ request' = lifecycle /\ inProgress' = TRUE
            /\ lifecycle' = NoRequest /\ pending' = NoRequest /\ stopping' = stopping
      BY <1>4, <2>3, QueuedLoadCancelled DEF PlayerInv
    <3> QED
      BY <2>3, <3>1 DEF NoRequest, Announces
  <2>4. CASE ~ stopping /\ lifecycle.type # "None" /\ pending.type # "Load"
    BY <1>4, <2>4
    DEF LoopTake, At, Stay, CancelQueued, CancelRequestCall, Publishing, Taken, ClearRequests,
        NoRequest, Request
  <2> QED
    BY <1>4, <2>1, <2>2, <2>3, <2>4 DEF LoopTake, At
<1>5. CASE LoopClearTransport
  BY <1>5 DEF LoopClearTransport, At, Stay, NoSeek
<1>6. CASE LoopClearCue
  BY <1>6 DEF LoopClearCue, At, Stay, NoSeek
<1>7. CASE LoopExecute
  <2>1. CASE request.type = "Load" /\ Pending
    BY <1>7, <2>1
    DEF LoopExecute, At, Stay, PrepareCall, Publishing, Returned, SeekCall, CloseCall,
        TransitionCall, Suspend
  <2>2. CASE request.type = "Load" /\ request.id = 0
    BY <1>7, <2>2
    DEF LoopExecute, At, Stay, PrepareCall, Publishing, Returned, SeekCall, CloseCall,
        TransitionCall, Suspend
  <2>3. CASE request.type = "Load" /\ ~ Pending /\ request.id # 0
    <3>1. /\ Announces(request.id, "Preparing", "open")
            /\ loop = "execute" /\ loop' = "refill"
            /\ UNCHANGED <<requests, request, stopping>>
      BY <1>7, <2>3, LoadBegun DEF PlayerInv
    <3> QED
      BY <2>3, <3>1 DEF NoRequest, Announces
  <2>4. CASE request.type = "Seek"
    BY <1>7, <2>4
    DEF LoopExecute, At, Stay, PrepareCall, Publishing, Returned, SeekCall, CloseCall,
        TransitionCall, Suspend
  <2>5. CASE request.type = "Unload"
    BY <1>7, <2>5
    DEF LoopExecute, At, Stay, PrepareCall, Publishing, Returned, SeekCall, CloseCall,
        TransitionCall, Suspend
  <2> QED
    BY <1>7, <2>1, <2>2, <2>3, <2>4, <2>5 DEF LoopExecute, At
<1>8. CASE LoopCueIntent
  BY <1>8
  DEF LoopCueIntent, At, Stay, Intent, Request, NoSeek, SeekCall, TransitionCall, Suspend,
      Returned
<1>9. CASE LoopTransportIntent
  BY <1>9
  DEF LoopTransportIntent, At, Stay, Intent, Request, NoSeek, SeekCall, TransitionCall, Suspend,
      Returned
<1>10. CASE LoopRefill
  BY <1>10 DEF LoopRefill, At, Stay, RefillCall, Returned
<1>11. CASE LoopSettle
  BY <1>11 DEF LoopSettle, At, Stay, NoRequest
<1>12. CASE Handlers \/ OnEnable \/ OnDisable
  BY <1>12, CallFrame
<1>13. CASE OnStart
  BY <1>13 DEF OnStart
<1>14. CASE OnStop
  BY <1>14 DEF OnStop, Call, Running
<1>15. CASE OnStopClear
  <2>1. CASE pending.type = "Load"
    <3>1. /\ Announces(pending.id, "Cancelled", "idle")
            /\ loop = "exited" /\ loop' = "joined"
            /\ request' = request /\ inProgress' = FALSE
            /\ lifecycle' = NoRequest /\ pending' = NoRequest /\ stopping' = stopping
      BY <1>15, <2>1, StoppedLoadCancelled DEF PlayerInv
    <3> QED
      BY <2>1, <3>1 DEF NoRequest, Announces
  <2>2. CASE pending.type # "Load"
    BY <1>15, <2>2 DEF OnStopClear, CancelRequestCall, Publishing, NoRequest
  <2> QED
    BY <1>15, <2>1, <2>2 DEF OnStopClear, At
<1>16. CASE OnStopShutdown
  BY <1>16 DEF OnStopShutdown, Shutdown, Candidate
<1>17. CASE ProcessBegin \/ Process
  <2>1. CASE RenderClaim
    BY <1>17, <2>1, AudioFrame DEF RenderClaim
  <2>2. CASE RenderAck
    BY <1>17, <2>2, AudioFrame DEF RenderAck
  <2>3. CASE UNCHANGED handoff
    BY <1>17, <2>3, AudioFrame
  <2> QED
    BY <1>17, <2>1, <2>2, <2>3, QuietFrame
<1> QED
  BY <1>1, <1>2, <1>3, <1>4, <1>5, <1>6, <1>7, <1>8, <1>9, <1>10, <1>11, <1>12, <1>13, <1>14,
     <1>15, <1>16, <1>17
  DEF PlayerNext, Handlers, Callbacks, Stops, WorkerLoop, Process

(* A claimed load is acknowledged before the render ends.                    *)
LEMMA AudioPlaceStep == PlayerInv /\ PlayerNext => AudioPlace'
<1> SUFFICES ASSUME PlayerInv, PlayerNext PROVE AudioPlace'
  OBVIOUS
<1> USE DEF PlayerInv, preparedVars, workerSide, audioSide, requests, seeks, PlayerTypeOK,
            HandoffPlace, AudioPlace, HandoffSlots, StopPlace, CallPlace, SlotIds, OpPcs,
            WorkerCalls, AudioCalls, AudioPcs, Cells, SlotRecords, RendRecords, Handoffs, Loads,
            Requests, RequestTypes, LoopPcs, Publishes, Tells, Prepares, Collects, Executes,
            Candidate
<1>1. CASE WorkerOp /\ UNCHANGED <<requests, request, loop, stopping, seeks, calls>>
  <2>1. CASE PublishBegin
    BY <1>1, <2>1 DEF PublishBegin, Publishing
  <2>2. CASE PublishEnd
    BY <1>1, <2>2 DEF PublishEnd, Returned
  <2>3. CASE PrepareOpen
    BY <1>1, <2>3 DEF PrepareOpen, Reset, Transition, Publishing
  <2>4. CASE PrepareOffer
    BY <1>1, <2>4 DEF PrepareOffer, Returned
  <2>5. CASE CollectCommitted
    BY <1>1, <2>5 DEF CollectCommitted, Reset, Transition, Publishing
  <2>6. CASE CollectProtected
    BY <1>1, <2>6 DEF CollectProtected, Reset, Transition, Publishing
  <2>7. CASE CollectSettle
    BY <1>1, <2>7 DEF CollectSettle, Returned
  <2>8. CASE CancelClose
    BY <1>1, <2>8 DEF CancelClose, Reset, Transition, Publishing
  <2>9. CASE SeekEnd
    BY <1>1, <2>9 DEF SeekEnd, Returned, Transition, Suspend
  <2>10. CASE CloseEnd
    BY <1>1, <2>10 DEF CloseEnd, Returned, Reset, Transition
  <2> QED
    BY <1>1, <2>1, <2>2, <2>3, <2>4, <2>5, <2>6, <2>7, <2>8, <2>9, <2>10 DEF WorkerOp
<1>2. CASE LoopTop
  BY <1>2 DEF LoopTop, At, Stay, RefillCall, Returned
<1>3. CASE LoopPending
  BY <1>3 DEF LoopPending, At, Stay, Pending, CancelLoadCall, Withdrawable, Returned
<1>4. CASE LoopTake
  BY <1>4
  DEF LoopTake, At, Stay, CancelQueued, CancelRequestCall, Publishing, Taken, ClearRequests,
      NoRequest, Request
<1>5. CASE LoopClearTransport
  BY <1>5 DEF LoopClearTransport, At, Stay, NoSeek
<1>6. CASE LoopClearCue
  BY <1>6 DEF LoopClearCue, At, Stay, NoSeek
<1>7. CASE LoopExecute
  BY <1>7
  DEF LoopExecute, At, Stay, PrepareCall, Pending, Publishing, Returned, SeekCall, CloseCall,
      TransitionCall, Suspend
<1>8. CASE LoopCueIntent
  BY <1>8
  DEF LoopCueIntent, At, Stay, Intent, Request, NoSeek, SeekCall, TransitionCall, Suspend,
      Pending, Returned
<1>9. CASE LoopTransportIntent
  BY <1>9
  DEF LoopTransportIntent, At, Stay, Intent, Request, NoSeek, SeekCall, TransitionCall, Suspend,
      Pending, Returned
<1>10. CASE LoopRefill
  BY <1>10 DEF LoopRefill, At, Stay, RefillCall, Returned
<1>11. CASE LoopSettle
  BY <1>11 DEF LoopSettle, At, Stay, Pending, NoRequest
<1>12. CASE Handlers \/ OnEnable \/ OnDisable
  BY <1>12, CallFrame
<1>13. CASE OnStart
  BY <1>13 DEF OnStart
<1>14. CASE OnStop
  BY <1>14 DEF OnStop, Call, Running
<1>15. CASE OnStopClear
  BY <1>15 DEF OnStopClear, CancelRequestCall, Publishing, NoRequest
<1>16. CASE OnStopShutdown
  BY <1>16 DEF OnStopShutdown, Shutdown
<1>17. CASE ProcessBegin
  BY <1>17
  DEF ProcessBegin, Running, NoRender, Intends, HeardTrack, Elsewhere, PlayerRest, NoSeek
<1>18. CASE RenderStep /\ UNCHANGED <<seeks, calls>> /\ PlayerRest
  <2>1. CASE RenderReadLoad
    BY <1>18, <2>1 DEF RenderReadLoad, PlayerRest, Readable
  <2>2. CASE RenderClaim
    BY <1>18, <2>2 DEF RenderClaim, PlayerRest
  <2>3. CASE RenderDecide
    BY <1>18, <2>3
    DEF RenderDecide, PlayerRest, Protects, Decide, RetireRenderer, AdoptCandidate
  <2>4. CASE RenderActive
    BY <1>18, <2>4 DEF RenderActive, PlayerRest
  <2>5. CASE RenderIdentify
    BY <1>18, <2>5 DEF RenderIdentify, PlayerRest
  <2>6. CASE RenderAck
    BY <1>18, <2>6 DEF RenderAck, PlayerRest
  <2> QED
    BY <1>18, <2>1, <2>2, <2>3, <2>4, <2>5, <2>6 DEF RenderStep
<1>19. CASE ProcessClearTransport
  BY <1>19 DEF ProcessClearTransport, NoSeek, AudioGoes, OnlyAudio, Elsewhere, PlayerRest
<1>20. CASE ProcessClearCue
  BY <1>20 DEF ProcessClearCue, NoSeek, AudioGoes, OnlyAudio, Elsewhere, PlayerRest
<1>21. CASE ProcessTakeCue
  BY <1>21 DEF ProcessTakeCue, NoRender, Intends, HeardTrack, OnlyAudio, Elsewhere, PlayerRest
<1> QED
  BY <1>1, <1>2, <1>3, <1>4, <1>5, <1>6, <1>7, <1>8, <1>9, <1>10, <1>11, <1>12, <1>13, <1>14,
     <1>15, <1>16, <1>17, <1>18, <1>19, <1>20, <1>21
  DEF PlayerNext, Handlers, Callbacks, Stops, WorkerLoop, Process

(* The two slot indices agree whenever nothing is handed over.               *)
LEMMA HandoffSlotsStep == PlayerInv /\ PlayerNext => HandoffSlots'
<1> SUFFICES ASSUME PlayerInv, PlayerNext PROVE HandoffSlots'
  OBVIOUS
<1> USE DEF PlayerInv, preparedVars, workerSide, audioSide, requests, seeks, PlayerTypeOK,
            HandoffPlace, OneRequest, AudioPlace, HandoffSlots, StopPlace, CallPlace, SlotIds,
            OpPcs, WorkerCalls, AudioCalls, AudioPcs, Cells, SlotRecords, RendRecords, Handoffs,
            Loads, Requests, RequestTypes, LoopPcs, Publishes, Tells, Prepares, Collects,
            Executes, Candidate, Pending
<1>1. CASE WorkerOp /\ UNCHANGED <<requests, request, loop, stopping, seeks, calls>>
  <2>1. CASE PublishBegin
    BY <1>1, <2>1 DEF PublishBegin, Publishing
  <2>2. CASE PublishEnd
    BY <1>1, <2>2 DEF PublishEnd, Returned
  <2>3. CASE PrepareOpen
    BY <1>1, <2>3 DEF PrepareOpen, Reset, Transition, Publishing
  <2>4. CASE PrepareOffer
    BY <1>1, <2>4 DEF PrepareOffer, Returned
  <2>5. CASE CollectCommitted
    BY <1>1, <2>5 DEF CollectCommitted, Reset, Transition, Publishing
  <2>6. CASE CollectProtected
    BY <1>1, <2>6 DEF CollectProtected, Reset, Transition, Publishing
  <2>7. CASE CollectSettle
    BY <1>1, <2>7 DEF CollectSettle, Returned
  <2>8. CASE CancelClose
    BY <1>1, <2>8 DEF CancelClose, Reset, Transition, Publishing
  <2>9. CASE SeekEnd
    BY <1>1, <2>9 DEF SeekEnd, Returned, Transition, Suspend
  <2>10. CASE CloseEnd
    BY <1>1, <2>10 DEF CloseEnd, Returned, Reset, Transition
  <2> QED
    BY <1>1, <2>1, <2>2, <2>3, <2>4, <2>5, <2>6, <2>7, <2>8, <2>9, <2>10 DEF WorkerOp
<1>2. CASE LoopTop
  BY <1>2 DEF LoopTop, At, Stay, RefillCall, Returned
<1>3. CASE LoopPending
  BY <1>3 DEF LoopPending, At, Stay, CancelLoadCall, Withdrawable, Returned
<1>4. CASE LoopTake
  BY <1>4
  DEF LoopTake, At, Stay, CancelQueued, CancelRequestCall, Publishing, Taken, ClearRequests,
      NoRequest, Request
<1>5. CASE LoopClearTransport
  BY <1>5 DEF LoopClearTransport, At, Stay, NoSeek
<1>6. CASE LoopClearCue
  BY <1>6 DEF LoopClearCue, At, Stay, NoSeek
<1>7. CASE LoopExecute
  BY <1>7
  DEF LoopExecute, At, Stay, PrepareCall, Publishing, Returned, SeekCall, CloseCall,
      TransitionCall, Suspend
<1>8. CASE LoopCueIntent
  BY <1>8
  DEF LoopCueIntent, At, Stay, Intent, Request, NoSeek, SeekCall, TransitionCall, Suspend,
      Returned
<1>9. CASE LoopTransportIntent
  BY <1>9
  DEF LoopTransportIntent, At, Stay, Intent, Request, NoSeek, SeekCall, TransitionCall, Suspend,
      Returned
<1>10. CASE LoopRefill
  BY <1>10 DEF LoopRefill, At, Stay, RefillCall, Returned
<1>11. CASE LoopSettle
  BY <1>11 DEF LoopSettle, At, Stay, NoRequest
<1>12. CASE Handlers \/ OnEnable \/ OnDisable
  BY <1>12, CallFrame
<1>13. CASE OnStart
  BY <1>13 DEF OnStart
<1>14. CASE OnStop
  BY <1>14 DEF OnStop, Call, Running
<1>15. CASE OnStopClear
  <2>1. CASE pending.type = "Load"
    <3>1. /\ Announces(pending.id, "Cancelled", "idle")
            /\ loop = "exited" /\ loop' = "joined"
            /\ request' = request /\ inProgress' = FALSE
            /\ lifecycle' = NoRequest /\ pending' = NoRequest /\ stopping' = stopping
      BY <1>15, <2>1, StoppedLoadCancelled DEF PlayerInv
    <3> QED
      BY <2>1, <3>1 DEF NoRequest, Announces
  <2>2. CASE pending.type # "Load"
    BY <1>15, <2>2 DEF OnStopClear, CancelRequestCall, Publishing, NoRequest
  <2> QED
    BY <1>15, <2>1, <2>2 DEF OnStopClear, At
<1>16. CASE OnStopShutdown
  BY <1>16 DEF OnStopShutdown, Shutdown
<1>17. CASE ProcessBegin
  BY <1>17
  DEF ProcessBegin, Running, NoRender, Intends, HeardTrack, Elsewhere, PlayerRest, NoSeek
<1>18. CASE RenderStep /\ UNCHANGED <<seeks, calls>> /\ PlayerRest
  <2>1. CASE RenderReadLoad
    BY <1>18, <2>1 DEF RenderReadLoad, PlayerRest, Readable
  <2>2. CASE RenderClaim
    BY <1>18, <2>2 DEF RenderClaim, PlayerRest
  <2>3. CASE RenderDecide
    BY <1>18, <2>3
    DEF RenderDecide, PlayerRest, Protects, Decide, RetireRenderer, AdoptCandidate
  <2>4. CASE RenderActive
    BY <1>18, <2>4 DEF RenderActive, PlayerRest
  <2>5. CASE RenderIdentify
    BY <1>18, <2>5 DEF RenderIdentify, PlayerRest
  <2>6. CASE RenderAck
    BY <1>18, <2>6 DEF RenderAck, PlayerRest
  <2> QED
    BY <1>18, <2>1, <2>2, <2>3, <2>4, <2>5, <2>6 DEF RenderStep
<1>19. CASE ProcessClearTransport
  BY <1>19 DEF ProcessClearTransport, NoSeek, AudioGoes, OnlyAudio, Elsewhere, PlayerRest
<1>20. CASE ProcessClearCue
  BY <1>20 DEF ProcessClearCue, NoSeek, AudioGoes, OnlyAudio, Elsewhere, PlayerRest
<1>21. CASE ProcessTakeCue
  BY <1>21 DEF ProcessTakeCue, NoRender, Intends, HeardTrack, OnlyAudio, Elsewhere, PlayerRest
<1> QED
  BY <1>1, <1>2, <1>3, <1>4, <1>5, <1>6, <1>7, <1>8, <1>9, <1>10, <1>11, <1>12, <1>13, <1>14,
     <1>15, <1>16, <1>17, <1>18, <1>19, <1>20, <1>21
  DEF PlayerNext, Handlers, Callbacks, Stops, WorkerLoop, Process

(* The reported track is that of the slot that is rendered.                  *)
LEMMA TrackPlaceStep == PlayerInv /\ PlayerNext => TrackPlace'
<1> SUFFICES ASSUME PlayerInv, PlayerNext PROVE TrackPlace'
  OBVIOUS
<1> USE DEF PlayerInv, preparedVars, workerSide, audioSide, requests, seeks, PlayerTypeOK,
            CallPlace, HandoffPlace, AudioPlace, HandoffSlots, TrackPlace, StopPlace, SlotIds,
            OpPcs, WorkerCalls, AudioCalls, AudioPcs, Cells, SlotRecords, RendRecords, Handoffs,
            Loads, Requests, RequestTypes, Publishes, Tells, Prepares, Collects, Executes,
            Candidate, HeardTrack, Offers
<1>1. CASE WorkerOp /\ UNCHANGED <<requests, request, loop, stopping, seeks, calls>>
  <2>1. CASE PublishBegin
    BY <1>1, <2>1 DEF PublishBegin, Publishing
  <2>2. CASE PublishEnd
    BY <1>1, <2>2 DEF PublishEnd, Returned
  <2>3. CASE PrepareOpen
    <3>1. CASE preparedId' = op.id /\ op' = Publishing(op, op.id, "Prepared", "offer") /\ slot' = Transition(Candidate, op.id)
      BY <1>1, <2>3, <3>1 DEF PrepareOpen, Reset, Transition, Publishing
    <3>2. CASE preparedId' = preparedId /\ op' = Publishing(op, op.id, "Failed", "idle") /\ slot' = Reset(Candidate)
      BY <1>1, <2>3, <3>2 DEF PrepareOpen, Reset, Transition, Publishing
    <3> QED
      BY <1>1, <2>3, <3>1, <3>2 DEF PrepareOpen, At
  <2>4. CASE PrepareOffer
    BY <1>1, <2>4 DEF PrepareOffer, Returned
  <2>5. CASE CollectCommitted
    BY <1>1, <2>5 DEF CollectCommitted, Reset, Transition, Publishing
  <2>6. CASE CollectProtected
    BY <1>1, <2>6 DEF CollectProtected, Reset, Transition, Publishing
  <2>7. CASE CollectSettle
    BY <1>1, <2>7 DEF CollectSettle, Returned
  <2>8. CASE CancelClose
    BY <1>1, <2>8 DEF CancelClose, Reset, Transition, Publishing
  <2>9. CASE SeekEnd
    BY <1>1, <2>9 DEF SeekEnd, Returned, Transition, Suspend
  <2>10. CASE CloseEnd
    BY <1>1, <2>10 DEF CloseEnd, Returned, Reset, Transition
  <2> QED
    BY <1>1, <2>1, <2>2, <2>3, <2>4, <2>5, <2>6, <2>7, <2>8, <2>9, <2>10 DEF WorkerOp
<1>2. CASE LoopTop
  BY <1>2 DEF LoopTop, At, Stay, RefillCall, Returned
<1>3. CASE LoopPending
  BY <1>3 DEF LoopPending, At, Stay, Pending, CancelLoadCall, Withdrawable, Returned
<1>4. CASE LoopTake
  BY <1>4
  DEF LoopTake, At, Stay, CancelQueued, CancelRequestCall, Publishing, Taken, ClearRequests,
      NoRequest, Request
<1>5. CASE LoopClearTransport
  BY <1>5 DEF LoopClearTransport, At, Stay, NoSeek
<1>6. CASE LoopClearCue
  BY <1>6 DEF LoopClearCue, At, Stay, NoSeek
<1>7. CASE LoopExecute
  <2>1. CASE request.type = "Load" /\ Pending
    BY <1>7, <2>1
    DEF LoopExecute, At, Stay, PrepareCall, Pending, Publishing, Returned, SeekCall, CloseCall,
        TransitionCall, Suspend
  <2>2. CASE request.type = "Load" /\ request.id = 0
    BY <1>7, <2>2
    DEF LoopExecute, At, Stay, PrepareCall, Pending, Publishing, Returned, SeekCall, CloseCall,
        TransitionCall, Suspend
  <2>3. CASE request.type = "Load" /\ ~ Pending /\ request.id # 0
    <3>1. /\ Announces(request.id, "Preparing", "open")
            /\ loop = "execute" /\ loop' = "refill"
            /\ UNCHANGED <<requests, request, stopping>>
      BY <1>7, <2>3, LoadBegun DEF PlayerInv
    <3> QED
      BY <2>3, <3>1 DEF NoRequest, Announces
  <2>4. CASE request.type = "Seek"
    BY <1>7, <2>4
    DEF LoopExecute, At, Stay, PrepareCall, Pending, Publishing, Returned, SeekCall, CloseCall,
        TransitionCall, Suspend
  <2>5. CASE request.type = "Unload"
    BY <1>7, <2>5
    DEF LoopExecute, At, Stay, PrepareCall, Pending, Publishing, Returned, SeekCall, CloseCall,
        TransitionCall, Suspend
  <2> QED
    BY <1>7, <2>1, <2>2, <2>3, <2>4, <2>5 DEF LoopExecute, At
<1>8. CASE LoopCueIntent
  BY <1>8
  DEF LoopCueIntent, At, Stay, Intent, Request, NoSeek, SeekCall, TransitionCall, Suspend,
      Pending, Returned
<1>9. CASE LoopTransportIntent
  BY <1>9
  DEF LoopTransportIntent, At, Stay, Intent, Request, NoSeek, SeekCall, TransitionCall, Suspend,
      Pending, Returned
<1>10. CASE LoopRefill
  BY <1>10 DEF LoopRefill, At, Stay, RefillCall, Returned
<1>11. CASE LoopSettle
  BY <1>11 DEF LoopSettle, At, Stay, Pending, NoRequest
<1>12. CASE Handlers \/ OnEnable \/ OnDisable
  BY <1>12, CallFrame
<1>13. CASE OnStart
  BY <1>13 DEF OnStart
<1>14. CASE OnStop
  BY <1>14 DEF OnStop, Call, Running
<1>15. CASE OnStopClear
  <2>1. CASE pending.type = "Load"
    <3>1. /\ Announces(pending.id, "Cancelled", "idle")
            /\ loop = "exited" /\ loop' = "joined"
            /\ request' = request /\ inProgress' = FALSE
            /\ lifecycle' = NoRequest /\ pending' = NoRequest /\ stopping' = stopping
      BY <1>15, <2>1, StoppedLoadCancelled DEF PlayerInv
    <3> QED
      BY <2>1, <3>1 DEF NoRequest, Announces
  <2>2. CASE pending.type # "Load"
    BY <1>15, <2>2 DEF OnStopClear, CancelRequestCall, Publishing, NoRequest
  <2> QED
    BY <1>15, <2>1, <2>2 DEF OnStopClear, At
<1>16. CASE OnStopShutdown
  BY <1>16 DEF OnStopShutdown, Shutdown
<1>17. CASE ProcessBegin
  BY <1>17 DEF ProcessBegin, Running, NoRender, Intends, Elsewhere, PlayerRest, NoSeek
<1>18. CASE RenderStep /\ UNCHANGED <<seeks, calls>> /\ PlayerRest
  <2>1. CASE RenderReadLoad
    BY <1>18, <2>1 DEF RenderReadLoad, PlayerRest, Readable
  <2>2. CASE RenderClaim
    BY <1>18, <2>2 DEF RenderClaim, PlayerRest
  <2>3. CASE RenderDecide
    <3>1. CASE terminal'.state = "Protected"
      <4>1. /\ au.pc = "decide" /\ au'.pc = "render" /\ au'.ack = "Protected"
              /\ terminal'.id = preparedId /\ status' = terminal'
              /\ UNCHANGED <<workerSide, handoff, audioSlot, trackId, rend>>
        BY <1>18, <2>3, <3>1, Decided DEF PlayerInv
      <4>2. UNCHANGED <<requests, request>>
        BY <1>18, <2>3, <3>1
        DEF RenderDecide, PlayerRest, Protects, Decide, RetireRenderer, AdoptCandidate
      <4> QED
        BY <3>1, <4>1, <4>2 DEF NoRequest, Announces
    <3>2. CASE terminal'.state = "Committed"
      <4>1. /\ au.pc = "decide" /\ au'.pc = "render" /\ au'.ack = "Committed"
              /\ terminal'.id = preparedId /\ status' = terminal'
              /\ audioSlot' = 1 - audioSlot /\ trackId' = preparedId
              /\ UNCHANGED <<workerSide, handoff>>
        BY <1>18, <2>3, <3>2, Decided DEF PlayerInv
      <4>2. UNCHANGED <<requests, request>>
        BY <1>18, <2>3, <3>2
        DEF RenderDecide, PlayerRest, Protects, Decide, RetireRenderer, AdoptCandidate
      <4> QED
        BY <3>2, <4>1, <4>2 DEF NoRequest, Announces
    <3> QED
      BY <1>18, <2>3, <3>1, <3>2, Decided
  <2>4. CASE RenderActive
    BY <1>18, <2>4 DEF RenderActive, PlayerRest
  <2>5. CASE RenderIdentify
    BY <1>18, <2>5 DEF RenderIdentify, PlayerRest
  <2>6. CASE RenderAck
    BY <1>18, <2>6 DEF RenderAck, PlayerRest
  <2> QED
    BY <1>18, <2>1, <2>2, <2>3, <2>4, <2>5, <2>6 DEF RenderStep
<1>19. CASE ProcessClearTransport
  BY <1>19 DEF ProcessClearTransport, NoSeek, AudioGoes, OnlyAudio, Elsewhere, PlayerRest
<1>20. CASE ProcessClearCue
  BY <1>20 DEF ProcessClearCue, NoSeek, AudioGoes, OnlyAudio, Elsewhere, PlayerRest
<1>21. CASE ProcessTakeCue
  BY <1>21 DEF ProcessTakeCue, NoRender, Intends, OnlyAudio, Elsewhere, PlayerRest
<1> QED
  BY <1>1, <1>2, <1>3, <1>4, <1>5, <1>6, <1>7, <1>8, <1>9, <1>10, <1>11, <1>12, <1>13, <1>14,
     <1>15, <1>16, <1>17, <1>18, <1>19, <1>20, <1>21
  DEF PlayerNext, Handlers, Callbacks, Stops, WorkerLoop, Process

(* A load is published under a growing ID, and not after its end.            *)
LEMMA IdsInOrderStep == PlayerInv /\ PlayerNext => IdsInOrder'
<1> SUFFICES ASSUME PlayerInv, PlayerNext PROVE IdsInOrder'
  OBVIOUS
<1> USE RequestAssumption
    DEF PlayerInv, preparedVars, workerSide, audioSide, requests, seeks, PlayerTypeOK,
        CallPlace, HandoffPlace, AudioPlace, IdsInOrder, RequestsInOrder, SlotIds, OpPcs,
        WorkerCalls, AudioCalls, AudioPcs, Cells, SlotRecords, RendRecords, Handoffs, Loads,
        Requests, RequestTypes, Publishes, Tells, Prepares, Collects, Executes, Offers,
        Undecided, Waits, RequestIds, LoadStates, TerminalStates
<1>1. CASE WorkerOp /\ UNCHANGED <<requests, request, loop, stopping, seeks, calls>>
  <2>1. CASE PublishBegin
    BY <1>1, <2>1 DEF PublishBegin, Publishing
  <2>2. CASE PublishEnd
    BY <1>1, <2>2 DEF PublishEnd, Returned
  <2>3. CASE PrepareOpen
    <3>1. CASE preparedId' = op.id /\ op' = Publishing(op, op.id, "Prepared", "offer") /\ slot' = Transition(Candidate, op.id)
      BY <1>1, <2>3, <3>1 DEF PrepareOpen, Reset, Transition, Publishing, Candidate
    <3>2. CASE preparedId' = preparedId /\ op' = Publishing(op, op.id, "Failed", "idle") /\ slot' = Reset(Candidate)
      BY <1>1, <2>3, <3>2 DEF PrepareOpen, Reset, Transition, Publishing, Candidate
    <3> QED
      BY <1>1, <2>3, <3>1, <3>2 DEF PrepareOpen, At
  <2>4. CASE PrepareOffer
    BY <1>1, <2>4 DEF PrepareOffer, Returned
  <2>5. CASE CollectCommitted
    BY <1>1, <2>5 DEF CollectCommitted, Reset, Transition, Publishing, Candidate
  <2>6. CASE CollectProtected
    BY <1>1, <2>6 DEF CollectProtected, Reset, Transition, Publishing, Candidate
  <2>7. CASE CollectSettle
    BY <1>1, <2>7 DEF CollectSettle, Returned
  <2>8. CASE CancelClose
    BY <1>1, <2>8 DEF CancelClose, Reset, Transition, Publishing, Candidate
  <2>9. CASE SeekEnd
    BY <1>1, <2>9 DEF SeekEnd, Returned, Transition, Suspend
  <2>10. CASE CloseEnd
    BY <1>1, <2>10 DEF CloseEnd, Returned, Reset, Transition
  <2> QED
    BY <1>1, <2>1, <2>2, <2>3, <2>4, <2>5, <2>6, <2>7, <2>8, <2>9, <2>10 DEF WorkerOp
<1>2. CASE LoopTop
  BY <1>2 DEF LoopTop, At, Stay, RefillCall, Returned
<1>3. CASE LoopPending
  BY <1>3 DEF LoopPending, At, Stay, Pending, CancelLoadCall, Withdrawable, Returned
<1>4. CASE LoopTake
  <2>1. CASE stopping
    BY <1>4, <2>1
    DEF LoopTake, At, Stay, CancelQueued, CancelRequestCall, Publishing, Taken, ClearRequests,
        NoRequest, Request
  <2>2. CASE ~ stopping /\ lifecycle.type = "None"
    BY <1>4, <2>2
    DEF LoopTake, At, Stay, CancelQueued, CancelRequestCall, Publishing, Taken, ClearRequests,
        NoRequest, Request
  <2>3. CASE ~ stopping /\ lifecycle.type # "None" /\ pending.type = "Load"
    <3>1. /\ Announces(pending.id, "Cancelled", "idle")
            /\ loop = "take" /\ loop' = "clearTransport"
            /\ request' = lifecycle /\ inProgress' = TRUE
            /\ lifecycle' = NoRequest /\ pending' = NoRequest /\ stopping' = stopping
      BY <1>4, <2>3, QueuedLoadCancelled DEF PlayerInv
    <3> QED
      BY <2>3, <3>1 DEF NoRequest, Announces
  <2>4. CASE ~ stopping /\ lifecycle.type # "None" /\ pending.type # "Load"
    BY <1>4, <2>4
    DEF LoopTake, At, Stay, CancelQueued, CancelRequestCall, Publishing, Taken, ClearRequests,
        NoRequest, Request
  <2> QED
    BY <1>4, <2>1, <2>2, <2>3, <2>4 DEF LoopTake, At
<1>5. CASE LoopClearTransport
  BY <1>5 DEF LoopClearTransport, At, Stay, NoSeek
<1>6. CASE LoopClearCue
  BY <1>6 DEF LoopClearCue, At, Stay, NoSeek
<1>7. CASE LoopExecute
  <2>1. CASE request.type = "Load" /\ Pending
    BY <1>7, <2>1
    DEF LoopExecute, At, Stay, PrepareCall, Pending, Publishing, Returned, SeekCall, CloseCall,
        TransitionCall, Suspend
  <2>2. CASE request.type = "Load" /\ request.id = 0
    BY <1>7, <2>2
    DEF LoopExecute, At, Stay, PrepareCall, Pending, Publishing, Returned, SeekCall, CloseCall,
        TransitionCall, Suspend
  <2>3. CASE request.type = "Load" /\ ~ Pending /\ request.id # 0
    <3>1. /\ Announces(request.id, "Preparing", "open")
            /\ loop = "execute" /\ loop' = "refill"
            /\ UNCHANGED <<requests, request, stopping>>
      BY <1>7, <2>3, LoadBegun DEF PlayerInv
    <3> QED
      BY <2>3, <3>1 DEF NoRequest, Announces
  <2>4. CASE request.type = "Seek"
    BY <1>7, <2>4
    DEF LoopExecute, At, Stay, PrepareCall, Pending, Publishing, Returned, SeekCall, CloseCall,
        TransitionCall, Suspend
  <2>5. CASE request.type = "Unload"
    BY <1>7, <2>5
    DEF LoopExecute, At, Stay, PrepareCall, Pending, Publishing, Returned, SeekCall, CloseCall,
        TransitionCall, Suspend
  <2> QED
    BY <1>7, <2>1, <2>2, <2>3, <2>4, <2>5 DEF LoopExecute, At
<1>8. CASE LoopCueIntent
  BY <1>8
  DEF LoopCueIntent, At, Stay, Intent, Request, NoSeek, SeekCall, TransitionCall, Suspend,
      Pending, Returned
<1>9. CASE LoopTransportIntent
  BY <1>9
  DEF LoopTransportIntent, At, Stay, Intent, Request, NoSeek, SeekCall, TransitionCall, Suspend,
      Pending, Returned
<1>10. CASE LoopRefill
  BY <1>10 DEF LoopRefill, At, Stay, RefillCall, Returned
<1>11. CASE LoopSettle
  BY <1>11 DEF LoopSettle, At, Stay, Pending, NoRequest
<1>12. CASE HandleLoad
  BY <1>12 DEF HandleLoad, Call, Busy, Exhausted, Request
<1>13. CASE HandleOther("Seek")
  BY <1>13 DEF HandleOther, Call, Busy, Request
<1>14. CASE HandleOther("Unload")
  BY <1>14 DEF HandleOther, Call, Busy, Request
<1>15. CASE OnEnable
  BY <1>15 DEF OnEnable, Call, Running, Exhausted, Request
<1>16. CASE OnDisable
  BY <1>16 DEF OnDisable, Call, Running, Request
<1>17. CASE OnStart
  BY <1>17 DEF OnStart
<1>18. CASE OnStop
  BY <1>18 DEF OnStop, Call, Running
<1>19. CASE OnStopClear
  <2>1. CASE pending.type = "Load"
    <3>1. /\ Announces(pending.id, "Cancelled", "idle")
            /\ loop = "exited" /\ loop' = "joined"
            /\ request' = request /\ inProgress' = FALSE
            /\ lifecycle' = NoRequest /\ pending' = NoRequest /\ stopping' = stopping
      BY <1>19, <2>1, StoppedLoadCancelled DEF PlayerInv
    <3> QED
      BY <2>1, <3>1 DEF NoRequest, Announces
  <2>2. CASE pending.type # "Load"
    BY <1>19, <2>2 DEF OnStopClear, CancelRequestCall, Publishing, NoRequest
  <2> QED
    BY <1>19, <2>1, <2>2 DEF OnStopClear, At
<1>20. CASE OnStopShutdown
  <2>1. CASE handoff = "Committed"
    <3>1. /\ cell'.id = preparedId /\ cell'.state = "Committed"
            /\ outcome' = [outcome EXCEPT ![preparedId] = "Committed"]
      BY <1>20, <2>1 DEF OnStopShutdown, Shutdown, Candidate
    <3>2. /\ loop = "joined" /\ loop' = "off" /\ handoff' = "Idle" /\ op.pc = "idle"
            /\ UNCHANGED <<preparedId, op, audioSide, requests, request>>
      BY <1>20, <2>1 DEF OnStopShutdown, Shutdown, Candidate
    <3> QED
      BY <2>1, <3>1, <3>2 DEF NoRequest, Announces
  <2>2. CASE handoff = "Protected"
    <3>1. /\ cell'.id = preparedId /\ cell'.state = "Protected"
            /\ outcome' = [outcome EXCEPT ![preparedId] = "Protected"]
      BY <1>20, <2>2 DEF OnStopShutdown, Shutdown, Candidate
    <3>2. /\ loop = "joined" /\ loop' = "off" /\ handoff' = "Idle" /\ op.pc = "idle"
            /\ UNCHANGED <<preparedId, op, audioSide, requests, request>>
      BY <1>20, <2>2 DEF OnStopShutdown, Shutdown, Candidate
    <3> QED
      BY <2>2, <3>1, <3>2 DEF NoRequest, Announces
  <2>3. CASE handoff = "Prepared"
    <3>1. /\ cell'.id = preparedId /\ cell'.state = "Cancelled"
            /\ outcome' = [outcome EXCEPT ![preparedId] = "Cancelled"]
      BY <1>20, <2>3 DEF OnStopShutdown, Shutdown, Candidate
    <3>2. /\ loop = "joined" /\ loop' = "off" /\ handoff' = "Idle" /\ op.pc = "idle"
            /\ UNCHANGED <<preparedId, op, audioSide, requests, request>>
      BY <1>20, <2>3 DEF OnStopShutdown, Shutdown, Candidate
    <3> QED
      BY <2>3, <3>1, <3>2 DEF NoRequest, Announces
  <2>4. CASE handoff \in {"Idle", "Adopting"}
    <3>1. UNCHANGED <<cell, outcome>>
      BY <1>20, <2>4 DEF OnStopShutdown, Shutdown, Candidate
    <3>2. /\ loop = "joined" /\ loop' = "off" /\ handoff' = "Idle" /\ op.pc = "idle"
            /\ UNCHANGED <<preparedId, op, audioSide, requests, request>>
      BY <1>20, <2>4 DEF OnStopShutdown, Shutdown, Candidate
    <3> QED
      BY <2>4, <3>1, <3>2 DEF NoRequest, Announces
  <2> QED
    BY <1>20, <2>1, <2>2, <2>3, <2>4 DEF OnStopShutdown, At
<1>21. CASE ProcessBegin \/ Process
  <2>1. CASE RenderClaim
    BY <1>21, <2>1, AudioFrame DEF RenderClaim
  <2>2. CASE RenderAck
    BY <1>21, <2>2, AudioFrame DEF RenderAck
  <2>3. CASE UNCHANGED handoff
    BY <1>21, <2>3, AudioFrame
  <2> QED
    BY <1>21, <2>1, <2>2, <2>3, QuietFrame
<1> QED
  BY <1>1, <1>2, <1>3, <1>4, <1>5, <1>6, <1>7, <1>8, <1>9, <1>10, <1>11, <1>12, <1>13, <1>14,
     <1>15, <1>16, <1>17, <1>18, <1>19, <1>20, <1>21
  DEF PlayerNext, Handlers, Callbacks, Stops, WorkerLoop, Process

(* A queued load is newer than all that is published or executed.            *)
LEMMA RequestsInOrderStep == PlayerInv /\ PlayerNext => RequestsInOrder'
<1> SUFFICES ASSUME PlayerInv, PlayerNext PROVE RequestsInOrder'
  OBVIOUS
<1> USE RequestAssumption
    DEF PlayerInv, preparedVars, workerSide, audioSide, requests, seeks, PlayerTypeOK,
        CallPlace, OneRequest, HandoffPlace, IdsInOrder, RequestsInOrder, OpPcs, WorkerCalls,
        AudioCalls, AudioPcs, Cells, SlotRecords, RendRecords, Handoffs, Loads, Requests,
        RequestTypes, Publishes, Tells, Prepares, Collects, Executes, Offers, Undecided, Waits,
        RequestIds
<1>1. CASE WorkerOp /\ UNCHANGED <<requests, request, loop, stopping, seeks, calls>>
  <2>1. CASE PublishBegin
    BY <1>1, <2>1 DEF PublishBegin, Publishing
  <2>2. CASE PublishEnd
    BY <1>1, <2>2 DEF PublishEnd, Returned
  <2>3. CASE PrepareOpen
    BY <1>1, <2>3 DEF PrepareOpen, Reset, Transition, Publishing, Candidate
  <2>4. CASE PrepareOffer
    BY <1>1, <2>4 DEF PrepareOffer, Returned
  <2>5. CASE CollectCommitted
    BY <1>1, <2>5 DEF CollectCommitted, Reset, Transition, Publishing, Candidate
  <2>6. CASE CollectProtected
    BY <1>1, <2>6 DEF CollectProtected, Reset, Transition, Publishing, Candidate
  <2>7. CASE CollectSettle
    BY <1>1, <2>7 DEF CollectSettle, Returned
  <2>8. CASE CancelClose
    BY <1>1, <2>8 DEF CancelClose, Reset, Transition, Publishing, Candidate
  <2>9. CASE SeekEnd
    BY <1>1, <2>9 DEF SeekEnd, Returned, Transition, Suspend
  <2>10. CASE CloseEnd
    BY <1>1, <2>10 DEF CloseEnd, Returned, Reset, Transition
  <2> QED
    BY <1>1, <2>1, <2>2, <2>3, <2>4, <2>5, <2>6, <2>7, <2>8, <2>9, <2>10 DEF WorkerOp
<1>2. CASE LoopTop
  BY <1>2 DEF LoopTop, At, Stay, RefillCall, Returned
<1>3. CASE LoopPending
  BY <1>3 DEF LoopPending, At, Stay, Pending, CancelLoadCall, Withdrawable, Returned
<1>4. CASE LoopTake
  <2>1. CASE stopping
    BY <1>4, <2>1
    DEF LoopTake, At, Stay, CancelQueued, CancelRequestCall, Publishing, Taken, ClearRequests,
        NoRequest, Request
  <2>2. CASE ~ stopping /\ lifecycle.type = "None"
    BY <1>4, <2>2
    DEF LoopTake, At, Stay, CancelQueued, CancelRequestCall, Publishing, Taken, ClearRequests,
        NoRequest, Request
  <2>3. CASE ~ stopping /\ lifecycle.type # "None" /\ pending.type = "Load"
    <3>1. /\ Announces(pending.id, "Cancelled", "idle")
            /\ loop = "take" /\ loop' = "clearTransport"
            /\ request' = lifecycle /\ inProgress' = TRUE
            /\ lifecycle' = NoRequest /\ pending' = NoRequest /\ stopping' = stopping
      BY <1>4, <2>3, QueuedLoadCancelled DEF PlayerInv
    <3> QED
      BY <2>3, <3>1 DEF NoRequest, Announces
  <2>4. CASE ~ stopping /\ lifecycle.type # "None" /\ pending.type # "Load"
    BY <1>4, <2>4
    DEF LoopTake, At, Stay, CancelQueued, CancelRequestCall, Publishing, Taken, ClearRequests,
        NoRequest, Request
  <2> QED
    BY <1>4, <2>1, <2>2, <2>3, <2>4 DEF LoopTake, At
<1>5. CASE LoopClearTransport
  BY <1>5 DEF LoopClearTransport, At, Stay, NoSeek
<1>6. CASE LoopClearCue
  BY <1>6 DEF LoopClearCue, At, Stay, NoSeek
<1>7. CASE LoopExecute
  <2>1. CASE request.type = "Load" /\ Pending
    BY <1>7, <2>1
    DEF LoopExecute, At, Stay, PrepareCall, Pending, Publishing, Returned, SeekCall, CloseCall,
        TransitionCall, Suspend
  <2>2. CASE request.type = "Load" /\ request.id = 0
    BY <1>7, <2>2
    DEF LoopExecute, At, Stay, PrepareCall, Pending, Publishing, Returned, SeekCall, CloseCall,
        TransitionCall, Suspend
  <2>3. CASE request.type = "Load" /\ ~ Pending /\ request.id # 0
    <3>1. /\ Announces(request.id, "Preparing", "open")
            /\ loop = "execute" /\ loop' = "refill"
            /\ UNCHANGED <<requests, request, stopping>>
      BY <1>7, <2>3, LoadBegun DEF PlayerInv
    <3> QED
      BY <2>3, <3>1 DEF NoRequest, Announces
  <2>4. CASE request.type = "Seek"
    BY <1>7, <2>4
    DEF LoopExecute, At, Stay, PrepareCall, Pending, Publishing, Returned, SeekCall, CloseCall,
        TransitionCall, Suspend
  <2>5. CASE request.type = "Unload"
    BY <1>7, <2>5
    DEF LoopExecute, At, Stay, PrepareCall, Pending, Publishing, Returned, SeekCall, CloseCall,
        TransitionCall, Suspend
  <2> QED
    BY <1>7, <2>1, <2>2, <2>3, <2>4, <2>5 DEF LoopExecute, At
<1>8. CASE LoopCueIntent
  BY <1>8
  DEF LoopCueIntent, At, Stay, Intent, Request, NoSeek, SeekCall, TransitionCall, Suspend,
      Pending, Returned
<1>9. CASE LoopTransportIntent
  BY <1>9
  DEF LoopTransportIntent, At, Stay, Intent, Request, NoSeek, SeekCall, TransitionCall, Suspend,
      Pending, Returned
<1>10. CASE LoopRefill
  BY <1>10 DEF LoopRefill, At, Stay, RefillCall, Returned
<1>11. CASE LoopSettle
  BY <1>11 DEF LoopSettle, At, Stay, Pending, NoRequest
<1>12. CASE HandleLoad
  BY <1>12 DEF HandleLoad, Call, Busy, Exhausted, Request
<1>13. CASE HandleOther("Seek")
  BY <1>13 DEF HandleOther, Call, Busy, Request
<1>14. CASE HandleOther("Unload")
  BY <1>14 DEF HandleOther, Call, Busy, Request
<1>15. CASE OnEnable
  BY <1>15 DEF OnEnable, Call, Running, Exhausted, Request
<1>16. CASE OnDisable
  BY <1>16 DEF OnDisable, Call, Running, Request
<1>17. CASE OnStart
  BY <1>17 DEF OnStart
<1>18. CASE OnStop
  BY <1>18 DEF OnStop, Call, Running
<1>19. CASE OnStopClear
  BY <1>19 DEF OnStopClear, CancelRequestCall, Publishing, NoRequest
<1>20. CASE OnStopShutdown
  <2>1. CASE handoff = "Committed"
    <3>1. /\ cell'.id = preparedId /\ cell'.state = "Committed"
            /\ outcome' = [outcome EXCEPT ![preparedId] = "Committed"]
      BY <1>20, <2>1 DEF OnStopShutdown, Shutdown, Candidate
    <3>2. /\ loop = "joined" /\ loop' = "off" /\ handoff' = "Idle" /\ op.pc = "idle"
            /\ UNCHANGED <<preparedId, op, audioSide, requests, request>>
      BY <1>20, <2>1 DEF OnStopShutdown, Shutdown, Candidate
    <3> QED
      BY <2>1, <3>1, <3>2 DEF NoRequest, Announces
  <2>2. CASE handoff = "Protected"
    <3>1. /\ cell'.id = preparedId /\ cell'.state = "Protected"
            /\ outcome' = [outcome EXCEPT ![preparedId] = "Protected"]
      BY <1>20, <2>2 DEF OnStopShutdown, Shutdown, Candidate
    <3>2. /\ loop = "joined" /\ loop' = "off" /\ handoff' = "Idle" /\ op.pc = "idle"
            /\ UNCHANGED <<preparedId, op, audioSide, requests, request>>
      BY <1>20, <2>2 DEF OnStopShutdown, Shutdown, Candidate
    <3> QED
      BY <2>2, <3>1, <3>2 DEF NoRequest, Announces
  <2>3. CASE handoff = "Prepared"
    <3>1. /\ cell'.id = preparedId /\ cell'.state = "Cancelled"
            /\ outcome' = [outcome EXCEPT ![preparedId] = "Cancelled"]
      BY <1>20, <2>3 DEF OnStopShutdown, Shutdown, Candidate
    <3>2. /\ loop = "joined" /\ loop' = "off" /\ handoff' = "Idle" /\ op.pc = "idle"
            /\ UNCHANGED <<preparedId, op, audioSide, requests, request>>
      BY <1>20, <2>3 DEF OnStopShutdown, Shutdown, Candidate
    <3> QED
      BY <2>3, <3>1, <3>2 DEF NoRequest, Announces
  <2>4. CASE handoff \in {"Idle", "Adopting"}
    <3>1. UNCHANGED <<cell, outcome>>
      BY <1>20, <2>4 DEF OnStopShutdown, Shutdown, Candidate
    <3>2. /\ loop = "joined" /\ loop' = "off" /\ handoff' = "Idle" /\ op.pc = "idle"
            /\ UNCHANGED <<preparedId, op, audioSide, requests, request>>
      BY <1>20, <2>4 DEF OnStopShutdown, Shutdown, Candidate
    <3> QED
      BY <2>4, <3>1, <3>2 DEF NoRequest, Announces
  <2> QED
    BY <1>20, <2>1, <2>2, <2>3, <2>4 DEF OnStopShutdown, At
<1>21. CASE ProcessBegin \/ Process
  BY <1>21, AudioFrame
<1> QED
  BY <1>1, <1>2, <1>3, <1>4, <1>5, <1>6, <1>7, <1>8, <1>9, <1>10, <1>11, <1>12, <1>13, <1>14,
     <1>15, <1>16, <1>17, <1>18, <1>19, <1>20, <1>21
  DEF PlayerNext, Handlers, Callbacks, Stops, WorkerLoop, Process

(* The status shown follows the cell and the renderer's own answer.          *)
LEMMA StatusInOrderStep == PlayerInv /\ PlayerNext => StatusInOrder'
<1> SUFFICES ASSUME PlayerInv, PlayerNext PROVE StatusInOrder'
  OBVIOUS
<1> USE RequestAssumption
    DEF PlayerInv, preparedVars, workerSide, audioSide, requests, seeks, PlayerTypeOK,
        CallPlace, HandoffPlace, AudioPlace, IdsInOrder, RequestsInOrder, StatusInOrder, OpPcs,
        WorkerCalls, AudioCalls, AudioPcs, Cells, SlotRecords, RendRecords, Handoffs, Loads,
        Requests, RequestTypes, Publishes, Tells, Prepares, Collects, Executes, Offers,
        Undecided, Waits, RequestIds, LoadStates, TerminalStates
<1>1. CASE WorkerOp /\ UNCHANGED <<requests, request, loop, stopping, seeks, calls>>
  <2>1. CASE PublishBegin
    BY <1>1, <2>1 DEF PublishBegin, Publishing
  <2>2. CASE PublishEnd
    BY <1>1, <2>2 DEF PublishEnd, Returned
  <2>3. CASE PrepareOpen
    <3>1. CASE preparedId' = op.id /\ op' = Publishing(op, op.id, "Prepared", "offer") /\ slot' = Transition(Candidate, op.id)
      BY <1>1, <2>3, <3>1 DEF PrepareOpen, Reset, Transition, Publishing, Candidate
    <3>2. CASE preparedId' = preparedId /\ op' = Publishing(op, op.id, "Failed", "idle") /\ slot' = Reset(Candidate)
      BY <1>1, <2>3, <3>2 DEF PrepareOpen, Reset, Transition, Publishing, Candidate
    <3> QED
      BY <1>1, <2>3, <3>1, <3>2 DEF PrepareOpen, At
  <2>4. CASE PrepareOffer
    BY <1>1, <2>4 DEF PrepareOffer, Returned
  <2>5. CASE CollectCommitted
    BY <1>1, <2>5 DEF CollectCommitted, Reset, Transition, Publishing, Candidate
  <2>6. CASE CollectProtected
    BY <1>1, <2>6 DEF CollectProtected, Reset, Transition, Publishing, Candidate
  <2>7. CASE CollectSettle
    BY <1>1, <2>7 DEF CollectSettle, Returned
  <2>8. CASE CancelClose
    BY <1>1, <2>8 DEF CancelClose, Reset, Transition, Publishing, Candidate
  <2>9. CASE SeekEnd
    BY <1>1, <2>9 DEF SeekEnd, Returned, Transition, Suspend
  <2>10. CASE CloseEnd
    BY <1>1, <2>10 DEF CloseEnd, Returned, Reset, Transition
  <2> QED
    BY <1>1, <2>1, <2>2, <2>3, <2>4, <2>5, <2>6, <2>7, <2>8, <2>9, <2>10 DEF WorkerOp
<1>2. CASE LoopTop
  BY <1>2 DEF LoopTop, At, Stay, RefillCall, Returned
<1>3. CASE LoopPending
  BY <1>3 DEF LoopPending, At, Stay, Pending, CancelLoadCall, Withdrawable, Returned
<1>4. CASE LoopTake
  <2>1. CASE stopping
    BY <1>4, <2>1
    DEF LoopTake, At, Stay, CancelQueued, CancelRequestCall, Publishing, Taken, ClearRequests,
        NoRequest, Request
  <2>2. CASE ~ stopping /\ lifecycle.type = "None"
    BY <1>4, <2>2
    DEF LoopTake, At, Stay, CancelQueued, CancelRequestCall, Publishing, Taken, ClearRequests,
        NoRequest, Request
  <2>3. CASE ~ stopping /\ lifecycle.type # "None" /\ pending.type = "Load"
    <3>1. /\ Announces(pending.id, "Cancelled", "idle")
            /\ loop = "take" /\ loop' = "clearTransport"
            /\ request' = lifecycle /\ inProgress' = TRUE
            /\ lifecycle' = NoRequest /\ pending' = NoRequest /\ stopping' = stopping
      BY <1>4, <2>3, QueuedLoadCancelled DEF PlayerInv
    <3> QED
      BY <2>3, <3>1 DEF NoRequest, Announces
  <2>4. CASE ~ stopping /\ lifecycle.type # "None" /\ pending.type # "Load"
    BY <1>4, <2>4
    DEF LoopTake, At, Stay, CancelQueued, CancelRequestCall, Publishing, Taken, ClearRequests,
        NoRequest, Request
  <2> QED
    BY <1>4, <2>1, <2>2, <2>3, <2>4 DEF LoopTake, At
<1>5. CASE LoopClearTransport
  BY <1>5 DEF LoopClearTransport, At, Stay, NoSeek
<1>6. CASE LoopClearCue
  BY <1>6 DEF LoopClearCue, At, Stay, NoSeek
<1>7. CASE LoopExecute
  <2>1. CASE request.type = "Load" /\ Pending
    BY <1>7, <2>1
    DEF LoopExecute, At, Stay, PrepareCall, Pending, Publishing, Returned, SeekCall, CloseCall,
        TransitionCall, Suspend
  <2>2. CASE request.type = "Load" /\ request.id = 0
    BY <1>7, <2>2
    DEF LoopExecute, At, Stay, PrepareCall, Pending, Publishing, Returned, SeekCall, CloseCall,
        TransitionCall, Suspend
  <2>3. CASE request.type = "Load" /\ ~ Pending /\ request.id # 0
    <3>1. /\ Announces(request.id, "Preparing", "open")
            /\ loop = "execute" /\ loop' = "refill"
            /\ UNCHANGED <<requests, request, stopping>>
      BY <1>7, <2>3, LoadBegun DEF PlayerInv
    <3> QED
      BY <2>3, <3>1 DEF NoRequest, Announces
  <2>4. CASE request.type = "Seek"
    BY <1>7, <2>4
    DEF LoopExecute, At, Stay, PrepareCall, Pending, Publishing, Returned, SeekCall, CloseCall,
        TransitionCall, Suspend
  <2>5. CASE request.type = "Unload"
    BY <1>7, <2>5
    DEF LoopExecute, At, Stay, PrepareCall, Pending, Publishing, Returned, SeekCall, CloseCall,
        TransitionCall, Suspend
  <2> QED
    BY <1>7, <2>1, <2>2, <2>3, <2>4, <2>5 DEF LoopExecute, At
<1>8. CASE LoopCueIntent
  BY <1>8
  DEF LoopCueIntent, At, Stay, Intent, Request, NoSeek, SeekCall, TransitionCall, Suspend,
      Pending, Returned
<1>9. CASE LoopTransportIntent
  BY <1>9
  DEF LoopTransportIntent, At, Stay, Intent, Request, NoSeek, SeekCall, TransitionCall, Suspend,
      Pending, Returned
<1>10. CASE LoopRefill
  BY <1>10 DEF LoopRefill, At, Stay, RefillCall, Returned
<1>11. CASE LoopSettle
  BY <1>11 DEF LoopSettle, At, Stay, Pending, NoRequest
<1>12. CASE Handlers \/ OnEnable \/ OnDisable
  BY <1>12, CallFrame
<1>13. CASE OnStart
  BY <1>13 DEF OnStart
<1>14. CASE OnStop
  BY <1>14 DEF OnStop, Call, Running
<1>15. CASE OnStopClear
  <2>1. CASE pending.type = "Load"
    <3>1. /\ Announces(pending.id, "Cancelled", "idle")
            /\ loop = "exited" /\ loop' = "joined"
            /\ request' = request /\ inProgress' = FALSE
            /\ lifecycle' = NoRequest /\ pending' = NoRequest /\ stopping' = stopping
      BY <1>15, <2>1, StoppedLoadCancelled DEF PlayerInv
    <3> QED
      BY <2>1, <3>1 DEF NoRequest, Announces
  <2>2. CASE pending.type # "Load"
    BY <1>15, <2>2 DEF OnStopClear, CancelRequestCall, Publishing, NoRequest
  <2> QED
    BY <1>15, <2>1, <2>2 DEF OnStopClear, At
<1>16. CASE OnStopShutdown
  <2>1. CASE handoff = "Committed"
    <3>1. /\ cell'.id = preparedId /\ cell'.state = "Committed"
            /\ outcome' = [outcome EXCEPT ![preparedId] = "Committed"]
      BY <1>16, <2>1 DEF OnStopShutdown, Shutdown, Candidate
    <3>2. /\ loop = "joined" /\ loop' = "off" /\ handoff' = "Idle" /\ op.pc = "idle"
            /\ UNCHANGED <<preparedId, op, audioSide, requests, request>>
      BY <1>16, <2>1 DEF OnStopShutdown, Shutdown, Candidate
    <3> QED
      BY <2>1, <3>1, <3>2 DEF NoRequest, Announces
  <2>2. CASE handoff = "Protected"
    <3>1. /\ cell'.id = preparedId /\ cell'.state = "Protected"
            /\ outcome' = [outcome EXCEPT ![preparedId] = "Protected"]
      BY <1>16, <2>2 DEF OnStopShutdown, Shutdown, Candidate
    <3>2. /\ loop = "joined" /\ loop' = "off" /\ handoff' = "Idle" /\ op.pc = "idle"
            /\ UNCHANGED <<preparedId, op, audioSide, requests, request>>
      BY <1>16, <2>2 DEF OnStopShutdown, Shutdown, Candidate
    <3> QED
      BY <2>2, <3>1, <3>2 DEF NoRequest, Announces
  <2>3. CASE handoff = "Prepared"
    <3>1. /\ cell'.id = preparedId /\ cell'.state = "Cancelled"
            /\ outcome' = [outcome EXCEPT ![preparedId] = "Cancelled"]
      BY <1>16, <2>3 DEF OnStopShutdown, Shutdown, Candidate
    <3>2. /\ loop = "joined" /\ loop' = "off" /\ handoff' = "Idle" /\ op.pc = "idle"
            /\ UNCHANGED <<preparedId, op, audioSide, requests, request>>
      BY <1>16, <2>3 DEF OnStopShutdown, Shutdown, Candidate
    <3> QED
      BY <2>3, <3>1, <3>2 DEF NoRequest, Announces
  <2>4. CASE handoff \in {"Idle", "Adopting"}
    <3>1. UNCHANGED <<cell, outcome>>
      BY <1>16, <2>4 DEF OnStopShutdown, Shutdown, Candidate
    <3>2. /\ loop = "joined" /\ loop' = "off" /\ handoff' = "Idle" /\ op.pc = "idle"
            /\ UNCHANGED <<preparedId, op, audioSide, requests, request>>
      BY <1>16, <2>4 DEF OnStopShutdown, Shutdown, Candidate
    <3> QED
      BY <2>4, <3>1, <3>2 DEF NoRequest, Announces
  <2> QED
    BY <1>16, <2>1, <2>2, <2>3, <2>4 DEF OnStopShutdown, At
<1>17. CASE ProcessBegin
  BY <1>17
  DEF ProcessBegin, Running, NoRender, Intends, HeardTrack, Elsewhere, PlayerRest, NoSeek
<1>18. CASE RenderStep /\ UNCHANGED <<seeks, calls>> /\ PlayerRest
  <2>1. CASE RenderReadLoad
    BY <1>18, <2>1 DEF RenderReadLoad, PlayerRest, Readable
  <2>2. CASE RenderClaim
    BY <1>18, <2>2 DEF RenderClaim, PlayerRest
  <2>3. CASE RenderDecide
    <3>1. CASE terminal'.state = "Protected"
      <4>1. /\ au.pc = "decide" /\ au'.pc = "render" /\ au'.ack = "Protected"
              /\ terminal'.id = preparedId /\ status' = terminal'
              /\ UNCHANGED <<workerSide, handoff, audioSlot, trackId, rend>>
        BY <1>18, <2>3, <3>1, Decided DEF PlayerInv
      <4>2. UNCHANGED <<requests, request>>
        BY <1>18, <2>3, <3>1
        DEF RenderDecide, PlayerRest, Protects, Decide, RetireRenderer, AdoptCandidate
      <4> QED
        BY <3>1, <4>1, <4>2 DEF NoRequest, Announces
    <3>2. CASE terminal'.state = "Committed"
      <4>1. /\ au.pc = "decide" /\ au'.pc = "render" /\ au'.ack = "Committed"
              /\ terminal'.id = preparedId /\ status' = terminal'
              /\ audioSlot' = 1 - audioSlot /\ trackId' = preparedId
              /\ UNCHANGED <<workerSide, handoff>>
        BY <1>18, <2>3, <3>2, Decided DEF PlayerInv
      <4>2. UNCHANGED <<requests, request>>
        BY <1>18, <2>3, <3>2
        DEF RenderDecide, PlayerRest, Protects, Decide, RetireRenderer, AdoptCandidate
      <4> QED
        BY <3>2, <4>1, <4>2 DEF NoRequest, Announces
    <3> QED
      BY <1>18, <2>3, <3>1, <3>2, Decided
  <2>4. CASE RenderActive
    BY <1>18, <2>4 DEF RenderActive, PlayerRest
  <2>5. CASE RenderIdentify
    BY <1>18, <2>5 DEF RenderIdentify, PlayerRest
  <2>6. CASE RenderAck
    BY <1>18, <2>6 DEF RenderAck, PlayerRest
  <2> QED
    BY <1>18, <2>1, <2>2, <2>3, <2>4, <2>5, <2>6 DEF RenderStep
<1>19. CASE ProcessClearTransport
  BY <1>19 DEF ProcessClearTransport, NoSeek, AudioGoes, OnlyAudio, Elsewhere, PlayerRest
<1>20. CASE ProcessClearCue
  BY <1>20 DEF ProcessClearCue, NoSeek, AudioGoes, OnlyAudio, Elsewhere, PlayerRest
<1>21. CASE ProcessTakeCue
  BY <1>21 DEF ProcessTakeCue, NoRender, Intends, HeardTrack, OnlyAudio, Elsewhere, PlayerRest
<1> QED
  BY <1>1, <1>2, <1>3, <1>4, <1>5, <1>6, <1>7, <1>8, <1>9, <1>10, <1>11, <1>12, <1>13, <1>14,
     <1>15, <1>16, <1>17, <1>18, <1>19, <1>20, <1>21
  DEF PlayerNext, Handlers, Callbacks, Stops, WorkerLoop, Process

------------------------------------------------------------------------------------
(* The invariant and the properties *)

LEMMA PlayerStarts == PlayerInit => PlayerInv
<1> SUFFICES ASSUME PlayerInit PROVE PlayerInv
  OBVIOUS
<1> USE DEF PlayerInit, PreparedInit, Returned, NoRender, NoLoad
<1>1. PlayerTypeOK
  BY TypeFacts, CallTypes DEF PlayerTypeOK, SlotRecords, RendRecords, Handoffs, Cells, Loads,
     LoadStates, LoopPcs, Tracks
<1>2. CallPlace /\ OneRequest /\ StopPlace /\ HandoffPlace /\ AudioPlace
  BY DEF CallPlace, OneRequest, StopPlace, HandoffPlace, AudioPlace, Publishes, Tells, Prepares,
     Collects, Executes, Pending
<1>3. HandoffSlots /\ LeasesHere /\ TrackPlace
  BY DEF HandoffSlots, LeasesHere, TrackPlace, SlotIds, Offers, Publishes, Tells, HeardTrack
<1>4. IdsInOrder /\ RequestsInOrder /\ StatusInOrder
  BY TypeFacts DEF IdsInOrder, RequestsInOrder, StatusInOrder, Undecided, Offers, Publishes, Tells,
     Prepares, Executes, NoRequest, TerminalStates
<1> QED
  BY <1>1, <1>2, <1>3, <1>4 DEF PlayerInv

LEMMA PlayerSteps == PlayerInv /\ [PlayerNext]_playerVars => PlayerInv'
<1> SUFFICES ASSUME PlayerInv, [PlayerNext]_playerVars PROVE PlayerInv'
  OBVIOUS
<1>1. CASE PlayerNext
  BY <1>1, TypeStep, StopPlaceStep, LeasesHereStep, CallPlaceStep, OneRequestStep,
     HandoffPlaceStep, AudioPlaceStep, HandoffSlotsStep, TrackPlaceStep, IdsInOrderStep,
     RequestsInOrderStep, StatusInOrderStep
  DEF PlayerInv
<1>2. CASE UNCHANGED playerVars
  <2> USE DEF playerVars, preparedVars, workerSide, audioSide, requests, seeks
  <2>1. PlayerTypeOK'
    BY <1>2 DEF PlayerInv, PlayerTypeOK
  <2>2. CallPlace' /\ OneRequest' /\ StopPlace' /\ HandoffPlace' /\ AudioPlace'
    BY <1>2 DEF PlayerInv, CallPlace, OneRequest, StopPlace, HandoffPlace, AudioPlace, Publishes,
       Tells, Prepares, Collects, Executes, Pending, Candidate
  <2>3. HandoffSlots' /\ LeasesHere' /\ TrackPlace'
    BY <1>2 DEF PlayerInv, HandoffSlots, LeasesHere, TrackPlace, Offers, Publishes, Tells,
       HeardTrack, Candidate
  <2>4. IdsInOrder' /\ RequestsInOrder' /\ StatusInOrder'
    BY <1>2 DEF PlayerInv, IdsInOrder, RequestsInOrder, StatusInOrder, Waits, Undecided, Offers,
       Publishes, Tells, Prepares, Executes
  <2> QED
    BY <2>1, <2>2, <2>3, <2>4 DEF PlayerInv
<1> QED
  BY <1>1, <1>2

(* The inductive invariant holds in every reachable state.                   *)
THEOREM PlayerInvariant == PlayerSpec => []PlayerInv
<1> QED
  BY PlayerStarts, PlayerSteps, PTL DEF PlayerSpec

(* Every variable of the player keeps its type.                              *)
THEOREM PlayerTypesHold == PlayerSpec => []PlayerTypeOK
<1>1. PlayerInv => PlayerTypeOK
  BY DEF PlayerInv
<1> QED
  BY <1>1, PlayerInvariant, PTL

(* The worker and the audio thread agree on which slot is whose, without a   *)
(* lock: process and worker_loop never use one slot from two sides.          *)
THEOREM SlotsAgree == PlayerSpec => []HandoffSlots
<1>1. PlayerInv => HandoffSlots
  BY DEF PlayerInv
<1> QED
  BY <1>1, PlayerInvariant, PTL

(* worker_prepare, worker_refill and worker_cancel_load only open or close a *)
(* slot in which the renderer holds no lease and which it is not rendering.  *)
THEOREM RetiredUnused == PlayerSpec => []RetiredSlotUnused
<1>1. PlayerInv => RetiredSlotUnused
  <2> SUFFICES ASSUME PlayerInv, op.pc \in {"open", "retire", "drop", "cancel"}
               PROVE  ~ rend[Target].leased /\ audioSlot # Target
    BY DEF RetiredSlotUnused
  <2>1. workerSlot \in {0, 1} /\ audioSlot \in {0, 1}
    BY DEF PlayerInv, PlayerTypeOK, SlotIds
  <2>2. CASE op.pc = "retire"
    <3>1. audioSlot = 1 - workerSlot
      BY <2>2 DEF PlayerInv, HandoffPlace, HandoffSlots, Candidate
    <3> QED
      BY <2>1, <2>2, <3>1 DEF PlayerInv, LeasesHere, Target
  <2>3. CASE op.pc # "retire"
    <3>1. audioSlot = workerSlot
      BY <2>3 DEF PlayerInv, HandoffPlace, HandoffSlots, Collects, Publishes, Tells
    <3> QED
      BY <2>1, <2>3, <3>1 DEF PlayerInv, LeasesHere, Target, Candidate
  <2> QED
    BY <2>2, <2>3
<1> QED
  BY <1>1, PlayerInvariant, PTL

(* Between two blocks the track ID of the status is that of the audio.       *)
THEOREM TrackAsHeard == PlayerSpec => []NoForeignTrack
<1>1. PlayerInv => NoForeignTrack
  BY DEF PlayerInv, TrackPlace, NoForeignTrack
<1> QED
  BY <1>1, PlayerInvariant, PTL

(* Outcomes are written by publish_load and by shutdown, each of a load that *)
(* has not ended yet.                                                        *)
LEMMA OutcomeStep ==
  PlayerInv /\ [PlayerNext]_playerVars =>
    \A id \in RequestIds \ {0} : outcome[id] \in TerminalStates => outcome'[id] = outcome[id]
<1> SUFFICES ASSUME PlayerInv, [PlayerNext]_playerVars, NEW id \in RequestIds \ {0},
                    outcome[id] \in TerminalStates
             PROVE  outcome'[id] = outcome[id]
  OBVIOUS
<1>1. CASE PublishEnd
  <2>1. id # op.id
    BY <1>1 DEF PlayerInv, IdsInOrder, PublishEnd, Publishes
  <2> QED
    BY <1>1, <2>1 DEF PublishEnd, PlayerInv, PlayerTypeOK
<1>2. CASE OnStopShutdown
  <2>1. CASE Undecided
    <3>1. id # preparedId
      BY <2>1 DEF PlayerInv, IdsInOrder
    <3> QED
      BY <1>2, <3>1 DEF OnStopShutdown, Shutdown, PlayerInv, PlayerTypeOK
  <2>2. CASE ~ Undecided
    <3>1. handoff \notin {"Prepared", "Committed", "Protected"}
      BY <1>2, <2>2 DEF Undecided, OnStopShutdown
    <3> QED
      BY <1>2, <3>1 DEF OnStopShutdown, Shutdown
  <2> QED
    BY <2>1, <2>2
<1>3. CASE UNCHANGED outcome
  BY <1>3
<1>4. PublishEnd \/ OnStopShutdown \/ UNCHANGED outcome
  <2>1. CASE ProcessBegin \/ Process
    BY <2>1, AudioFrame DEF workerSide
  <2>2. CASE Handlers \/ OnEnable \/ OnDisable
    BY <2>2, CallFrame DEF preparedVars, workerSide
  <2>3. CASE WorkerLoop
    BY <2>3
    DEF WorkerLoop, WorkerOp, PublishBegin, PrepareOpen, PrepareOffer, CollectCommitted,
        CollectProtected, CollectSettle, CancelClose, SeekEnd, CloseEnd,
        LoopTop, LoopPending, LoopTake, LoopClearTransport, LoopClearCue, LoopExecute,
        LoopCueIntent, LoopTransportIntent, LoopRefill, LoopSettle, RefillCall, CancelLoadCall,
        CancelQueued, CancelRequestCall, PrepareCall, SeekCall, CloseCall, TransitionCall,
        preparedVars, workerSide
  <2>4. CASE OnStart \/ OnStop \/ OnStopClear
    BY <2>4 DEF OnStart, OnStop, OnStopClear, Call, CancelRequestCall, preparedVars, workerSide
  <2>5. CASE UNCHANGED playerVars
    BY <2>5 DEF playerVars, preparedVars, workerSide
  <2> QED
    BY <2>1, <2>2, <2>3, <2>4, <2>5 DEF PlayerNext, Callbacks, Stops
<1> QED
  BY <1>1, <1>2, <1>3, <1>4

(* A load that is committed, refused, failed or cancelled stays that: neither *)
(* a withdrawal nor the shutdown publishes a second end.                     *)
THEOREM LoadHasOneOutcome == PlayerSpec => OneOutcome
<1>1. PlayerInv /\ [PlayerNext]_playerVars
        => [\A id \in RequestIds \ {0} :
              outcome[id] \in TerminalStates => outcome'[id] = outcome[id]]_playerVars
  BY OutcomeStep
<1> QED
  BY <1>1, PlayerInvariant, PTL DEF PlayerSpec, OneOutcome

(* The render thread shows the cell, or its own decision on the newest load. *)
LEMMA StatusStep ==
  PlayerInv /\ [PlayerNext]_playerVars =>
    /\ status'.id >= status.id
    /\ status'.id = status.id /\ status.state \in TerminalStates => status' = status
<1> SUFFICES ASSUME PlayerInv, [PlayerNext]_playerVars
             PROVE  /\ status'.id >= status.id
                    /\ status'.id = status.id /\ status.state \in TerminalStates
                         => status' = status
  OBVIOUS
<1>0. /\ status.id \in Nat /\ cell.id \in Nat /\ preparedId \in Nat
      /\ status = [id |-> status.id, state |-> status.state]
  BY TypeFacts, FieldTypes DEF PlayerInv, PlayerTypeOK, Loads
<1>1. CASE RenderReadLoad
  <2>1. CASE Readable
    <3>1. status' = [id |-> cell.id, state |-> cell.state]
      BY <1>1, <2>1 DEF RenderReadLoad
    <3>2. status.id <= cell.id /\ outcome[cell.id] = cell.state
      BY DEF PlayerInv, StatusInOrder, IdsInOrder
    <3>3. cell.id = status.id /\ status.state \in TerminalStates => outcome[status.id] = status.state
      BY <2>1 DEF PlayerInv, StatusInOrder, Readable
    <3> QED
      BY <1>0, <3>1, <3>2, <3>3
  <2>2. CASE ~ Readable
    BY <1>0, <1>1, <2>2 DEF RenderReadLoad
  <2> QED
    BY <2>1, <2>2
<1>2. CASE RenderDecide
  <2>1. terminal'.id = preparedId /\ status' = terminal' /\ au.pc = "decide"
    BY <1>2, Decided DEF PlayerInv
  <2>2. preparedId = cell.id /\ outcome[preparedId] \notin TerminalStates
    BY <2>1 DEF PlayerInv, AudioPlace, IdsInOrder, Undecided
  <2>3. status.id <= cell.id /\ terminal.id < preparedId
    BY <2>1 DEF PlayerInv, StatusInOrder
  <2>4. status.id = preparedId => status.state \notin TerminalStates
    BY <1>0, <2>2, <2>3 DEF PlayerInv, StatusInOrder
  <2> QED
    BY <1>0, <2>1, <2>2, <2>3, <2>4
<1>3. CASE UNCHANGED status
  BY <1>0, <1>3
<1>4. RenderReadLoad \/ RenderDecide \/ UNCHANGED status
  <2>1. CASE WorkerLoop \/ Handlers \/ Callbacks \/ Stops
    BY <2>1, WorkerFrame DEF audioSide
  <2>2. CASE ProcessBegin \/ Process
    BY <2>2 DEF ProcessBegin, Process, RenderStep, RenderClaim, RenderActive, RenderIdentify,
       RenderAck, ProcessClearTransport, ProcessClearCue, ProcessTakeCue, OnlyAudio, Elsewhere
  <2>3. CASE UNCHANGED playerVars
    BY <2>3 DEF playerVars, preparedVars, audioSide
  <2> QED
    BY <2>1, <2>2, <2>3 DEF PlayerNext
<1> QED
  BY <1>1, <1>2, <1>3, <1>4

(* The load status a client polls never goes back to an older load, and      *)
(* never leaves the end of the load it shows.                                *)
THEOREM StatusGoesForward == PlayerSpec => LoadStatusForward
<1>1. PlayerInv /\ [PlayerNext]_playerVars
        => [/\ status'.id >= status.id
            /\ status'.id = status.id /\ status.state \in TerminalStates => status' = status
           ]_playerVars
  BY StatusStep
<1> QED
  BY <1>1, PlayerInvariant, PTL DEF PlayerSpec, LoadStatusForward
=============================================================================
