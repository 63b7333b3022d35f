------------------------------ MODULE ControlPath ------------------------------
(***************************************************************************)
(* Controls and the parameter they move.  The sliders of an LVGL surface   *)
(* queue control events, the display sink hands them to the control        *)
(* mapper, the mapper turns them into parameter events, the processor      *)
(* applies these and publishes its parameter state; the state comes back   *)
(* to the mapper (synchronize), to the sliders (adapter, update queue,     *)
(* apply) and, through the feedback router, to control sources.  Modules   *)
(* run on their own, a synchronized input sees the latest block only.      *)
(*                                                                         *)
(* All bindings of a mapper move the same parameter here, as the gain      *)
(* processor has one; each has a feedback route to a control source of its *)
(* own.  ControlValues are small integers: curve, dead zone, scale and     *)
(* quantization are the identity.                                          *)
(***************************************************************************)
EXTENDS Integers, Sequences, SequencesExt, FiniteSets, FiniteSetsExt

CONSTANTS
  Top,            \* values are 0 .. Top, for the source and for the target
  Bindings,       \* mappers tried: the sequence of their bindings
                  \* [control, mode, pickup, hysteresis]
  ControlQueue,   \* ControlEventBlock::MAX_EVENTS, also the usable queue
  ParameterMax,   \* ParameterEventBlock::MAX_EVENTS
  UpdateQueue,    \* usable LvglWidgetUpdateQueue
  MaxMoves        \* bound: things the user does

ASSUME ControlBounds == {Top, ControlQueue, ParameterMax, UpdateQueue} \subseteq Nat \ {0}

ControlValues == 0 .. Top
BindingIds == UNION {DOMAIN bs : bs \in Bindings}
Nobody == 0   \* INVALID_CONTROL_BINDING_ID: a parameter write; binding ids are 1, 2, ...

VARIABLES
  binding,      \* the compiled bindings
  slider,       \* of each control, the LVGL object: value, pressed
  controls,     \* control_events_: which control, its value
  controlBlock, \* the sink's block until the mapper takes it
  mapping,      \* of each binding, ControlMapper::BindingState
  events,       \* the mapper's last block, and whether the processor has seen it
  parameter,    \* the processor's parameter and the binding that set it
  published,    \* the last ParameterStateBlock and who has not seen it
  updates,      \* widget_updates_
  routed,       \* ControlFeedbackBlock of the router
  feedback,     \* of each binding's control source, feedback_value_
  moves

controlVars == <<binding, slider, controls, controlBlock, mapping, events, parameter,
                 published, updates, routed, feedback, moves>>

Controls == {binding[b].control : b \in DOMAIN binding}
NoEvents == [fresh |-> FALSE, list |-> <<>>]

ControlInit ==
  /\ binding \in Bindings
  /\ slider = [c \in Controls |-> [value |-> 0, pressed |-> FALSE]]
  /\ controls = <<>> /\ controlBlock = <<>>
  /\ mapping = [b \in DOMAIN binding |->
                  [current |-> 0, last |-> 0, emitted |-> FALSE, active |-> FALSE,
                   latched |-> binding[b].pickup = "immediate", candidate |-> -1]]
  /\ events = NoEvents /\ parameter = [value |-> 0, by |-> Nobody]
  /\ published = [value |-> 0, by |-> Nobody, unseen |-> {}]
  /\ updates = <<>> /\ routed = {} /\ feedback = [b \in DOMAIN binding |-> 0] /\ moves = 0

-----------------------------------------------------------------------------
(* The display thread: emit_interaction sends the slider's value with      *)
(* press, change and release; a full queue drops it (control_overflow_     *)
(* only flags the block).                                                  *)
QueuedControl(q, e) == IF Len(q) < ControlQueue THEN Append(q, e) ELSE q
Interact(c, s) ==
  /\ slider' = [slider EXCEPT ![c] = s]
  /\ controls' = QueuedControl(controls, [control |-> c, value |-> s.value])
  /\ UNCHANGED <<binding, controlBlock, mapping, events, parameter, published, updates, routed, feedback>>
Move == moves < MaxMoves /\ moves' = moves + 1
PressSlider(c) == ~ slider[c].pressed /\ Move /\ Interact(c, [slider[c] EXCEPT !.pressed = TRUE])
MoveSlider(c) ==
  /\ slider[c].pressed /\ Move
  /\ \E v \in ControlValues \ {slider[c].value} : Interact(c, [slider[c] EXCEPT !.value = v])
ReleaseSlider(c) ==
  slider[c].pressed /\ Interact(c, [slider[c] EXCEPT !.pressed = FALSE]) /\ UNCHANGED moves

(* drain_one and apply: a slider under the finger is left alone, and what  *)
(* apply sets is not sent back (applying_update_).  The adapter's block    *)
(* has an event for every slider.                                          *)
ApplyUpdate ==
  /\ updates # <<>> /\ updates' = Tail(updates)
  /\ slider' = [c \in Controls |->
       IF slider[c].pressed THEN slider[c] ELSE [slider[c] EXCEPT !.value = Head(updates)]]
  /\ UNCHANGED <<binding, controls, controlBlock, mapping, events, parameter, published, routed, feedback, moves>>

(* LvglWidgetSink::process empties the queue into its block. *)
SinkRuns ==
  /\ controlBlock = <<>> /\ controls # <<>>
  /\ controlBlock' = controls /\ controls' = <<>>
  /\ UNCHANGED <<binding, slider, mapping, events, parameter, published, updates, routed, feedback, moves>>

-----------------------------------------------------------------------------
(* ControlMapper::map_value, for a binding, its state and an input: the    *)
(* state after it and the value to send, if any.                           *)
NoValue == -1
Clamped(v) == Min({Top, Max({0, v})})
Distance(x, y) == IF x < y THEN y - x ELSE x - y
EmitIfChanged(b, m, v) ==
  LET now == [m EXCEPT !.current = Clamped(v)]
  IN IF m.emitted /\ Distance(now.current, m.last) < binding[b].hysteresis
     THEN [state |-> now, value |-> NoValue]
     ELSE [state |-> [now EXCEPT !.last = now.current, !.emitted = TRUE], value |-> now.current]
Between(x, y, z) == (x - y) * (z - y) <= 0
PickedUp(m, v) ==
  LET allowed == m.latched \/ v = m.current
                 \/ (m.candidate # -1 /\ Between(m.candidate, m.current, v))
  IN [m EXCEPT !.latched = allowed, !.candidate = IF m.latched THEN @ ELSE v]
MapValue(b, m, v) ==
  LET active == 2 * v > Top
      pressed == [m EXCEPT !.active = active]
      picked == PickedUp(m, v)
      mode == binding[b].mode
  IN CASE mode = "toggle" ->
            IF active /\ ~ m.active THEN EmitIfChanged(b, pressed, IF 2 * m.current > Top THEN 0 ELSE Top)
                                    ELSE [state |-> pressed, value |-> NoValue]
       [] mode = "trigger" -> EmitIfChanged(b, m, Top)
       [] mode = "momentary" -> EmitIfChanged(b, m, IF active THEN Top ELSE 0)
       [] mode = "relative" -> EmitIfChanged(b, m, m.current + Min({v, 1}))
       [] mode = "absolute" ->
            IF picked.latched THEN EmitIfChanged(b, picked, v) ELSE [state |-> picked, value |-> NoValue]

(* process: every binding of the event's control in their order; when the  *)
(* block is full the value is dropped and the state not committed.         *)
(* Mutant: the state is committed first.                                   *)
M_MapBinding(acc, e, b) ==
  LET out == MapValue(b, acc.state[b], e.value)
      committed == [acc EXCEPT !.state[b] = out.state]
  IN IF out.value = NoValue \/ Len(acc.list) = ParameterMax THEN committed
     ELSE [committed EXCEPT !.list = Append(@, [binding |-> b, value |-> out.value])]
MapBinding(acc, e, b) ==
  LET out == MapValue(b, acc.state[b], e.value)
      committed == [acc EXCEPT !.state[b] = out.state]
  IN IF out.value = NoValue THEN committed
     ELSE IF Len(acc.list) = ParameterMax THEN acc
     ELSE [committed EXCEPT !.list = Append(@, [binding |-> b, value |-> out.value])]
MapEvent(acc, e) ==
  FoldLeft(LAMBDA done, b : IF binding[b].control = e.control THEN MapBinding(done, e, b) ELSE done,
           acc, [b \in DOMAIN binding |-> b])
MapAll(acc, q) == FoldLeft(MapEvent, acc, q)

(* synchronize: a state that a binding set is for that binding alone, one  *)
(* that was written is for all.                                            *)
(* Mutant: a written state is for none.                                    *)
M_Meant(b, state) == state.by = b
Meant(b, state) == state.by \in {Nobody, b}
Synchronized(b, m, v) ==
  [m EXCEPT !.current = v, !.last = v, !.emitted = TRUE,
            !.latched = binding[b].pickup = "immediate", !.candidate = -1]
(* Mutant: a binding takes the state it set itself for an echo and ignores *)
(* it.                                                                     *)
M_Synchronize(ms) ==
  IF "mapper" \in published.unseen /\ published.by = Nobody
  THEN [b \in DOMAIN ms |-> Synchronized(b, ms[b], published.value)] ELSE ms
Synchronize(ms) ==
  IF "mapper" \in published.unseen
  THEN [b \in DOMAIN ms |->
          IF Meant(b, published) THEN Synchronized(b, ms[b], published.value) ELSE ms[b]]
  ELSE ms

(* The module: a fresh state first, then the control block; its own block  *)
(* replaces the last one.                                                  *)
MapperTakes ==
  /\ controlBlock # <<>> \/ "mapper" \in published.unseen
  /\ published' = [published EXCEPT !.unseen = @ \ {"mapper"}] /\ controlBlock' = <<>>
MapperRuns ==
  /\ MapperTakes
  /\ LET out == MapAll([state |-> Synchronize(mapping), list |-> <<>>], controlBlock)
     IN mapping' = out.state /\ events' = [fresh |-> TRUE, list |-> out.list]
  /\ UNCHANGED <<binding, slider, controls, parameter, updates, routed, feedback, moves>>

-----------------------------------------------------------------------------
(* A processor applies the events of a fresh block and publishes its state *)
(* with every block of audio.                                              *)
ProcessorRuns ==
  /\ LET applied == IF events.fresh /\ events.list # <<>>
                    THEN [value |-> Last(events.list).value, by |-> Last(events.list).binding] ELSE parameter
     IN /\ parameter' = applied
        /\ published' = [value |-> applied.value, by |-> applied.by,
                         unseen |-> {"mapper", "adapter", "router"}]
  /\ events' = [events EXCEPT !.fresh = FALSE]
  /\ UNCHANGED <<binding, slider, controls, controlBlock, mapping, updates, routed, feedback, moves>>
ParameterWritten ==
  /\ Move /\ \E v \in ControlValues : parameter' = [value |-> v, by |-> Nobody]
  /\ UNCHANGED <<binding, slider, controls, controlBlock, mapping, events, published, updates, routed, feedback>>

(* The adapter's block goes to the update queue, and is lost when that is  *)
(* full.                                                                   *)
AdapterRuns ==
  /\ "adapter" \in published.unseen
  /\ published' = [published EXCEPT !.unseen = @ \ {"adapter"}]
  /\ updates' = IF Len(updates) < UpdateQueue THEN Append(updates, published.value) ELSE updates
  /\ UNCHANGED <<binding, slider, controls, controlBlock, mapping, events, parameter, routed, feedback, moves>>

(* ControlFeedbackRouter::process: a feedback event for the routes of the  *)
(* bindings the state is for, unless it came from the route's device; the  *)
(* sources here have other endpoints than the sliders.                     *)
RouterRuns ==
  /\ "router" \in published.unseen
  /\ published' = [published EXCEPT !.unseen = @ \ {"router"}]
  /\ routed' = {[binding |-> b, value |-> published.value] :
                  b \in {b \in DOMAIN binding : Meant(b, published)}}
  /\ UNCHANGED <<binding, slider, controls, controlBlock, mapping, events, parameter, updates, feedback, moves>>

(* ControlSource::process: the source of a binding takes what is for it. *)
SourceRuns(b) ==
  /\ \E f \in routed : f.binding = b /\ routed' = routed \ {f} /\ feedback' = [feedback EXCEPT ![b] = f.value]
  /\ UNCHANGED <<binding, slider, controls, controlBlock, mapping, events, parameter, published, updates, moves>>

ControlNext == \/ \E c \in Controls : PressSlider(c) \/ MoveSlider(c) \/ ReleaseSlider(c)
               \/ ParameterWritten \/ ApplyUpdate \/ SinkRuns \/ MapperRuns \/ ProcessorRuns
               \/ AdapterRuns \/ RouterRuns \/ \E b \in DOMAIN binding : SourceRuns(b)

(* The modules of an application are periodic, the display thread drains   *)
(* its queue in every turn.  Only MapperRuns is a step of MapperTakes.     *)
ControlFairness ==
  /\ WF_controlVars(ApplyUpdate) /\ WF_controlVars(SinkRuns)
  /\ WF_<<controlBlock, published>>(MapperTakes)
  /\ WF_controlVars(ProcessorRuns) /\ WF_controlVars(AdapterRuns)
  /\ WF_controlVars(RouterRuns)
  /\ \A b \in BindingIds : WF_controlVars(SourceRuns(b))
ControlSpec == ControlInit /\ [][ControlNext]_controlVars /\ ControlFairness

-----------------------------------------------------------------------------
(* Whatever was dropped, overwritten or echoed late on the way, once the   *)
(* user is done every slider comes to the parameter's value, and so do the *)
(* mapper's state and the feedback of the binding that set it (of all      *)
(* bindings, when it was written).                                         *)
LoopSettles ==
  <>[](\A c \in Controls : ~ slider[c].pressed) =>
     <>[](/\ \A c \in Controls : slider[c].value = parameter.value
          /\ \A b \in DOMAIN binding : parameter.by \in {Nobody, b} =>
               /\ feedback[b] = parameter.value
               /\ mapping[b].current = parameter.value /\ mapping[b].last = parameter.value)

(* "binding state is not advanced for changes the target did not receive": *)
(* after a block whose room ran out, for an event or for one of its        *)
(* bindings, each binding's last value is the last one of its own that the *)
(* block carries, or what it was; and the value a relative or toggle       *)
(* binding goes on from is within the hysteresis of that.                  *)
AdvancedAsSent ==
  [][mapping' # mapping => \A b \in DOMAIN binding :
       LET before == Synchronize(mapping)[b]
           sent == {i \in DOMAIN events'.list : events'.list[i].binding = b}
       IN /\ mapping'[b].last = IF sent = {} THEN before.last ELSE events'.list[Max(sent)].value
          /\ mapping'[b].emitted = (sent # {} \/ before.emitted)
          /\ \/ mapping'[b].current = mapping'[b].last
             \/ Distance(mapping'[b].current, mapping'[b].last) < binding[b].hysteresis
    ]_controlVars
=============================================================================
