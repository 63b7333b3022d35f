---------------------------- MODULE UiObservation ---------------------------
(***************************************************************************)
(* How the state of the audio modules reaches the widgets: the adapters of *)
(* parameters (dsp/parameter_state_ui_adapter.hpp), level meters           *)
(* (dsp/level_meter_ui_adapter.hpp) and the playback status                *)
(* (dsp/playback_status_ui_adapter.hpp), and the merger of two blocks of   *)
(* widget updates (dsp/widget_update_merger.hpp).                          *)
(*                                                                         *)
(* Each runs in one process() call without state of its own but the        *)
(* bindings, so they are operators, checked over bounded inputs.  A block  *)
(* of updates is [events, overflow, sourceInvalid]; a value is whether it  *)
(* is a number at all and, where it is scaled, a small integer.            *)
(***************************************************************************)
EXTENDS Integers, Sequences, SequencesExt, FiniteSetsExt

CONSTANTS
  UpdateRoom,   \* WidgetUpdateBlock::MAX_EVENTS
  BindingRoom   \* MAX_BINDINGS

ASSUME ObservationAssumption == {UpdateRoom, BindingRoom} \subseteq Nat \ {0}

NotANumber == -1
EmptyUpdates == [events |-> <<>>, overflow |-> FALSE, sourceInvalid |-> FALSE, dropped |-> 0]
PutUpdate(block, e) ==
  IF Len(block.events) >= UpdateRoom THEN [block EXCEPT !.overflow = TRUE, !.dropped = @ + 1]
  ELSE [block EXCEPT !.events = Append(@, e)]

-----------------------------------------------------------------------------
(* configure: the bindings change as a whole, or not at all; usable are    *)
(* those of them the adapter can serve.                                    *)
Configured(old, new, usable) ==
  IF /\ Len(new) <= BindingRoom /\ ToSet(new) \subseteq usable
     /\ \A i, j \in DOMAIN new : new[i].id = new[j].id => i = j
  THEN new ELSE old

(* A parameter is shown scaled to its range, a choice as it is. *)
ValidParameterBinding(b) == b.id # 0 /\ b.parameter # 0 /\ b.low < b.high
ParameterUpdate(s, b) ==
  [id |-> b.id, value |-> IF b.choice THEN s.value
                          ELSE Max({0, Min({100, (100 * (s.value - b.low)) \div (b.high - b.low)})})]
ObserveParameters(bindings, states, overflow) ==
  FoldLeft(LAMBDA block, s :
             IF s.parameter = 0 \/ s.value = NotANumber THEN block
             ELSE FoldLeft(LAMBDA updates, b :
                             IF b.parameter # s.parameter THEN updates
                             ELSE PutUpdate(updates, ParameterUpdate(s, b)),
                           block, bindings),
           [EmptyUpdates EXCEPT !.overflow = overflow], states)

(* A meter shows the channels that there are; "clipped" only as active. *)
ValidMeterBinding(b) == b.id # 0 /\ (b.clipped => b.property = "active")
ObserveLevels(bindings, meter) ==
  IF ~ meter.valid THEN [EmptyUpdates EXCEPT !.sourceInvalid = TRUE]
  ELSE FoldLeft(LAMBDA block, b :
                  IF b.channel >= Len(meter.levels) THEN block
                  ELSE PutUpdate(block, [id |-> b.id, value |-> meter.levels[b.channel + 1]]),
                EmptyUpdates, bindings)

(* What a status says of a binding: "ok", "unavailable" when it has no     *)
(* answer yet, "invalid" when the answer makes no sense (it is shown as    *)
(* unavailable, and counted).                                              *)
AboutLoads == {"load_state", "load_error"}
Times == {"elapsed", "remaining"}
ValidStatusBinding(b) ==
  b.id # 0 /\ b.property = CASE b.shows \in Times -> "text"
                             [] b.shows = "playing" -> "active"
                             [] OTHER -> "value"
StatusAnswer(shows, status) ==
  CASE ~ status.valid /\ shows \notin AboutLoads -> "invalid"
    [] shows \in Times /\ status.position = NotANumber -> "invalid"
    [] shows \in Times /\ (status.rate = 0 \/ (shows = "remaining" /\ status.duration = 0)) -> "unavailable"
    [] shows = "position" /\ status.duration = 0 -> "unavailable"
    [] shows \in {"position", "media_position"} /\ status.position = NotANumber -> "invalid"
    [] shows = "worker" /\ ~ status.known -> "invalid"
    [] shows \in AboutLoads /\ ~ status.known -> "invalid"
    [] OTHER -> "ok"

(* MM:SS.mmm: minutes, seconds, milliseconds *)
ClockOf(ms) == <<ms \div 60000, (ms \div 1000) % 60, ms % 1000>>
ShownTime(shows, status) ==
  LET frames == IF shows = "elapsed" THEN status.position ELSE Max({0, status.duration - status.position})
  IN ClockOf((1000 * frames) \div status.rate)
ObserveStatus(bindings, status) ==
  [i \in DOMAIN bindings |->
     LET answer == StatusAnswer(bindings[i].shows, status)
     IN [id |-> bindings[i].id,
         value |-> IF answer # "ok" THEN "unavailable"
                   ELSE IF bindings[i].shows \in Times THEN ShownTime(bindings[i].shows, status)
                   ELSE "value"]]

(* Merger::append: an invalid source adds nothing. *)
Appended(block, source) ==
  IF source.sourceInvalid THEN block
  ELSE FoldLeft(PutUpdate, [block EXCEPT !.overflow = @ \/ source.overflow], source.events)
MergeUpdates(sources) ==
  [FoldLeft(Appended, EmptyUpdates, sources) EXCEPT
     !.sourceInvalid = \A i \in DOMAIN sources : sources[i].sourceInvalid]

-----------------------------------------------------------------------------
(* A configuration that is refused leaves the former one working.          *)
SmallBindings2 == [id : 0 .. 2, parameter : 0 .. 1, low : {0}, high : {0, 4}, choice : BOOLEAN]
ASSUME ConfigurationWhole ==
  \A new \in BoundedSeq(SmallBindings2, 2) :
    LET former == <<[id |-> 9, parameter |-> 1, low |-> 0, high |-> 4, choice |-> FALSE]>>
        now == Configured(former, new, {b \in ToSet(new) : ValidParameterBinding(b)})
    IN \/ now = new
       \/ /\ now = former
          /\ \E i, j \in DOMAIN new :
               ~ ValidParameterBinding(new[i]) \/ (i # j /\ new[i].id = new[j].id)

(* Updates that are missing are announced: from the source through the     *)
(* adapter and the merger, a widget that was not updated although its      *)
(* parameter was in the block implies the overflow flag, and what arrives  *)
(* is in the order of the sources and within the widget's range.           *)
Configurations == {b \in BoundedSeq([id : 1 .. 2, parameter : {1}, low : {0}, high : {4}, choice : {FALSE}], 2) :
                     Len(b) = 2 => b[1].id # b[2].id}
ASSUME LossIsAnnounced ==
  \A bindings \in Configurations, states \in BoundedSeq([parameter : 0 .. 1, value : {NotANumber, 2, 7}], 2),
     lost, secondInvalid \in BOOLEAN :
    LET first == ObserveParameters(bindings, states, lost)
        second == [EmptyUpdates EXCEPT !.events = <<[id |-> 9, value |-> 0]>>, !.sourceInvalid = secondInvalid]
        merged == MergeUpdates(<<first, second>>)
        Due(s) == s.parameter # 0 /\ s.value # NotANumber
        expected == Len(bindings) * Len(SelectSeq(states, Due)) + IF secondInvalid THEN 0 ELSE 1
    IN /\ ~ merged.sourceInvalid /\ (lost => merged.overflow)
       /\ Len(merged.events) < expected => merged.overflow
       /\ Len(merged.events) <= UpdateRoom
       /\ \A i \in DOMAIN merged.events : merged.events[i].value \in 0 .. 100

(* An invalid meter says so; a valid one shows each bound channel it has.  *)
ASSUME MetersTellValidity ==
  \A valid \in BOOLEAN, levels \in BoundedSeq({3, 5}, 2), channels \in BoundedSeq(0 .. 2, 2) :
    LET asked == [i \in DOMAIN channels |->
                   [id |-> i, channel |-> channels[i], clipped |-> i = 1, property |-> "active"]]
        bindings == Configured(<<>>, asked, {b \in ToSet(asked) : ValidMeterBinding(b)})
        seen == ObserveLevels(bindings, [valid |-> valid, levels |-> levels])
    IN IF ~ valid THEN seen.events = <<>> /\ MergeUpdates(<<seen>>).sourceInvalid
       ELSE {e.id : e \in ToSet(seen.events)} = {i \in DOMAIN channels : channels[i] < Len(levels)} \/ seen.overflow

(* Elapsed and remaining time add up to the duration, to the millisecond   *)
(* each is cut to, and every binding gets exactly one update.              *)
Milliseconds(clock) == 60000 * clock[1] + 1000 * clock[2] + clock[3]
ASSUME TimesAddUp ==
  \A position \in {NotANumber, 0, 59999, 60000, 61007}, duration \in {0, 1, 125003}, rate \in {0, 3, 1000}, valid \in BOOLEAN :
    LET status == [valid |-> valid, known |-> TRUE, position |-> position, duration |-> duration, rate |-> rate]
        asked == <<[id |-> 1, shows |-> "elapsed", property |-> "text"],
                   [id |-> 2, shows |-> "remaining", property |-> "text"],
                   [id |-> 3, shows |-> "load_state", property |-> "value"]>>
        bindings == Configured(<<>>, asked, {b \in ToSet(asked) : ValidStatusBinding(b)})
        shown == ObserveStatus(bindings, status)
        end == Max({position, duration})
    IN /\ Len(shown) = 3 /\ shown[3].value # "unavailable"
       /\ shown[2].value # "unavailable" =>
            Milliseconds(shown[1].value) + Milliseconds(shown[2].value)
              \in ((1000 * end) \div rate) - 1 .. (1000 * end) \div rate
=============================================================================
