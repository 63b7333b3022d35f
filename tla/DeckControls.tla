---------------------------- MODULE DeckControls ----------------------------
(***************************************************************************)
(* How a button or knob becomes a deck control event at a musical time:    *)
(* the action mapper (dsp/action_mapper.hpp), the transport                *)
(* (modules/transport_source.hpp), the deck's control quantizer            *)
(* (dsp/deck_control_quantizer.hpp) and the tempo and phase follower       *)
(* (dsp/transport_follower.hpp).                                           *)
(*                                                                         *)
(* All four run in one process() call, so they are operators, checked over *)
(* bounded inputs.  Positions and beats are counted in ticks, FrameTicks   *)
(* to a frame, so a boundary may fall between two frames; rates in units   *)
(* of 1 / Unity.                                                           *)
(***************************************************************************)
EXTENDS Integers, Sequences, SequencesExt, FiniteSetsExt

CONSTANTS
  EventRoom,    \* DeckControlEventBlock::MAX_EVENTS, also the pending events
  BlockFrames,  \* frames of a block
  FrameTicks, BeatTicks, BarBeats

ASSUME ControlsAssumption == {EventRoom, BlockFrames, FrameTicks, BeatTicks, BarBeats} \subseteq Nat \ {0}

-----------------------------------------------------------------------------
(* DeckControlQuantizer.  An event is [at, quantum, id], its quantum 0     *)
(* when it is immediate; a transport is [valid, running, beat].            *)
Unresolved == -1
NextBoundary(beat, quantum) == quantum * ((beat + quantum - 1) \div quantum)
BoundaryOffset(target, t) ==
  IF target <= t.beat THEN 0 ELSE (target - t.beat + FrameTicks - 1) \div FrameTicks
BoundaryOf(e, t) == NextBoundary(t.beat + e.at * FrameTicks, e.quantum)

(* insert_event: behind every event of the same offset *)
InsertEvent(q, e) ==
  LET place == Max({0} \cup {i \in DOMAIN q.out : q.out[i].at <= e.at})
  IN IF Len(q.out) >= EventRoom THEN [q EXCEPT !.dropped = @ + 1]
     ELSE [q EXCEPT !.out = InsertAt(@, place + 1, e)]
QueueEvent(q, e, target) ==
  IF Len(q.pending) >= EventRoom THEN [q EXCEPT !.dropped = @ + 1]
  ELSE [q EXCEPT !.pending = Append(@, [event |-> e, target |-> target])]
Schedule(q, e, target, t) ==
  LET offset == BoundaryOffset(target, t)
  IN IF t.running /\ offset < BlockFrames THEN InsertEvent(q, [e EXCEPT !.at = offset])
     ELSE QueueEvent(q, e, target)

(* publish_due: a target that could not be computed yet is computed now. *)
PublishDue(q, t) ==
  FoldLeft(LAMBDA r, p : Schedule(r, p.event,
                           IF p.target = Unresolved THEN BoundaryOf(p.event, t) ELSE p.target, t),
           [q EXCEPT !.pending = <<>>], q.pending)
Quantize(q, e, t) ==
  CASE e.at >= BlockFrames -> [q EXCEPT !.dropped = @ + 1]
    [] e.at < BlockFrames /\ e.quantum = 0 -> InsertEvent(q, e)
    [] e.at < BlockFrames /\ e.quantum # 0 ->
         IF t.valid THEN Schedule(q, e, BoundaryOf(e, t), t) ELSE QueueEvent(q, e, Unresolved)
QuantizeBlock(pending, input, t) ==
  LET fresh == [out |-> <<>>, pending |-> pending, dropped |-> 0]
  IN FoldLeft(LAMBDA q, e : Quantize(q, e, t),
              IF t.valid THEN PublishDue(fresh, t) ELSE fresh, input)

(* The beat or bar an event waits for is the one at or after its place;   *)
(* the transport reaches it in some frame of a block, or is past it.       *)
PlaceOf(e, t) == t.beat + e.at * FrameTicks
AwaitedBy(e, t) == {b \in PlaceOf(e, t) .. PlaceOf(e, t) + e.quantum - 1 : b % e.quantum = 0}
ReachedIn(target, at, t) ==
  target <= t.beat + at * FrameTicks /\ (at > 0 => target > t.beat + (at - 1) * FrameTicks)
PublishedAt(o, e, targets, t) ==
  o = [e EXCEPT !.at = o.at] /\ \E target \in targets : ReachedIn(target, o.at, t)

(* No event is lost without being counted, none is published while the     *)
(* transport stands, and one that waited for a beat or bar is published in *)
(* the first frame at or after its boundary (or, when the transport has    *)
(* passed it, at once), in the order of the block, whatever is pending; on *)
(* a running transport nothing is left waiting for a boundary in the block.*)
KeepsTime(q, pending, input, t) ==
  /\ Len(q.out) + Len(q.pending) + q.dropped = Len(pending) + Len(input)
  /\ \A i \in DOMAIN q.out : q.out[i].at < BlockFrames
  /\ \A i \in 2 .. Len(q.out) : q.out[i - 1].at <= q.out[i].at
  /\ \A o \in ToSet(q.out) :
       \/ o.quantum = 0 /\ o \in ToSet(input)
       \/ /\ t.valid /\ t.running
          /\ \/ \E e \in ToSet(input) : e.quantum # 0 /\ PublishedAt(o, e, AwaitedBy(e, t), t)
             \/ \E p \in ToSet(pending) :
                  PublishedAt(o, p.event, IF p.target = Unresolved THEN AwaitedBy(p.event, t) ELSE {p.target}, t)
  /\ t.valid /\ t.running =>
       \A p \in ToSet(q.pending) : p.target > t.beat + (BlockFrames - 1) * FrameTicks

SmallEvents == [at : 0 .. BlockFrames, quantum : {0, BeatTicks, BarBeats * BeatTicks}, id : {"new"}]
SmallPending == [event : [at : {0}, quantum : {BeatTicks}, id : {"old"}],
                 target : {Unresolved, BeatTicks, 2 * BeatTicks}]
ASSUME QuantizerKeepsTime ==
  \A pending \in BoundedSeq(SmallPending, EventRoom), input \in BoundedSeq(SmallEvents, EventRoom),
     beat \in 0 .. BeatTicks, running \in BOOLEAN, valid \in BOOLEAN :
    LET t == [valid |-> valid, running |-> running, beat |-> beat]
    IN KeepsTime(QuantizeBlock(pending, input, t), pending, input, t)

-----------------------------------------------------------------------------
(* ActionMapper: every binding of the control's source makes an event of   *)
(* its own; a released button makes none.  A control is [source, value,    *)
(* at, pressed], pressed false for a button with a value of zero.          *)
ValidActions(bindings) ==
  \A i, j \in DOMAIN bindings : bindings[i].id # 0 /\ (bindings[i].id = bindings[j].id => i = j)
MapAction(result, c, b) ==
  CASE c.source # b.source \/ ~ c.pressed -> result
    [] c.source = b.source /\ c.pressed ->
         IF Len(result.out) >= EventRoom THEN [result EXCEPT !.dropped = @ + 1]
         ELSE [result EXCEPT !.out = Append(@, [action |-> b.id, at |-> c.at])]
MapActions(bindings, controls) ==
  FoldLeft(LAMBDA result, c :
             IF c.at >= BlockFrames THEN [result EXCEPT !.invalid = @ + 1]
             ELSE FoldLeft(LAMBDA r, b : MapAction(r, c, b), result, bindings),
           [out |-> <<>>, dropped |-> 0, invalid |-> 0], controls)

(* Every press reaches every action bound to it or is counted as dropped.  *)
ASSUME PressesAccounted ==
  \A bindings \in BoundedSeq([id : 1 .. 2, source : {"play", "cue"}], 2),
     controls \in BoundedSeq([source : {"play", "cue"}, pressed : BOOLEAN, at : {0, BlockFrames}], 3) :
    ValidActions(bindings) =>
      LET r == MapActions(bindings, controls)
          Heard(c) == {b \in DOMAIN bindings : c.pressed /\ c.at < BlockFrames /\ bindings[b].source = c.source}
      IN Len(r.out) + r.dropped =
           FoldLeft(LAMBDA n, c : n + Cardinality(Heard(c)), 0, controls)

-----------------------------------------------------------------------------
(* TransportSource: one block per period, then the position moves on.      *)
TransportBlock(s) ==
  [beat |-> s.beat, tempo |-> s.tempo, running |-> s.running, discontinuity |-> s.jumped]
TransportAfter(s) ==
  [s EXCEPT !.jumped = FALSE, !.beat = IF s.running THEN @ + BlockFrames * s.tempo ELSE @]
ParamsChanged(s, tempo, running, initial) ==
  [s EXCEPT !.tempo = tempo, !.running = running, !.jumped = TRUE, !.initial = initial,
            !.beat = IF initial # s.initial THEN initial ELSE @]

(* A block continues the one before it or says that it does not. *)
ASSUME BlocksContinue ==
  \A tempo, newTempo \in 1 .. 2, running, nowRunning \in BOOLEAN, initial \in 0 .. 3, change \in BOOLEAN :
    LET s == [beat |-> 1, initial |-> 1, tempo |-> tempo, running |-> running, jumped |-> FALSE]
        after == TransportAfter(s)
        next == TransportBlock(IF change THEN ParamsChanged(after, newTempo, nowRunning, initial) ELSE after)
    IN ~ next.discontinuity =>
         /\ next.tempo = tempo /\ next.running = running
         /\ next.beat = s.beat + IF running THEN BlockFrames * tempo ELSE 0

-----------------------------------------------------------------------------
(* TransportFollower::update.  settings is [low, high, nudge, seek]; the   *)
(* media is at mediaBeat and has mediaTempo, 0 when its grid has no answer.*)
Unity == 100
NoDecision == [action |-> "none", rate |-> Unity, to |-> 0]
Clamp(x, low, high) == Min({high, Max({low, x})})
Follow(settings, mode, t, mediaBeat, mediaTempo) ==
  LET nominal == (Unity * t.tempo) \div mediaTempo
      error == t.beat - mediaBeat
  IN CASE ~ t.valid \/ mediaTempo = 0 \/ mode = "off" -> NoDecision
       [] OTHER ->
            IF nominal \notin settings.low .. settings.high THEN NoDecision
            ELSE IF mode = "tempo" THEN [NoDecision EXCEPT !.action = "rate", !.rate = nominal]
            ELSE IF t.discontinuity \/ Max({error, -error}) > settings.seek
                 THEN [action |-> "seek", rate |-> nominal, to |-> t.beat]
            ELSE [action |-> "rate", to |-> 0,
                  rate |-> Clamp(nominal + Clamp(error, -settings.nudge, settings.nudge),
                                 settings.low, settings.high)]

(* A deck is never driven outside its range of rates, and once it follows  *)
(* the phase it either seeks to the transport's beat or does not run away  *)
(* from it: behind it is not slower, ahead not faster than its tempo asks. *)
FollowsInRange(d, settings, mode, t, mediaBeat, mediaTempo) ==
  /\ d.rate \in settings.low .. settings.high
  /\ d.action = "seek" => mode = "phase" /\ d.to = t.beat
  /\ d.action = "rate" /\ mode = "phase" =>
       /\ t.beat > mediaBeat => d.rate >= (Unity * t.tempo) \div mediaTempo
       /\ t.beat < mediaBeat => d.rate <= (Unity * t.tempo) \div mediaTempo

ASSUME FollowerStaysInRange ==
  \A mode \in {"off", "tempo", "phase"}, valid, jump \in BOOLEAN, tempo \in 1 .. 4,
     beat, mediaBeat \in 0 .. 8, mediaTempo \in 0 .. 3 :
    LET settings == [low |-> 50, high |-> 150, nudge |-> 4, seek |-> 3]
        t == [valid |-> valid, beat |-> beat, tempo |-> tempo, discontinuity |-> jump]
    IN FollowsInRange(Follow(settings, mode, t, mediaBeat, mediaTempo), settings, mode, t, mediaBeat, mediaTempo)
=============================================================================
