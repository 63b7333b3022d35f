---------------------------- MODULE VarispeedLoop ----------------------------
(***************************************************************************)
(* How a block is rendered at a variable rate and inside a loop:           *)
(* VarispeedRenderer::render and render_underrun, their controls, and the  *)
(* retention floor by which DecodeAheadRenderer releases chunks            *)
(* (dsp/varispeed_renderer.hpp).  The cue button's controls are CueButton; *)
(* which chunks are leased, and when, is PlaybackCoordinator.              *)
(*                                                                         *)
(* A renderer is                                                           *)
(*   [at, rate, target, step, ramp, playing, looping, from, to]            *)
(* where at counts ticks, Ticks to a frame, and rates are ticks per frame; *)
(* leased is [frames, end]: the frames of the chunks it may read, and the  *)
(* end of the track when the last chunk is among them (Endless if not).    *)
(***************************************************************************)
EXTENDS Integers, Sequences, SequencesExt, FiniteSetsExt

CONSTANTS
  TrackFrames,   \* frames of a track
  Ticks,         \* ticks of a frame
  Rates          \* the rates within the bounds, in ticks per frame

ASSUME LoopAssumption == {TrackFrames, Ticks} \cup Rates \subseteq Nat \ {0}

-----------------------------------------------------------------------------
(* set_rate_immediate, ramp_rate, next_rate: a rate out of bounds is       *)
(* ignored, a ramp ends exactly on its target.  A step is rounded towards  *)
(* zero: like the code's, it never leads past the target.                  *)
SetRate(r, rate) ==
  IF rate \notin Rates THEN r ELSE [r EXCEPT !.rate = rate, !.target = rate, !.step = 0, !.ramp = 0]
RampRate(r, rate, frames) ==
  CASE rate \notin Rates -> r
    [] rate \in Rates /\ frames = 0 -> SetRate(r, rate)
    [] rate \in Rates /\ frames > 0 ->
         [r EXCEPT !.target = rate, !.ramp = frames,
                   !.step = IF rate >= r.rate THEN (rate - r.rate) \div frames ELSE -((r.rate - rate) \div frames)]
NextRate(r) ==
  IF r.ramp = 0 THEN r
  ELSE [r EXCEPT !.ramp = @ - 1, !.rate = IF r.ramp = 1 THEN r.target ELSE @ + r.step]

-----------------------------------------------------------------------------
Endless == 1000
FrameAt(ticks) == ticks \div Ticks
RetentionFloor(r) == IF r.looping THEN Min({r.at, r.from * Ticks}) ELSE r.at
WrapLoop(r) ==
  IF ~ r.looping \/ r.at < r.to * Ticks THEN r
  ELSE [r EXCEPT !.at = r.from * Ticks + ((r.at - r.from * Ticks) % ((r.to - r.from) * Ticks))]

(* sample_frame: between two frames both are needed, the second one of the *)
(* loop's end is its start, and the last frame of the track stands alone.  *)
CanSample(r, leased) ==
  LET first == FrameAt(r.at)
      second == IF r.looping /\ first + 1 >= r.to THEN r.from ELSE first + 1
  IN /\ first \in leased.frames
     /\ r.at % Ticks = 0 \/ first + 1 = leased.end \/ second \in leased.frames

(* range_is_resident and apply_control, for what concerns rates and loops *)
RangeResident(from, to, leased) == from .. to - 1 \subseteq leased.frames
ApplyLoopControl(r, c, leased) ==
  CASE c.type = "play" -> [r EXCEPT !.playing = TRUE]
    [] c.type = "pause" -> [r EXCEPT !.playing = FALSE]
    [] c.type = "rate" -> SetRate(r, c.value)
    [] c.type = "ramp" -> RampRate(r, c.value, c.frames)
    [] c.type = "from" -> [r EXCEPT !.from = c.value, !.looping = FALSE]
    [] c.type = "to" -> [r EXCEPT !.to = c.value, !.looping = FALSE]
    [] c.type = "enable" -> [r EXCEPT !.looping = r.from < r.to /\ RangeResident(r.from, r.to, leased)]
    [] c.type = "disable" -> [r EXCEPT !.looping = FALSE]

(* controls_are_valid: one control out of order makes all of them void *)
InOrder(controls, frames) ==
  \A i \in DOMAIN controls :
    controls[i].at < frames /\ (i > 1 => controls[i - 1].at <= controls[i].at)
ControlAt(r, c, offset, leased) ==
  IF c.at = offset THEN ApplyLoopControl(r, c, leased) ELSE r
Controlled(r, controls, frames, offset, leased) ==
  IF InOrder(controls, frames) THEN FoldLeft(LAMBDA s, c : ControlAt(s, c, offset, leased), r, controls) ELSE r

(* render: what each frame of the block is, "paused", "end", "underrun" or *)
(* the frame heard.                                                        *)
RenderFrame(t, controls, leased, frames, offset) ==
  LET r == WrapLoop(Controlled(t.r, controls, frames, offset, leased))
      moved == NextRate(r)
  IN CASE ~ r.playing -> [r |-> r, heard |-> Append(t.heard, "paused")]
       [] r.playing /\ CanSample(r, leased) ->
            [r |-> WrapLoop([moved EXCEPT !.at = @ + moved.rate]), heard |-> Append(t.heard, FrameAt(r.at))]
       [] r.playing /\ ~ CanSample(r, leased) ->
            [r |-> r, heard |-> Append(t.heard, IF r.at >= leased.end * Ticks THEN "end" ELSE "underrun")]
RenderLoop(r, controls, leased, frames) ==
  FoldLeft(LAMBDA t, f : RenderFrame(t, controls, leased, frames, f - 1),
           [r |-> r, heard |-> <<>>], [f \in 1 .. frames |-> f])

(* render_underrun: no chunk at all, the controls are applied all the same *)
RenderStarved(r, controls, frames) ==
  LET nothing == [frames |-> {}, end |-> Endless]
  IN FoldLeft(LAMBDA s, f : Controlled(s, controls, frames, f - 1, nothing), r, [f \in 1 .. frames |-> f])

-----------------------------------------------------------------------------
Window(low, high) == [frames |-> low .. high - 1, end |-> IF high = TrackFrames THEN high ELSE Endless]
Control(type, at, value) == [type |-> type, at |-> at, value |-> value, frames |-> 2]
Renderer(at, rate) == [at |-> at, rate |-> rate, target |-> rate, step |-> 0, ramp |-> 0,
                       playing |-> TRUE, looping |-> FALSE, from |-> 0, to |-> 0]
Positions == 0 .. TrackFrames * Ticks
LoopOf(from, to, at) ==
  <<Control("from", at, from), Control("to", at, to), Control("enable", at, 0)>>
Span == 2 * TrackFrames + 1

(* An enabled loop plays for ever: once inside, whatever the rate and a    *)
(* ramp do, it neither runs dry nor reaches the end, and no frame outside  *)
(* of the loop is heard again.  A loop that is not resident is refused,    *)
(* and one that ends before the position is entered at once.               *)
ASSUME LoopNeverDries ==
  \A low, high \in 0 .. TrackFrames, from, to \in 0 .. TrackFrames, at \in Positions, rate, ramped \in Rates :
    LET leased == Window(low, high)
        start == Renderer(at, rate)
        controls == Append(LoopOf(from, to, 0), Control("ramp", 1, ramped))
        played == RenderLoop(start, controls, leased, Span)
        inside == at >= from * Ticks
    IN /\ played.r.looping <=> from < to /\ from .. to - 1 \subseteq leased.frames
       /\ played.r.looping /\ inside => \A i \in DOMAIN played.heard : played.heard[i] \in from .. to - 1
       /\ played.r.looping /\ inside => played.r.rate = ramped
       /\ ~ RenderStarved(start, LoopOf(from, to, 0), 1).looping

(* What lies below the retention floor is never needed again: releasing it *)
(* changes nothing that is heard, also where the loop wraps.               *)
ASSUME FloorIsEnough ==
  \A from, to \in 0 .. TrackFrames, at \in Positions, rate \in Rates, high \in 1 .. TrackFrames :
    LET started == RenderLoop(Renderer(at, rate), LoopOf(from, to, 0), Window(0, high), 1).r
        kept == Window(FrameAt(RetentionFloor(started)), high)
    IN RenderLoop(started, <<>>, kept, Span) = RenderLoop(started, <<>>, Window(0, high), Span)

(* Starved of chunks, the position stands still and the controls are kept: *)
(* a deck told to pause while it starves is paused when the chunks arrive. *)
ASSUME StarvingKeepsControls ==
  \A at \in Positions, rate, asked \in Rates, offset \in 0 .. 1, type \in {"pause", "rate", "disable"} :
    LET controls == <<Control(type, offset, asked)>>
        starved == RenderStarved(Renderer(at, rate), controls, 2)
    IN /\ starved.at = at
       /\ starved = ApplyLoopControl(Renderer(at, rate), controls[1], Window(0, 0))
       /\ RenderStarved(Renderer(at, rate), <<Control("pause", 1, 0), Control("rate", 0, asked)>>, 2) = Renderer(at, rate)
=============================================================================
