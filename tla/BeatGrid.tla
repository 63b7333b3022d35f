------------------------------- MODULE BeatGrid -------------------------------
(***************************************************************************)
(* The beat grid of a track and the mapper between frames and beats        *)
(* (dsp/beat_grid.hpp).                                                    *)
(*                                                                         *)
(* A grid is [segments, meter]; a segment starts at a frame and at a beat, *)
(* with a tempo.  Beats are counted in units of which one beat has         *)
(* BeatUnits, 60 times the sample rate: a segment advances by its tempo in *)
(* units per frame, so that positions are exact integers.                  *)
(***************************************************************************)
EXTENDS Integers, Sequences, FiniteSetsExt

CONSTANT BeatUnits

ASSUME BeatUnitsAssumption == BeatUnits \in Nat \ {0}

NoPosition == -1
RoundedDiv(a, b) == (2 * a + b) \div (2 * b)   \* std::llround of a quotient >= 0

UnitsAt(segment, frame) == segment.beat + (frame - segment.frame) * segment.tempo

(* validate: a grid starts at beat zero and each segment where the one     *)
(* before it has led.                                                      *)
ValidGrid(grid) ==
  /\ grid.segments # <<>> /\ grid.meter # 0
  /\ \A i \in DOMAIN grid.segments : grid.segments[i].beat >= 0 /\ grid.segments[i].tempo > 0
  /\ grid.segments[1].beat = 0
  /\ \A i \in 2 .. Len(grid.segments) :
       LET before == grid.segments[i - 1]
           this == grid.segments[i]
       IN this.frame > before.frame /\ this.beat > before.beat /\ this.beat = UnitsAt(before, this.frame)

(* segment_for_frame and segment_for_beat: the last segment that has begun,*)
(* or the first.                                                           *)
SegmentForFrame(grid, frame) ==
  grid.segments[Max({1} \cup {i \in DOMAIN grid.segments : \A j \in 2 .. i : grid.segments[j].frame <= frame})]
SegmentForBeat(grid, beat) ==
  grid.segments[Max({1} \cup {i \in DOMAIN grid.segments : \A j \in 2 .. i : grid.segments[j].beat <= beat})]

PositionAtFrame(grid, frame) ==
  LET units == UnitsAt(SegmentForFrame(grid, frame), frame)
      beat == units \div BeatUnits
  IN IF ~ ValidGrid(grid) \/ frame < 0 \/ units < 0 THEN [valid |-> FALSE]
     ELSE [valid |-> TRUE, units |-> units, bar |-> beat \div grid.meter, beatInBar |-> beat % grid.meter]

(* frame_at_beat, as the whole frame nearest to it. *)
FrameAtBeat(grid, units) ==
  IF ~ ValidGrid(grid) \/ units < 0 THEN NoPosition
  ELSE LET segment == SegmentForBeat(grid, units)
       IN segment.frame + RoundedDiv(units - segment.beat, segment.tempo)
TempoAtFrame(grid, frame) ==
  IF ~ ValidGrid(grid) \/ frame < 0 THEN 0 ELSE SegmentForFrame(grid, frame).tempo

-----------------------------------------------------------------------------
(* Frames and beats are two names of one position: the frame of a frame's  *)
(* beat is that frame, across segments of different tempo, and a later     *)
(* frame is at a later beat, in the same bar or a later one.               *)
MapsBack(grid, frames) ==
  \A f \in frames :
    LET here == PositionAtFrame(grid, f)
        next == PositionAtFrame(grid, f + 1)
    IN here.valid => /\ FrameAtBeat(grid, here.units) = f
                     /\ next.valid /\ next.units > here.units
                     /\ next.bar * grid.meter + next.beatInBar >= here.bar * grid.meter + here.beatInBar

(* Two segments, the second anywhere the first can lead. *)
GridsOf(frames, tempos, meters) ==
  {[segments |-> <<[frame |-> f, beat |-> 0, tempo |-> t],
                   [frame |-> f + n, beat |-> n * t, tempo |-> u]>>, meter |-> m] :
     f \in frames, n \in 1 .. 3, t \in tempos, u \in tempos, m \in meters}

ASSUME GridMapsBack ==
  \A grid \in GridsOf(0 .. 2, {1, 2, 5}, {1, 3}) :
    ValidGrid(grid) /\ MapsBack(grid, 0 .. 8) /\ TempoAtFrame(grid, 0) > 0
=============================================================================
