------------------------------ MODULE Envelope ------------------------------
(***************************************************************************)
(* The ADSR envelope of a voice (dsp/adsr_envelope.hpp), the one piece of  *)
(* state that says when a released voice is free again.  An envelope is    *)
(*   [stage, level, start, target, frame, frames]                          *)
(* and its parameters are                                                  *)
(*   [attack, decay, release, sustain, peak]                               *)
(* with times in frames and sustain the level itself.  Levels are small    *)
(* integers, the peak a multiple of what a ramp divides it by, so that the *)
(* ramps are exact as they are, but for rounding, in the code.             *)
(***************************************************************************)
EXTENDS Integers, Sequences, SequencesExt

CONSTANTS RampFrames, PeakLevel   \* longest ramp, peak of an envelope

ASSUME EnvelopeAssumption == RampFrames \in Nat \ {0} /\ PeakLevel \in Nat \ {0}

-----------------------------------------------------------------------------
Finished == [stage |-> "Idle", level |-> 0, start |-> 0, target |-> 0, frame |-> 0, frames |-> 0]
Sustaining(e, p) == [e EXCEPT !.stage = "Sustain", !.level = p.sustain]
Ramp(e, stage, target, frames) ==
  [e EXCEPT !.stage = stage, !.start = e.level, !.target = target, !.frame = 0, !.frames = frames]

(* update_stage_target: a stage of no frames is over at once *)
Decaying(e, p) ==
  IF p.decay = 0 THEN Sustaining(Ramp(e, "Decay", p.sustain, 0), p)
  ELSE Ramp(e, "Decay", p.sustain, p.decay)
Started(p) ==
  LET attack == Ramp(Finished, "Attack", p.peak, p.attack)
  IN IF p.attack = 0 THEN Decaying([attack EXCEPT !.level = p.peak], p) ELSE attack

Released(e, p) ==
  CASE e.stage \in {"Idle", "Release"} -> e
    [] e.stage \notin {"Idle", "Release"} /\ (p.release = 0 \/ e.level <= 0) -> Finished
    [] OTHER -> Ramp(e, "Release", 0, p.release)

(* next: the level that is heard is the one before the step *)
AdvanceStage(e, p) ==
  CASE e.stage = "Attack" -> Decaying(e, p)
    [] e.stage = "Decay" -> Sustaining(e, p)
    [] e.stage = "Release" -> Finished
Stepped(e, p) ==
  IF e.stage \in {"Sustain", "Idle"} THEN e
  ELSE LET frame == e.frame + 1
           level == e.start + ((e.target - e.start) * frame) \div e.frames
           ramped == [e EXCEPT !.frame = frame, !.level = level]
       IN IF frame >= e.frames THEN AdvanceStage(ramped, p) ELSE ramped

-----------------------------------------------------------------------------
(* A note: held for some frames, then released and heard to its end.       *)
PlayNote(e, p, frames) ==
  FoldLeft(LAMBDA t, i : [heard |-> Append(t.heard, t.envelope.level), envelope |-> Stepped(t.envelope, p)],
           [heard |-> <<>>, envelope |-> e], [i \in 1 .. frames |-> i])

Patches == [attack : 0 .. RampFrames, decay : 0 .. RampFrames, release : 0 .. RampFrames,
            sustain : {0, PeakLevel \div 2, PeakLevel}, peak : {PeakLevel}]

(* A note held through attack and decay is at its sustain level; whenever  *)
(* it is released, the voice is free after exactly the release time, or at *)
(* once when nothing is heard of it; its level never leaves 0 .. peak, and *)
(* where no stage is instantaneous no step is steeper than the steepest    *)
(* ramp, also when the release cuts off the attack.                        *)
ASSUME EnvelopeEnds ==
  \A p \in Patches, held \in 0 .. 2 * RampFrames + 1 :
    LET on == PlayNote(Started(p), p, held)
        off == PlayNote(Released(on.envelope, p), p, RampFrames)
        heard == on.heard \o off.heard
        silent == on.envelope.level = 0
        shortest == CHOOSE n \in {p.attack, p.decay, p.release} : {p.attack, p.decay, p.release} \subseteq n .. RampFrames
    IN /\ on.envelope.stage # "Idle"
       /\ held >= p.attack + p.decay => on.envelope.stage = "Sustain" /\ on.envelope.level = p.sustain
       /\ \A n \in 0 .. RampFrames :
            PlayNote(Released(on.envelope, p), p, n).envelope.stage = "Idle" <=> silent \/ n >= p.release
       /\ \A i \in DOMAIN heard : heard[i] \in 0 .. p.peak
       /\ shortest > 0 => \A i \in 2 .. Len(heard) :
            /\ heard[i] - heard[i - 1] <= p.peak \div shortest
            /\ heard[i - 1] - heard[i] <= p.peak \div shortest
=============================================================================
