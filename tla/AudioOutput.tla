------------------------------ MODULE AudioOutput ------------------------------
(***************************************************************************)
(* The audio device sink (modules/audio_device_sink) over the ALSA or the  *)
(* PipeWire backend (backends/audio): a ring between the module's thread   *)
(* and the thread that feeds the device, with pre-roll and drift           *)
(* correction.                                                             *)
(*                                                                         *)
(* Three threads: the module's (open, close, write), the feeder (the ALSA  *)
(* worker, PipeWire's real-time callback) and PipeWire's loop thread with  *)
(* the state callback.  Frames are numbered by their position since open;  *)
(* a slot holds the number of its frame.  The source phase is counted in   *)
(* 1/Phase of a frame, so that the step is Phase - 1 .. Phase + 1 instead  *)
(* of 1 -/+ 500 ppm.  Sample values, diagnostics and counters are left out.*)
(***************************************************************************)
EXTENDS Integers

CONSTANTS
  MaxBlock,        \* max_audio_frames; the ring has four times as many
  Phase,           \* phases per frame
  PeriodFrames,    \* config.period_frames
  DeviceBuffer,    \* the device buffer ALSA negotiates
  MaxFrames,       \* bound on the frames written between open and close
  MaxOpens         \* bound on calls of open

ASSUME OutputAssumption ==
  /\ MaxBlock \in Nat \ {0} /\ Phase \in Nat \ {0, 1} /\ PeriodFrames \in 1 .. MaxBlock
  /\ DeviceBuffer \in Nat /\ MaxFrames \in Nat /\ MaxOpens \in Nat

VARIABLES
  backend,      \* "alsa" or "pipewire"
  open,         \* open_
  stream,       \* state_: "none", "connecting", "live", "error", "unconnected"
  opening,      \* module thread inside open or close
  opens,        \* how much of MaxOpens is used
  ring,         \* read_position_, write_position_, samples_
  fraction,     \* read_fraction_, in phases
  preroll,      \* PlaybackPreroll: running_, started_
  writer,       \* module thread inside write
  feeder,       \* feeding thread: pc, positions loaded, frames to deliver, step
  flushRaced    \* history: a stream state change flushed the ring under a callback

outputVars == <<backend, open, stream, opening, opens, ring, fraction, preroll, writer, feeder, flushRaced>>

Ring == 4 * MaxBlock                     \* queue_capacity_frames
Least(a, b) == IF a < b THEN a ELSE b
Greatest(a, b) == IF a < b THEN b ELSE a
Used(r, w) == w - r
EmptyRing == [read |-> 0, write |-> 0, slots |-> [i \in 0 .. Ring - 1 |-> -1]]
FeederIdle == [pc |-> "idle", read |-> 0, write |-> 0, frames |-> 0, step |-> Phase]

OutputInit ==
  /\ backend \in {"alsa", "pipewire"}
  /\ open = FALSE /\ stream = "none" /\ opening = "closed" /\ opens = 0
  /\ ring = EmptyRing /\ fraction = 0
  /\ preroll = [running |-> FALSE, started |-> FALSE]
  /\ writer = [pc |-> "idle", frames |-> 0]
  /\ feeder = [FeederIdle EXCEPT !.pc = "none"]
  /\ flushRaced = FALSE

----------------------------------------------------------------------------
(* PlaybackPreroll and QueueDriftController *)

M_Target(consumer) ==
  Least(Ring, (IF backend = "alsa" THEN DeviceBuffer ELSE 0) + 2 * Greatest(PeriodFrames, consumer))
Target(consumer) ==
  Least(Ring - MaxBlock, (IF backend = "alsa" THEN DeviceBuffer ELSE 0) + 2 * Greatest(PeriodFrames, consumer))
ReadyWith(queued, consumer) == preroll.running \/ queued >= Target(consumer)
Step(queued) == LET error == queued - Target(PeriodFrames)
                IN Phase + (IF error >= 4 THEN 1 ELSE IF error <= -4 THEN -1 ELSE 0)

(* advance_source_cursor: whole frames consumed, and the phase left *)
Consumed(frames, step) == (fraction + frames * step) \div Phase
PhaseLeft(frames, step) == (fraction + frames * step) % Phase

(* How many output frames can be interpolated: each needs its source frame and the next. *)
Deliverable(wanted, queued, step) ==
  LET Has(i) == (fraction + i * step) \div Phase + 1 < queued
  IN CHOOSE n \in 0 .. wanted : (\A i \in 0 .. n - 1 : Has(i)) /\ (n = wanted \/ ~ Has(n))

----------------------------------------------------------------------------
(* open and close, called by on_enable and on_disable between two blocks *)

ModuleIdle == writer.pc = "idle"
Reset == /\ ring' = EmptyRing /\ fraction' = 0
         /\ preroll' = [running |-> FALSE, started |-> FALSE] /\ flushRaced' = FALSE

Open ==
  /\ opening = "closed" /\ ModuleIdle /\ opens < MaxOpens /\ opens' = opens + 1
  /\ Reset
  /\ IF backend = "alsa"
     THEN open' = TRUE /\ opening' = "open" /\ feeder' = FeederIdle /\ UNCHANGED stream
     ELSE /\ stream' = "connecting" /\ opening' = "waiting"
          /\ feeder' = [FeederIdle EXCEPT !.pc = "none"] /\ UNCHANGED open
  /\ UNCHANGED <<backend, writer>>

(* The configuration is invalid or the device refuses it. *)
OpenFails ==
  /\ opening = "closed" /\ ModuleIdle /\ opens < MaxOpens /\ opens' = opens + 1
  /\ UNCHANGED <<backend, open, stream, opening, ring, fraction, preroll, writer, feeder, flushRaced>>

(* PipeWire: the loop is unlocked with the state seen, then open_ is stored. *)
OpenWaited ==
  /\ opening = "waiting" /\ stream # "connecting"
  /\ opening' = IF stream = "live" THEN "unlocked" ELSE "closing"
  /\ UNCHANGED <<backend, open, stream, opens, ring, fraction, preroll, writer, feeder, flushRaced>>
OpenTimesOut ==
  /\ opening = "waiting" /\ stream = "connecting" /\ opening' = "closing"
  /\ UNCHANGED <<backend, open, stream, opens, ring, fraction, preroll, writer, feeder, flushRaced>>
OpenMarks ==
  /\ opening = "unlocked" /\ opening' = "open" /\ open' = TRUE
  /\ UNCHANGED <<backend, stream, opens, ring, fraction, preroll, writer, feeder, flushRaced>>

Close ==
  /\ opening \in {"open", "closing"} /\ ModuleIdle
  /\ open' = FALSE /\ opening' = "stopping"
  /\ UNCHANGED <<backend, stream, opens, ring, fraction, preroll, writer, feeder, flushRaced>>
(* The worker is joined, the loop stopped: the feeder is between two rounds. *)
Closed ==
  /\ opening = "stopping" /\ feeder.pc \in {"idle", "none"}
  /\ opening' = "closed" /\ open' = FALSE /\ stream' = "none"
  /\ feeder' = [FeederIdle EXCEPT !.pc = "none"]
  /\ UNCHANGED <<backend, opens, ring, fraction, preroll, writer, flushRaced>>

----------------------------------------------------------------------------
(* PipeWire's loop thread *)

StreamLives ==
  /\ stream = "connecting" /\ stream' = "live" /\ open' = TRUE
  /\ feeder' = FeederIdle
  /\ UNCHANGED <<backend, opening, opens, ring, fraction, preroll, writer, flushRaced>>
StreamEnds(to) ==
  /\ stream \in {"connecting", "live"} /\ stream' = to
  /\ open' = FALSE
  /\ ring' = [ring EXCEPT !.read = ring.write]
  /\ flushRaced' = (flushRaced \/ feeder.pc \notin {"idle", "none"} \/ writer.pc # "idle")
  /\ UNCHANGED <<backend, opening, opens, fraction, preroll, writer, feeder>>

----------------------------------------------------------------------------
(* AudioDeviceSink::process and write *)

(* The room is an unsigned difference: more than Ring used would wrap. *)
M_Fits(frames) == Used(ring.read, ring.write) > Ring \/ frames <= Ring - Used(ring.read, ring.write) + 1
Fits(frames) == Used(ring.read, ring.write) > Ring \/ frames <= Ring - Used(ring.read, ring.write)

(* A block of the wrong format, or without room, is rejected. *)
ProcessBlock(frames, valid) ==
  /\ opening \in {"open", "closed"} /\ writer.pc = "idle" /\ ring.write + frames <= MaxFrames
  /\ writer' = IF valid /\ open /\ Fits(frames) THEN [pc |-> "copy", frames |-> frames] ELSE writer
  /\ UNCHANGED <<backend, open, stream, opening, opens, ring, fraction, preroll, feeder, flushRaced>>
WriteCopy ==
  /\ writer.pc = "copy" /\ writer' = [writer EXCEPT !.pc = "store"]
  /\ ring' = [ring EXCEPT !.slots = [i \in DOMAIN @ |->
        IF \E k \in 0 .. writer.frames - 1 : (ring.write + k) % Ring = i
        THEN CHOOSE f \in ring.write .. ring.write + writer.frames - 1 : f % Ring = i ELSE @[i]]]
  /\ UNCHANGED <<backend, open, stream, opening, opens, fraction, preroll, feeder, flushRaced>>
WriteStore ==
  /\ writer.pc = "store" /\ writer' = [writer EXCEPT !.pc = "idle"]
  /\ ring' = [ring EXCEPT !.write = @ + writer.frames]
  /\ UNCHANGED <<backend, open, stream, opening, opens, fraction, preroll, feeder, flushRaced>>

----------------------------------------------------------------------------
(* The feeder: one round loads the positions, delivers and stores the cursor. *)

FeederOnly == UNCHANGED <<backend, stream, opening, opens, writer, flushRaced>>
Queued == Used(ring.read, ring.write)
Runs(ready) == preroll' = [running |-> ready, started |-> preroll.started \/ ready]
Round(wanted) ==
  LET n == Deliverable(wanted, Queued, Step(Queued))
  IN feeder' = [pc |-> IF n = 0 THEN "idle" ELSE "deliver", read |-> ring.read, write |-> ring.write,
                frames |-> n, step |-> Step(Queued)]

(* ALSA: nothing is tried before the pre-roll is there, nor with an empty queue. *)
AlsaRound ==
  /\ backend = "alsa" /\ feeder.pc = "idle" /\ opening = "open"
  /\ IF Queued = 0 THEN UNCHANGED <<feeder, preroll>>
     ELSE /\ Runs(ReadyWith(Queued, PeriodFrames))
          /\ IF ReadyWith(Queued, PeriodFrames) THEN Round(Least(Queued, MaxBlock)) ELSE UNCHANGED feeder
  /\ FeederOnly /\ UNCHANGED <<open, ring, fraction>>

Advance(frames) ==
  /\ fraction' = PhaseLeft(frames, feeder.step)
  /\ ring' = [ring EXCEPT !.read = feeder.read + Consumed(frames, feeder.step)]
  /\ feeder' = FeederIdle

(* The device takes some of the frames, none, or fails: an underrun is       *)
(* recovered and the pre-roll repeated, or the worker gives up.              *)
AlsaWrites ==
  /\ backend = "alsa" /\ feeder.pc = "deliver"
  /\ \E taken \in 1 .. feeder.frames : Advance(taken)
  /\ FeederOnly /\ UNCHANGED <<open, preroll>>
AlsaAgain ==
  /\ backend = "alsa" /\ feeder.pc = "deliver" /\ feeder' = FeederIdle
  /\ FeederOnly /\ UNCHANGED <<open, ring, fraction, preroll>>
AlsaRecovers(underrun) ==
  /\ backend = "alsa" /\ feeder.pc = "deliver" /\ feeder' = FeederIdle
  /\ preroll' = IF underrun THEN [preroll EXCEPT !.running = FALSE] ELSE preroll
  /\ FeederOnly /\ UNCHANGED <<open, ring, fraction>>
AlsaFails ==
  /\ backend = "alsa" /\ feeder.pc = "deliver" /\ feeder' = [FeederIdle EXCEPT !.pc = "none"]
  /\ open' = FALSE
  /\ FeederOnly /\ UNCHANGED <<ring, fraction, preroll>>

(* PipeWire: the callback asks for frames; what is missing is silence, and  *)
(* silence repeats the pre-roll.                                            *)
PipeWireRound(wanted) ==
  /\ backend = "pipewire" /\ feeder.pc = "idle"
  /\ LET ready == ReadyWith(Queued, wanted)
         n == IF ready THEN Deliverable(wanted, Queued, Step(Queued)) ELSE 0
     IN /\ preroll' = [running |-> ready /\ n = wanted, started |-> preroll.started \/ ready]
        /\ feeder' = [pc |-> "deliver", read |-> ring.read, write |-> ring.write, frames |-> n,
                      step |-> IF ready THEN Step(Queued) ELSE Phase]
  /\ FeederOnly /\ UNCHANGED <<open, ring, fraction>>
PipeWireStores ==
  /\ backend = "pipewire" /\ feeder.pc = "deliver"
  /\ Advance(feeder.frames)
  /\ FeederOnly /\ UNCHANGED <<open, preroll>>

Feeder == \/ AlsaRound \/ AlsaWrites \/ AlsaAgain \/ AlsaFails \/ \E u \in BOOLEAN : AlsaRecovers(u)
          \/ PipeWireStores \/ \E wanted \in 1 .. MaxBlock : PipeWireRound(wanted)
Module == \/ Open \/ OpenFails \/ OpenWaited \/ OpenTimesOut \/ OpenMarks \/ Close \/ Closed
          \/ WriteCopy \/ WriteStore
Blocks == \E n \in 1 .. MaxBlock, valid \in BOOLEAN : ProcessBlock(n, valid)
Stream == StreamLives \/ \E to \in {"error", "unconnected"} : StreamEnds(to)

OutputNext == Feeder \/ Module \/ Blocks \/ Stream
OutputSpec == OutputInit /\ [][OutputNext]_outputVars
(* The device asks again and again, and a graph that plays delivers whole blocks. *)
OutputFairness == /\ WF_outputVars(Feeder) /\ WF_outputVars(WriteCopy \/ WriteStore)
                  /\ WF_outputVars(ProcessBlock(MaxBlock, TRUE))

----------------------------------------------------------------------------
(* The frames queued, and those a round works on, are in the ring under    *)
(* their own positions until the round has stored its cursor: the module   *)
(* thread never overwrites them, and the cursor never passes the writer,   *)
(* whatever part of a delivery the device takes and at whatever drift.     *)
(* Only a stream change that flushes the ring under a running callback may *)
(* break this: the callback then stores the cursor it loaded before.       *)
WindowIntact ==
  flushRaced \/
  /\ ring.read <= ring.write /\ ring.write - ring.read <= Ring
  /\ \A f \in ring.read .. ring.write - 1 : ring.slots[f % Ring] = f
  /\ feeder.pc = "deliver" =>
       \A f \in feeder.read .. feeder.write - 1 : ring.slots[f % Ring] = f

(* Playback starts: the pre-roll asks for no more than the queue holds when *)
(* it begins to reject blocks.                                              *)
PlaybackStarts == (open /\ opening = "open") ~> (preroll.started \/ ~ open)
=============================================================================
