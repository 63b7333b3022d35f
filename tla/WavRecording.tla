------------------------------ MODULE WavRecording ------------------------------
(***************************************************************************)
(* Recording to a WAV file: the sink module (modules/wav_sink.hpp) and its *)
(* writer (backends/audio/wav_writer.hpp).  The header is written with     *)
(* sizes of zero and patched when the file is closed.                      *)
(*                                                                         *)
(* A file is its two header sizes and a body; a byte of the body is the    *)
(* number of the block it belongs to.  Sample conversion is left out.  The *)
(* disk may take part of a write and refuse the rest, and may refuse the   *)
(* patches of the header.                                                  *)
(***************************************************************************)
EXTENDS Integers, Sequences, SequencesExt

CONSTANTS
  WordSize,       \* 2^32: what a size field counts modulo
  HeaderRest,     \* 36: bytes of the header after its RIFF size
  LargestBlock,   \* bytes of encoded_block_
  MaxBlocks       \* bound: blocks a recording is offered

ASSUME RecordingBounds ==
  /\ {WordSize, LargestBlock, MaxBlocks} \subseteq Nat \ {0}
  /\ HeaderRest \in 0 .. WordSize - 1

VARIABLES
  recorder,     \* is_open and data_bytes_
  recorded,   \* the file: riff, data, body
  kept,       \* history: the blocks write accepted, as <<number, bytes>>
  offered,    \* blocks process got in this recording
  spoilt      \* history: the disk refused the rest of a write or a patch, or
              \* the process died with the file open

recordingVars == <<recorder, recorded, kept, offered, spoilt>>

ClosedWriter == [open |-> FALSE, bytes |-> 0]
NewFile == [riff |-> HeaderRest, data |-> 0, body |-> <<>>]

RecordingInit ==
  recorder = ClosedWriter /\ recorded = NewFile /\ kept = <<>> /\ offered = 0 /\ spoilt = FALSE

(* on_enable and open: the file is truncated and its header written.  When *)
(* that fails nothing is recorded.                                         *)
EnableRecording ==
  /\ ~ recorder.open /\ recorder' = [open |-> TRUE, bytes |-> 0]
  /\ recorded' = NewFile /\ kept' = <<>> /\ offered' = 0 /\ spoilt' = FALSE

(* process and write: a block of another shape, one that does not fit the  *)
(* encoding buffer, and one that would overflow the count are rejected.    *)
M_Fits32(bytes) == bytes <= LargestBlock
Fits32(bytes) == bytes <= LargestBlock /\ recorder.bytes + bytes <= WordSize - 1
RecordBlock(bytes, wellFormed) ==
  /\ offered < MaxBlocks /\ offered' = offered + 1
  /\ IF ~ recorder.open \/ ~ wellFormed \/ ~ Fits32(bytes)
     THEN UNCHANGED <<recorder, recorded, kept, spoilt>>
     ELSE \E reached \in 0 .. bytes :
            /\ recorded' = [recorded EXCEPT !.body = @ \o [i \in 1 .. reached |-> offered']]
            /\ IF reached < bytes
               THEN spoilt' = TRUE /\ UNCHANGED <<recorder, kept>>
               ELSE /\ recorder' = [recorder EXCEPT !.bytes = (@ + bytes) % WordSize]
                    /\ kept' = Append(kept, <<offered', bytes>>) /\ UNCHANGED spoilt

(* on_disable and close: both sizes are patched, a patch that fails is not *)
(* noticed.                                                                *)
RiffSize == (HeaderRest + recorder.bytes) % WordSize
DisableRecording ==
  /\ recorder.open /\ recorder' = ClosedWriter
  /\ \E riff \in {RiffSize, recorded.riff}, data \in {recorder.bytes, recorded.data} :
       /\ recorded' = [recorded EXCEPT !.riff = riff, !.data = data]
       /\ spoilt' = (spoilt \/ riff # RiffSize \/ data # recorder.bytes)
  /\ UNCHANGED <<kept, offered>>

(* A process that ends without closing leaves the sizes of the start. *)
RecordingDies ==
  /\ recorder.open /\ recorder' = ClosedWriter /\ spoilt' = TRUE /\ UNCHANGED <<recorded, kept, offered>>

RecordingNext ==
  \/ EnableRecording \/ DisableRecording \/ RecordingDies
  \/ \E bytes \in 1 .. LargestBlock + 1, wellFormed \in BOOLEAN : RecordBlock(bytes, wellFormed)
RecordingSpec == RecordingInit /\ [][RecordingNext]_recordingVars

(* What a reader finds: the data chunk has as many bytes as its size says, *)
(* they are these blocks, whole and in order, and the RIFF chunk has all   *)
(* of it where its size can say so.                                        *)
Body(blocks) == FoldLeft(LAMBDA body, b : body \o [i \in 1 .. b[2] |-> b[1]], <<>>, blocks)
Playable(f, blocks) ==
  /\ f.data <= Len(f.body) /\ SubSeq(f.body, 1, f.data) = Body(blocks)
  /\ HeaderRest + f.data < WordSize => f.riff = HeaderRest + f.data

(* A recording that was closed, and that the disk did not spoil, plays     *)
(* back as the blocks the sink counted as written, also when rejected      *)
(* blocks came in between and when the count reaches its limit.            *)
RecordingPlaysBack == ~ spoilt /\ ~ recorder.open => Playable(recorded, kept)
=============================================================================
