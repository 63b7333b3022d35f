----------------------------- MODULE MediaReaders -----------------------------
(***************************************************************************)
(* The decoders behind DecodeAhead: DecoderDispatcher probes the readers   *)
(* in order; WavReader, FlacReader, Mp3Reader and FfmpegAudioReader (AAC,  *)
(* Opus) open, seek and read.  A sample is the number of its media frame,  *)
(* so that what a block holds can be compared with where it says it is.    *)
(* The codec libraries and the file are external: they may fail anywhere,  *)
(* and a failed read may have taken part of its bytes.                     *)
(***************************************************************************)
EXTENDS Integers, Sequences, SequencesExt, FiniteSetsExt

CONSTANTS
  Media,        \* files: [codec, length, declared] in frames
  Packet,       \* frames the FLAC and FFmpeg libraries decode at a time
  ChunkFrames,  \* frames DecodeAhead asks for
  MaxMediaOps   \* bound: opens and seeks

Codecs == {"wav", "flac", "aac", "mp3"}
ASSUME MediaAssumption ==
  /\ Packet \in Nat \ {0} /\ ChunkFrames \in Nat \ {0}
  /\ \A m \in Media : m.codec \in Codecs /\ {m.length, m.declared} \subseteq Nat \ {0}
                      /\ (m.codec \in {"wav", "mp3"} => m.declared = m.length)

VARIABLES
  media,      \* the file
  reader,     \* the selected reader: position, library, pending samples
  ahead,      \* DecodeAhead::state_
  mediaOps,
  heard,      \* the last block DecodeAhead published
  strayed     \* history: see FramesAsLabelled

mediaVars == <<media, reader, ahead, mediaOps, heard, strayed>>

ClosedReader == [codec |-> "none", current |-> 0, at |-> 0, pending |-> <<>>, mark |-> FALSE,
           target |-> 0, eof |-> FALSE]
Nothing == [first |-> 0, frames |-> <<>>, marked |-> FALSE, after |-> FALSE]
BrokenSample == -1

MediaInit == /\ media \in Media /\ reader = ClosedReader /\ ahead = "Closed"
             /\ mediaOps = 0 /\ heard = Nothing /\ strayed = FALSE

(* WavReader::at is in bytes of a one-channel file, every other library's  *)
(* in frames.                                                              *)
BytesPerFrame == 2
WavSample(byte) == IF byte % BytesPerFrame = 0 THEN byte \div BytesPerFrame ELSE BrokenSample
From(first, count) == [i \in 1 .. count |-> first + i - 1]
PacketStart(frame) == Packet * (frame \div Packet)
PacketsOver(start, count) == PacketStart(start + count + Packet - 1)

-----------------------------------------------------------------------------
(* parse_header: the chunks up to the end the RIFF size declares; f.chunks *)
(* is what stands in the file, [kind, size] each, "fmt" a format the       *)
(* program plays and "other" a chunk it skips.                             *)
WavHeader(f) ==
  LET end == f.riff + 8
      ScanChunk(h, c) ==
        IF ~ h.ok \/ h.at + 8 > end THEN h
        ELSE LET payload == h.at + 8
                 next == payload + c.size + (c.size % 2)
             IN IF next > end \/ c.kind = "badfmt" THEN [h EXCEPT !.ok = FALSE]
                ELSE [h EXCEPT !.at = next, !.fmt = @ \/ c.kind = "fmt",
                        !.data = IF c.kind = "data" /\ @ = <<>> THEN <<payload, c.size>> ELSE @]
      start == [ok |-> end \in 12 .. f.size, at |-> 12, fmt |-> FALSE, data |-> <<>>]
      header == FoldLeft(ScanChunk, start, f.chunks)
  IN IF header.ok /\ header.fmt /\ header.data # <<>> /\ header.data[2] % BytesPerFrame = 0
     THEN header.data ELSE <<>>

(* What open accepts can be read: the data chunk lies inside the file and  *)
(* holds whole frames, wherever the file is cut off, whatever chunks and   *)
(* whatever RIFF size it has.  Nothing is accepted without a format.       *)
WavChunks == {[kind |-> k, size |-> n] : k \in {"data", "other"}, n \in {3, 4, 8}}
               \cup {[kind |-> "fmt", size |-> 16], [kind |-> "badfmt", size |-> 16]}
WholeSize(chunks) == FoldLeft(LAMBDA n, c : n + 8 + c.size + (c.size % 2), 12, chunks)
ASSUME WavHeaderSound ==
  \A chunks \in UNION {[1 .. n -> WavChunks] : n \in 0 .. 3} :
    \A size \in {WholeSize(chunks) - cut : cut \in {0, 1, 4, 8, 20}}, lie \in {-16, -4, 0, 4} :
      LET f == [chunks |-> chunks, size |-> size, riff |-> size - 8 + lie]
          data == WavHeader(f)
      IN /\ data # <<>> => /\ data[1] + data[2] <= size /\ data[2] % BytesPerFrame = 0
                           /\ \E c \in ToSet(chunks) : c.kind = "fmt"
         /\ lie > 0 => data = <<>>

(* open of each reader: WavReader stands on the first byte of the data,    *)
(* libmpg123 has scanned the file and is sought back to its first frame,   *)
(* libFLAC and FFmpeg have read the metadata and no packet.                *)
OpenedWav == [ClosedReader EXCEPT !.codec = "wav"]
OpenedMp3 == [ClosedReader EXCEPT !.codec = "mp3"]
OpenedFlac == [ClosedReader EXCEPT !.codec = "flac"]
OpenedFfmpeg == [ClosedReader EXCEPT !.codec = "aac"]

(* try_open leaves the reader that accepts the file, and none when the     *)
(* file is of another kind, damaged or cannot be read.                     *)
OpenMedia ==
  /\ mediaOps < MaxMediaOps /\ mediaOps' = mediaOps + 1
  /\ \/ /\ ahead' = "Ready"
        /\ reader' \in {r \in {OpenedWav, OpenedMp3, OpenedFlac, OpenedFfmpeg} : r.codec = media.codec}
     \/ ahead' = "Error" /\ reader' = ClosedReader
  /\ heard' = Nothing /\ strayed' = FALSE /\ UNCHANGED media
CloseMedia ==
  /\ ahead # "Closed" /\ ahead' = "Closed" /\ reader' = ClosedReader /\ heard' = Nothing
  /\ UNCHANGED <<media, mediaOps, strayed>>

(* seek_frame: how each reader leaves itself at the frame ... *)
SoughtWav(f) == [reader EXCEPT !.at = BytesPerFrame * f]
SoughtMp3(f) == [reader EXCEPT !.at = f]
(* ... libFLAC hands the rest of the frame's packet to the write callback, *)
(* the end of the file is not sought at all ...                            *)
PacketFrom(f) == From(f, Min({media.length, PacketStart(f) + Packet}) - f)
SoughtFlac(f) ==
  IF f = media.declared THEN [reader EXCEPT !.pending = <<>>]
  ELSE [reader EXCEPT !.pending = PacketFrom(f), !.at = f + Len(PacketFrom(f))]
(* ... and FFmpeg lands on a packet, the frames before the target are      *)
(* discarded while reading.                                                *)
(* Mutant: the samples decoded before the seek stay pending. *)
M_SoughtFfmpeg(f, landed) ==
  [reader EXCEPT !.at = landed, !.target = f, !.eof = f = media.declared]
SoughtFfmpeg(f, landed) ==
  [reader EXCEPT !.pending = <<>>, !.at = landed, !.target = f, !.eof = f = media.declared]

(* AVSEEK_FLAG_BACKWARD; a stream without an earlier entry lands later. *)
Landings(f) == {p \in 0 .. media.length : p % Packet = 0}
Sought(f) ==
  CASE media.codec = "wav" -> {SoughtWav(f)}
    [] media.codec = "mp3" -> {SoughtMp3(f)}
    [] media.codec = "flac" -> IF f = media.declared \/ f < media.length THEN {SoughtFlac(f)} ELSE {}
    [] media.codec = "aac" -> {SoughtFfmpeg(f, p) : p \in Landings(f)}

SeekMedia(f) ==
  /\ mediaOps < MaxMediaOps /\ reader.codec # "none" /\ f <= media.declared
  /\ mediaOps' = mediaOps + 1
  /\ \E r \in Sought(f) :
       /\ reader' = [r EXCEPT !.current = f, !.mark = TRUE]
       /\ strayed' = (media.codec = "aac" /\ f < media.declared /\ r.at > f)
  /\ ahead' = IF f = media.declared THEN "EndOfStream" ELSE "Ready"
  /\ heard' = [Nothing EXCEPT !.after = TRUE] /\ UNCHANGED media

(* A refused seek leaves DecodeAhead as it was.  FlacReader has dropped    *)
(* its pending frame, libmpg123 may have moved to another frame, FFmpeg    *)
(* has moved when the resampler cannot be restarted.                       *)
SeekRefused ==
  /\ mediaOps < MaxMediaOps /\ reader.codec # "none" /\ mediaOps' = mediaOps + 1
  /\ \/ reader' = reader /\ strayed' = strayed
     \/ /\ media.codec = "flac" /\ reader' = [reader EXCEPT !.pending = <<>>] /\ strayed' = TRUE
     \/ /\ media.codec \in {"mp3", "aac"}
        /\ \E p \in Landings(0) : reader' = [reader EXCEPT !.at = p]
        /\ strayed' = TRUE
  /\ UNCHANGED <<media, ahead, heard>>

-----------------------------------------------------------------------------
(* read: [frames, reader] when it succeeds *)
Taken(r, frames) == [r EXCEPT !.current = @ + Len(frames)]
ReadWav(n) ==
  LET count == Min({n, media.declared - reader.current})
      frames == [i \in 1 .. count |-> WavSample(reader.at + BytesPerFrame * (i - 1))]
  IN [frames |-> frames,
      reader |-> [Taken(reader, frames) EXCEPT !.at = @ + BytesPerFrame * count]]
ReadMp3(n) ==
  LET count == Min({n, media.declared - reader.current, media.length - reader.at})
      frames == From(reader.at, count)
      done == reader.at + count = media.length
  IN [frames |-> frames,
      reader |-> [Taken(reader, frames) EXCEPT !.at = @ + count,
                    !.current = IF done THEN media.declared ELSE @]]

(* The loop of FlacReader and FfmpegAudioReader: what is pending, then as  *)
(* many packets as fill the block; the frames left over are pending.       *)
Decoded(want, start) ==
  LET short == want - Len(reader.pending)
      end == IF short <= 0 THEN reader.at ELSE Min({media.length, PacketsOver(start, short)})
      all == reader.pending \o From(start, Max({0, end - start}))
      count == Min({want, Len(all)})
  IN [frames |-> SubSeq(all, 1, count),
      reader |-> [Taken(reader, SubSeq(all, 1, count)) EXCEPT
                    !.pending = SubSeq(all, count + 1, Len(all)), !.at = end,
                    !.eof = short > 0 /\ count < want]]
ReadFlac(n) == Decoded(Min({n, media.declared - reader.current}), reader.at)
(* convert_frame: a first packet after the target moves the position. *)
ReadFfmpeg(n) ==
  LET out == Decoded(n, Max({reader.at, reader.target}))
      late == reader.mark /\ reader.pending = <<>> /\ reader.at > reader.target
  IN IF late THEN [out EXCEPT !.reader.current = reader.at + Len(out.frames)] ELSE out
ReadFrom(n) ==
  CASE media.codec = "wav" -> ReadWav(n) [] media.codec = "mp3" -> ReadMp3(n)
    [] media.codec = "flac" -> ReadFlac(n) [] media.codec = "aac" -> ReadFfmpeg(n)

AtEnd(r) == IF media.codec = "aac" THEN r.eof /\ r.pending = <<>> ELSE r.current >= media.declared
Final(r) == AtEnd(r) \/ r.current >= media.declared

(* refill asks the reader where it is and then reads one chunk. *)
RefillChunk ==
  /\ ahead = "Ready"
  /\ LET out == ReadFrom(ChunkFrames)
     IN IF AtEnd(reader) \/ out.frames = <<>>
        THEN /\ ahead' = "EndOfStream" /\ heard' = heard
             /\ reader' = IF AtEnd(reader) THEN reader ELSE out.reader
        ELSE /\ reader' = [out.reader EXCEPT !.mark = FALSE]
             /\ heard' = [first |-> reader.current, frames |-> out.frames,
                          marked |-> reader.mark, after |-> heard.frames = <<>> /\ heard.after]
             /\ ahead' = IF Final(out.reader) THEN "EndOfStream" ELSE "Ready"
  /\ UNCHANGED <<media, mediaOps, strayed>>

(* A failed read: the file or the library has moved; FlacReader and        *)
(* FfmpegAudioReader have also counted the frames of the block they clear, *)
(* and spent the mark.                                                     *)
ReadFails ==
  /\ ahead = "Ready" /\ ahead' = "Error"
  /\ \E moved \in 0 .. BytesPerFrame * ChunkFrames - 1 :
       IF media.codec \in {"wav", "mp3"}
       THEN reader' = [reader EXCEPT !.at = Min({@ + moved, BytesPerFrame * media.length})]
       ELSE /\ moved < ChunkFrames
            /\ reader' = [reader EXCEPT !.pending = <<>>, !.mark = FALSE, !.current = @ + moved]
  /\ UNCHANGED <<media, mediaOps, heard, strayed>>

MediaNext == \/ OpenMedia \/ CloseMedia \/ (\E f \in 0 .. media.declared : SeekMedia(f)) \/ SeekRefused
             \/ RefillChunk \/ ReadFails
MediaSpec == MediaInit /\ [][MediaNext]_mediaVars

(* A chunk holds the media frames from the position refill published it    *)
(* at, whatever reads, failures and seeks came before, and the first one   *)
(* after a seek is marked discontinuous ("discards preroll before the      *)
(* requested media frame, and marks the first returned block               *)
(* discontinuous").  Said of readers that have not strayed: a refused      *)
(* seek may leave the library elsewhere while DecodeAhead goes on reading, *)
(* and a stream that can only be entered after the target is labelled with *)
(* the target.                                                             *)
FramesAsLabelled ==
  ~ strayed => /\ \A i \in DOMAIN heard.frames : heard.frames[i] = heard.first + i - 1
               /\ heard.after /\ heard.frames # <<>> => heard.marked
=============================================================================
