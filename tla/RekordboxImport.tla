---------------------------- MODULE RekordboxImport ----------------------------
(***************************************************************************)
(* What a deck takes over from a Rekordbox stick when a track is committed *)
(* (backends/media/rekordbox_anlz.cpp): the beats, cues and loops of the   *)
(* ANLZ files, and the files' own errors.                                  *)
(*                                                                         *)
(* A file is [header, sections]: whether the frame of its sections holds,  *)
(* and what they contain.  A section has whether its own header holds and  *)
(* a path ("" when it cannot be decoded), beats [time, tempo, number] or   *)
(* cue entries [time, loop, hot], of which Broken stands for one that does *)
(* not fit.  A file has at most one section of beats.                      *)
(***************************************************************************)
EXTENDS BeatGrid, SequencesExt

CONSTANTS
  CueRoom,      \* cues a track can have (8)
  SegmentRoom,  \* MAX_BEAT_GRID_SEGMENTS
  FrameRate     \* sample_rate_hz of a time in thousandths

ASSUME ImportBounds == {CueRoom, SegmentRoom, FrameRate} \subseteq Nat \ {0}

Broken == [time |-> -1, loop |-> -1, hot |-> FALSE]
NothingParsed == [path |-> "", beats |-> <<>>, cues |-> <<>>, extended |-> FALSE, malformed |-> FALSE]

(* parse_beats: times grow, or there are no beats at all. *)
BeatFollows(beats, i) ==
  /\ beats[i].tempo # 0 /\ beats[i].number # 0
  /\ i > 1 => beats[i].time > beats[i - 1].time
ParseBeats(p, s) ==
  IF s.ok /\ \A i \in DOMAIN s.beats : BeatFollows(s.beats, i) THEN [p EXCEPT !.beats = s.beats]
  ELSE [p EXCEPT !.beats = <<>>, !.malformed = TRUE]

(* add_cue, and the entries before the first that is broken. *)
AddCues(cues, more) == LET all == cues \o more IN SubSeq(all, 1, Min({Len(all), CueRoom}))
Readable(entries) ==
  SubSeq(entries, 1, Min({Len(entries)} \cup {i - 1 : i \in {j \in DOMAIN entries : entries[j] = Broken}}))
WithHot(s) == [i \in DOMAIN Readable(s.cues) |-> [s.cues[i] EXCEPT !.hot = s.hot]]

(* parse_pco2: the first entry of a section replaces what there was. *)
ParsePco2(p, s) ==
  IF ~ s.ok THEN [p EXCEPT !.malformed = TRUE]
  ELSE [p EXCEPT !.cues = IF WithHot(s) = <<>> THEN @ ELSE AddCues(<<>>, WithHot(s)),
                 !.extended = @ \/ WithHot(s) # <<>>,
                 !.malformed = @ \/ Broken \in ToSet(s.cues)]
ParsePcob(p, s) ==
  IF ~ s.ok THEN [p EXCEPT !.malformed = TRUE]
  ELSE [p EXCEPT !.cues = AddCues(@, WithHot(s)), !.malformed = @ \/ Broken \in ToSet(s.cues)]

(* parse_file: nothing of a file without a path. *)
ParseSection(p, s) ==
  CASE s.tag = "PPTH" -> [p EXCEPT !.path = s.path]
    [] s.tag = "PQTZ" -> ParseBeats(p, s)
    [] s.tag = "PCO2" -> ParsePco2(p, s)
    [] s.tag = "PCOB" -> ParsePcob(p, s)
    [] OTHER -> p
ParseFile(file) ==
  IF ~ file.header \/ \E i \in DOMAIN file.sections : file.sections[i].tag = "PPTH" /\ file.sections[i].path = ""
  THEN NothingParsed
  ELSE LET parsed == FoldLeft(ParseSection, NothingParsed, file.sections)
       IN IF parsed.path = "" THEN NothingParsed ELSE parsed

-----------------------------------------------------------------------------
(* set_grid: a segment per change of tempo, each where the one before it   *)
(* leads in the number of beats recorded; a bar is as long as the largest  *)
(* beat number, if that is a plausible one.                                *)
FrameOf(time) == RoundedDiv(time * FrameRate, 1000)
NoGrid == [segments |-> <<>>, meter |-> 0]
Meter(beats) ==
  LET longest == Max({beats[i].number : i \in DOMAIN beats}) IN IF longest <= 12 THEN longest ELSE 4

(* The segment that begins with beat i, after one that began with beat     *)
(* since; exact is its frame times the tempo.                              *)
AddSegment(acc, beats, i, duration) ==
  LET before == Last(acc.segments)
      exact == before.frame * before.tempo + (i - acc.since) * BeatUnits
      frame == RoundedDiv(exact, before.tempo)
  IN IF \/ Len(acc.segments) = SegmentRoom \/ exact >= duration * before.tempo
        \/ frame <= before.frame
     THEN [acc EXCEPT !.ok = FALSE]
     ELSE [acc EXCEPT !.since = i,
             !.segments = Append(@, [frame |-> frame, beat |-> UnitsAt(before, frame), tempo |-> beats[i].tempo])]
SetGrid(beats, duration) ==
  IF beats = <<>> \/ FrameOf(beats[1].time) >= duration THEN NoGrid
  ELSE LET first == [ok |-> TRUE, since |-> 1,
                     segments |-> <<[frame |-> FrameOf(beats[1].time), beat |-> 0, tempo |-> beats[1].tempo]>>]
           all == FoldLeft(LAMBDA acc, i : IF acc.ok /\ beats[i].tempo # beats[i - 1].tempo
                                           THEN AddSegment(acc, beats, i, duration) ELSE acc,
                           first, [k \in 1 .. Len(beats) - 1 |-> k + 1])
       IN IF all.ok THEN [segments |-> all.segments, meter |-> Meter(beats)] ELSE NoGrid

(* The cues inside the track; the first usable loop and the first cue that *)
(* is not a loop left out become the track's markers.                      *)
NoMarkers == [loop |-> <<>>, cue |-> <<>>]
IsLoop(c) == c.loop > c.time
MarkCue(markers, c, duration) ==
  LET frame == FrameOf(c.time)
      end == FrameOf(c.loop)
      cue == IF markers.cue = <<>> THEN <<frame>> ELSE markers.cue
  IN IF ~ IsLoop(c) \/ markers.loop # <<>> THEN [markers EXCEPT !.cue = cue]
     ELSE IF end >= duration \/ end <= frame THEN markers
     ELSE [loop |-> <<frame, end>>, cue |-> cue]
Metadata(p, duration) ==
  LET inside == SelectSeq(p.cues, LAMBDA c : FrameOf(c.time) < duration)
  IN [grid |-> SetGrid(p.beats, duration),
      cues |-> [i \in DOMAIN inside |-> [frame |-> FrameOf(inside[i].time), loop |-> IsLoop(inside[i]), hot |-> inside[i].hot]],
      markers |-> FoldLeft(LAMBDA m, c : MarkCue(m, c, duration), NoMarkers, inside)]

-----------------------------------------------------------------------------
(* import_rekordbox_anlz: the first .DAT that names the track decides; its *)
(* .EXT has its cues taken instead, if it has extended ones.  A directory  *)
(* entry is "file" with the file and its sibling, "unreadable", or "large".*)
WithExtension(p, ext, wanted) ==
  LET e == IF ext.is = "file" THEN ParseFile(ext.file) ELSE NothingParsed
  IN IF e.path # wanted THEN p
     ELSE [p EXCEPT !.cues = IF e.extended THEN e.cues ELSE @, !.malformed = @ \/ e.malformed]
Outcome(error, metadata) == [error |-> error, metadata |-> metadata]
NoMetadata == [grid |-> NoGrid, cues |-> <<>>, markers |-> NoMarkers]
Imported(p, duration) ==
  LET m == Metadata(p, duration)
  IN Outcome(IF m.grid # NoGrid \/ m.cues # <<>> THEN "none"
             ELSE IF p.malformed THEN "malformed" ELSE "not_found", m)

Visit(acc, entry, wanted, duration) ==
  IF acc.done THEN acc
  ELSE IF entry.is = "large" THEN [acc EXCEPT !.done = TRUE, !.result = Outcome("limit", NoMetadata)]
  ELSE IF entry.is = "unreadable" THEN [acc EXCEPT !.io = TRUE]
  ELSE LET p == ParseFile(entry.file)
       IN IF p = NothingParsed THEN [acc EXCEPT !.malformed = TRUE]
          ELSE IF p.path # wanted THEN acc
          ELSE [acc EXCEPT !.done = TRUE,
                  !.result = IF entry.ext.is = "large" THEN Outcome("limit", NoMetadata)
                             ELSE Imported(WithExtension(p, entry.ext, wanted), duration)]
Import(disk, wanted, duration) ==
  LET walk == FoldLeft(LAMBDA acc, entry : Visit(acc, entry, wanted, duration),
                       [done |-> FALSE, io |-> FALSE, malformed |-> FALSE,
                        result |-> Outcome("none", NoMetadata)], disk)
  IN IF wanted = "" \/ duration = 0 THEN Outcome("invalid", NoMetadata)
     ELSE IF walk.done THEN walk.result
     ELSE Outcome(IF walk.malformed THEN "malformed" ELSE IF walk.io THEN "io" ELSE "not_found", NoMetadata)

-----------------------------------------------------------------------------
(* What is taken over fits the track: a grid is one the mapper accepts, on *)
(* which the beats recorded keep their numbers up to the rounding of each  *)
(* segment's first frame; cues and markers lie inside the track, a loop    *)
(* has frames.                                                             *)
KeepsBeatNumbers(grid, beats) ==
  \A k \in DOMAIN grid.segments :
    \E i \in DOMAIN beats :
      /\ grid.segments[k].tempo = beats[i].tempo
      /\ LET off == grid.segments[k].beat - (i - 1) * BeatUnits
         IN 2 * (IF off < 0 THEN - off ELSE off)
              <= FoldLeft(LAMBDA sum, j : sum + grid.segments[j].tempo, 0, [j \in 1 .. k - 1 |-> j])
MarkersInside(m, duration) ==
  /\ Len(m.cues) <= CueRoom /\ \A i \in DOMAIN m.cues : m.cues[i].frame < duration
  /\ m.markers.loop # <<>> =>
       LET loop == m.markers.loop IN loop[1] < loop[2] /\ loop[2] < duration
  /\ m.markers.cue # <<>> => m.markers.cue[1] \in {m.cues[i].frame : i \in DOMAIN m.cues}

BoundedBeats ==
  {[i \in 1 .. n |-> [time |-> start + i, tempo |-> tempos[i], number |-> numbers[i]]] :
     n \in 1 .. 4, start \in {-1, 1}, tempos \in [1 .. 4 -> {2, 3, 7}], numbers \in {<<1, 2, 3, 4>>, <<13, 1, 2, 3>>}}
ASSUME GridsTakenOverFit ==
  \A beats \in BoundedBeats, duration \in {4, 14, 30} :
    LET grid == SetGrid(ParseBeats(NothingParsed, [ok |-> TRUE, beats |-> beats]).beats, duration)
    IN grid # NoGrid =>
         /\ ValidGrid(grid) /\ KeepsBeatNumbers(grid, beats) /\ MapsBack(grid, 0 .. duration)
         /\ \A k \in DOMAIN grid.segments : grid.segments[k].frame <= duration

Entries == {Broken} \cup [time : {0, 2, 5}, loop : {0, 2, 3, 6}, hot : {FALSE}]
CueSections == [tag : {"PCO2", "PCOB"}, ok : BOOLEAN, hot : {TRUE}, cues : UNION {[1 .. n -> Entries] : n \in 0 .. 2}]
ASSUME MarkersTakenOverFit ==
  \A a, b \in CueSections :
    MarkersInside(Metadata(ParseSection(ParseSection(NothingParsed, a), b), 8), 8)

(* Files of other tracks, and what cannot be read, do not change what is   *)
(* taken over from the files of the track.                                 *)
TestFile(path, cues) ==
  [header |-> TRUE, sections |-> <<[tag |-> "PPTH", path |-> path], [tag |-> "PCO2", ok |-> TRUE, hot |-> TRUE, cues |-> cues]>>]
TestCue(time) == [time |-> time, loop |-> 0, hot |-> FALSE]
TestExtensions == {[is |-> "none"], [is |-> "large"], [is |-> "file", file |-> TestFile("a", <<TestCue(1)>>)],
                   [is |-> "file", file |-> TestFile("b", <<TestCue(2)>>)]}
TestEntries == {[is |-> "unreadable"], [is |-> "large"]} \cup
  {[is |-> "file", file |-> TestFile(path, cues), ext |-> ext] :
     path \in {"a", "b", ""}, cues \in {<<>>, <<Broken>>, <<TestCue(0)>>}, ext \in TestExtensions}
Decides(entry) == entry.is = "large" \/ (entry.is = "file" /\ ParseFile(entry.file).path = "a")
ASSUME OthersDoNotMatter ==
  \A disk \in UNION {[1 .. n -> TestEntries] : n \in 1 .. 2} :
    LET deciding == SelectSeq(disk, Decides)
    IN deciding # <<>> => Import(disk, "a", 8) = Import(<<deciding[1]>>, "a", 8)
=============================================================================
