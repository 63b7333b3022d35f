------------------------------ MODULE SeekGesture ------------------------------
(***************************************************************************)
(* Seeking with a finger on a waveform of the deck, from the press to the  *)
(* command the deck's worker sends: the gesture of LvglDeckView, the       *)
(* display loop that applies the worker's views to it, the seek queue and  *)
(* the check DeckLoadWorker makes before it sends.                         *)
(*                                                                         *)
(* Threads: the display, the worker, the player.  The player changes under *)
(* the finger: another track, another generation (a seek of someone else), *)
(* play and pause.  What becomes of a seek once sent is DeckLoad.          *)
(*                                                                         *)
(* Each waveform takes one finger at a time.  Track and generation only    *)
(* grow while the player runs; a player restarted within a second is that  *)
(* of the run DeckStaleName.                                               *)
(***************************************************************************)
EXTENDS Integers, Sequences

CONSTANTS
  TrackFrames,    \* duration_frames of each track; also bounds the tracks
  Pixels,         \* a waveform has the columns 0 .. Pixels
  DragPixels,     \* the distance that makes a press a drag
  Spans,          \* frames the detail waveform shows, by zoom
  MaxGestures,    \* bound: presses of a waveform
  MaxElsewhere    \* bound: changes of the player

ASSUME SeekBounds ==
  /\ TrackFrames \in Seq(Nat \ {0}) /\ TrackFrames # <<>>
  /\ {Pixels, DragPixels, MaxGestures, MaxElsewhere} \cup Spans \subseteq Nat \ {0}

VARIABLES
  seekFingers,   \* the waveforms a finger is down on
  screen,        \* LvglDeckView: view, gesture, expected, cue, span; and the loop's view
  sender,        \* DeckLoadWorker: current status, online, occupied, slot
  shelf,         \* views_: a view on its way to the display
  deckPlayer,    \* the player's status
  sentSeek,      \* history: the seek command sent last, with its gesture's aim
  waveGestures,
  seekElsewhere

seekVars == <<seekFingers, screen, sender, shelf, deckPlayer, sentSeek, waveGestures, seekElsewhere>>

NoTouch == [on |-> FALSE]
NoStatus == [track |-> 0, gen |-> 0, at |-> 0, mode |-> "paused"]
Unseen == [status |-> NoStatus, online |-> FALSE, pending |-> FALSE]

SeekInit ==
  /\ seekFingers = {} /\ shelf = <<>> /\ sentSeek = <<>> /\ waveGestures = 0 /\ seekElsewhere = 0
  /\ screen = [view |-> Unseen, loop |-> Unseen, gesture |-> NoTouch, expected |-> "none",
               cue |-> FALSE, span |-> CHOOSE s \in Spans : TRUE]
  /\ sender = [current |-> NoStatus, online |-> FALSE, occupied |-> FALSE, slot |-> <<>>]
  /\ deckPlayer = [NoStatus EXCEPT !.track = 1, !.gen = 1]

-----------------------------------------------------------------------------
SeekAvailable(d) ==
  /\ d.view.online /\ ~ d.view.pending
  /\ d.view.status.track # 0 /\ d.view.status.gen # 0 /\ d.view.status.mode = "paused"
  /\ d.expected # "playing" /\ ~ d.cue
Dropped(d) == [d EXCEPT !.gesture = NoTouch]

(* apply: another track or generation ends the gesture, and so does a view *)
(* that leaves no seek available.  A CUE press is resolved, a transport    *)
(* click is confirmed or given up after two seconds (late).                *)
SameMedia(v, w) == v.status.track = w.status.track /\ v.status.gen = w.status.gen
(* Mutant: the gesture survives the change of what it points at.           *)
M_ApplyShown(d, v, resolved, late) ==
  LET shown == [d EXCEPT !.view = v, !.cue = @ /\ ~ resolved]
      answered == v.online /\ d.expected = v.status.mode
  IN [shown EXCEPT !.gesture = IF SeekAvailable(shown) THEN @ ELSE NoTouch,
                   !.expected = IF answered \/ late THEN "none" ELSE @]
ApplyShown(d, v, resolved, late) ==
  LET shown == [d EXCEPT !.view = v, !.cue = @ /\ ~ resolved]
      answered == v.online /\ d.expected = v.status.mode
  IN [shown EXCEPT !.gesture = IF SameMedia(d.view, v) /\ SeekAvailable(shown) THEN @ ELSE NoTouch,
                   !.expected = IF answered \/ late THEN "none" ELSE @]

(* ui_loop: the newest view there is, applied again when there is no newer.*)
ApplyView ==
  /\ LET v == IF shelf = <<>> THEN screen.loop ELSE Head(shelf)
     IN \E resolved, late \in BOOLEAN :
          screen' = [ApplyShown(screen, v, resolved, late) EXCEPT !.loop = v]
  /\ shelf' = <<>> /\ UNCHANGED <<seekFingers, sender, deckPlayer, sentSeek, waveGestures, seekElsewhere>>

-----------------------------------------------------------------------------
(* waveform_pointer.  A frame is kept as frame * Pixels until it is        *)
(* rounded: the overview seeks to the column, the detail and the outline   *)
(* of it in the overview move the frame the press found.                   *)
Frames(d) == TrackFrames[d.view.status.track]
Rounded(scaled, last) ==
  IF scaled <= 0 THEN 0 ELSE IF scaled >= last * Pixels THEN last ELSE (2 * scaled + Pixels) \div (2 * Pixels)
Distance(a, b) == IF a < b THEN b - a ELSE a - b

(* detail_viewport: around the preview, if there is one. *)
Outlined(d, x) ==
  LET centre == IF d.gesture.on THEN d.gesture.frame ELSE d.view.status.at
  IN Distance(2 * x * Frames(d), 2 * centre * Pixels) <= d.span * Pixels
Pressed(d, surface, x) ==
  [on |-> TRUE, surface |-> surface, x |-> x, from |-> d.view.status.at, span |-> d.span,
   dragged |-> FALSE, outline |-> surface = "overview" /\ Outlined(d, x), frame |-> 0,
   track |-> 0, gen |-> 0, aim |-> <<d.view.status.track, d.view.status.gen>>]
Moved(d, g, x) ==
  LET by == x - g.x
      dragged == g.dragged \/ Distance(x, g.x) >= DragPixels
      scaled == IF g.surface = "detail" THEN g.from * Pixels - by * g.span
                ELSE IF g.outline /\ dragged THEN g.from * Pixels + by * Frames(d)
                ELSE x * Frames(d)
  IN [g EXCEPT !.dragged = dragged, !.frame = Rounded(scaled, Frames(d) - 1),
               !.track = d.view.status.track, !.gen = d.view.status.gen]
HasGesture(surface) == screen.gesture.on /\ screen.gesture.surface = surface

PressWave(surface, x) ==
  /\ surface \notin seekFingers /\ seekFingers' = seekFingers \cup {surface}
  /\ waveGestures < MaxGestures /\ waveGestures' = waveGestures + 1
  /\ screen' = IF SeekAvailable(screen)
               THEN [screen EXCEPT !.gesture = Moved(screen, Pressed(screen, surface, x), x)]
               ELSE Dropped(screen)
  /\ UNCHANGED <<sender, shelf, deckPlayer, sentSeek, seekElsewhere>>

DragWave(surface, x) ==
  /\ surface \in seekFingers
  /\ screen' = IF ~ SeekAvailable(screen) THEN Dropped(screen)
               ELSE IF HasGesture(surface) THEN [screen EXCEPT !.gesture = Moved(screen, @, x)]
               ELSE screen
  /\ UNCHANGED <<seekFingers, sender, shelf, deckPlayer, sentSeek, waveGestures, seekElsewhere>>

(* The finger slides off the waveform, or is taken from it (PRESS_LOST). *)
SlideOff(surface) ==
  /\ surface \in seekFingers /\ screen' = Dropped(screen)
  /\ seekFingers' \in {seekFingers, seekFingers \ {surface}}
  /\ UNCHANGED <<sender, shelf, deckPlayer, sentSeek, waveGestures, seekElsewhere>>

(* A release commits on the overview, and on the detail after a drag;      *)
(* submit_seek takes it unless an operation occupies the worker.           *)
SeekRequest(g) == [track |-> g.track, gen |-> g.gen, frame |-> g.frame, aim |-> g.aim]
ReleaseWave(surface, x) ==
  /\ surface \in seekFingers /\ seekFingers' = seekFingers \ {surface}
  /\ LET g == Moved(screen, screen.gesture, x)
         idle == Dropped(screen)
         commits == g.surface = "overview" \/ g.dragged
         taken == commits /\ ~ sender.occupied
     IN IF SeekAvailable(screen) /\ ~ HasGesture(surface) THEN UNCHANGED <<screen, sender>>
        ELSE IF ~ SeekAvailable(screen) \/ ~ taken THEN screen' = idle /\ UNCHANGED sender
        ELSE /\ sender' = [sender EXCEPT !.occupied = TRUE, !.slot = <<SeekRequest(g)>>]
             /\ \E resolved, late \in BOOLEAN :
                  screen' = ApplyShown(idle, [idle.view EXCEPT !.pending = TRUE], resolved, late)
  /\ UNCHANGED <<shelf, deckPlayer, sentSeek, waveGestures, seekElsewhere>>

-----------------------------------------------------------------------------
(* clicked: zoom, transport and the browser end the gesture; a selection   *)
(* from the browser occupies the worker.                                   *)
ClickZoom ==
  /\ \E s \in Spans \ {screen.span} : screen' = [Dropped(screen) EXCEPT !.span = s]
  /\ UNCHANGED <<seekFingers, sender, shelf, deckPlayer, sentSeek, waveGestures, seekElsewhere>>
ClickPlay ==
  /\ screen.view.online /\ ~ screen.view.pending /\ screen.view.status.track # 0 /\ ~ screen.cue
  /\ \E taken \in BOOLEAN :
       LET playing == IF screen.expected = "none" THEN screen.view.status.mode = "playing"
                      ELSE screen.expected = "playing"
       IN screen' = [Dropped(screen) EXCEPT
                       !.expected = IF ~ taken THEN @ ELSE IF playing THEN "paused" ELSE "playing"]
  /\ UNCHANGED <<seekFingers, sender, shelf, deckPlayer, sentSeek, waveGestures, seekElsewhere>>
ClickBrowse ==
  /\ screen' = Dropped(screen)
  /\ \E selects \in BOOLEAN : sender' = [sender EXCEPT !.occupied = @ \/ selects]
  /\ UNCHANGED <<seekFingers, shelf, deckPlayer, sentSeek, waveGestures, seekElsewhere>>
(* begin_cue_gesture leaves the waveforms alone; seek_available ends it.   *)
ClickCue ==
  /\ screen.view.online /\ ~ screen.view.pending /\ ~ screen.cue /\ screen.expected = "none"
  /\ screen' = [screen EXCEPT !.cue = TRUE]
  /\ UNCHANGED <<seekFingers, sender, shelf, deckPlayer, sentSeek, waveGestures, seekElsewhere>>

-----------------------------------------------------------------------------
(* DeckLoadWorker::run: a status, or a second without one; the seek; the   *)
(* end of an operation; the next view.                                     *)
TakeSample ==
  /\ \/ sender' = [sender EXCEPT !.current = deckPlayer, !.online = TRUE]
     \/ sender.online /\ sender' = [sender EXCEPT !.online = FALSE]
  /\ UNCHANGED <<seekFingers, screen, shelf, deckPlayer, sentSeek, waveGestures, seekElsewhere>>
Sendable(r) ==
  /\ sender.online /\ r.track # 0 /\ r.gen # 0
  /\ r.track = sender.current.track /\ r.gen = sender.current.gen
  /\ sender.current.mode = "paused" /\ r.frame < TrackFrames[r.track]
SendSeek ==
  /\ sender.slot # <<>>
  /\ sentSeek' = IF Sendable(Head(sender.slot)) THEN sender.slot ELSE sentSeek
  /\ sender' = [sender EXCEPT !.slot = <<>>]
  /\ UNCHANGED <<seekFingers, screen, shelf, deckPlayer, waveGestures, seekElsewhere>>
SettleOperation ==
  /\ sender.occupied /\ sender.slot = <<>> /\ sender' = [sender EXCEPT !.occupied = FALSE]
  /\ UNCHANGED <<seekFingers, screen, shelf, deckPlayer, sentSeek, waveGestures, seekElsewhere>>
ShelveView ==
  /\ shelf = <<>>
  /\ shelf' = <<[status |-> sender.current, online |-> sender.online, pending |-> sender.occupied]>>
  /\ UNCHANGED <<seekFingers, screen, sender, deckPlayer, sentSeek, waveGestures, seekElsewhere>>

(* The player: a seek or a load of anyone, play, pause, and whatever else  *)
(* rules a seek out (loops, sync, a decode error).                         *)
PlayerChanges ==
  /\ seekElsewhere < MaxElsewhere /\ seekElsewhere' = seekElsewhere + 1
  /\ \/ deckPlayer' \in {[deckPlayer EXCEPT !.mode = m] : m \in {"paused", "playing", "other"}}
     \/ \E at \in 0 .. TrackFrames[deckPlayer.track] - 1 :
          deckPlayer' = [deckPlayer EXCEPT !.gen = @ + 1, !.at = at]
     \/ /\ deckPlayer.track < Len(TrackFrames)
        /\ deckPlayer' = [deckPlayer EXCEPT !.track = @ + 1, !.gen = @ + 1, !.at = 0]
  /\ UNCHANGED <<seekFingers, screen, sender, shelf, sentSeek, waveGestures>>

SeekNext ==
  \/ ApplyView
  \/ \E surface \in {"overview", "detail"} :
       \/ \E x \in 0 .. Pixels : PressWave(surface, x) \/ DragWave(surface, x) \/ ReleaseWave(surface, x)
       \/ SlideOff(surface)
  \/ ClickZoom \/ ClickPlay \/ ClickBrowse \/ ClickCue
  \/ TakeSample \/ SendSeek \/ SettleOperation \/ ShelveView \/ PlayerChanges
SeekSpec == SeekInit /\ [][SeekNext]_seekVars

-----------------------------------------------------------------------------
(* A seek goes to what the finger was put on: the command the worker sends *)
(* names the track and the generation the waveform showed at the press,    *)
(* whatever was loaded or sought, and whatever views arrived, while the    *)
(* finger moved, and a frame of that track.  The worker cannot see this:   *)
(* it compares the request with its own status, not with the press.        *)
SeeksWhatWasTouched ==
  \A i \in DOMAIN sentSeek : /\ <<sentSeek[i].track, sentSeek[i].gen>> = sentSeek[i].aim
                         /\ sentSeek[i].frame < TrackFrames[sentSeek[i].aim[1]]
=============================================================================
