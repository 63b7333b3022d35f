------------------------------- MODULE CueButton -------------------------------
(***************************************************************************)
(* The CUE button, end to end: the gesture in the deck's view, the control *)
(* queue and the release flag of the deck module, the renderer's cue state *)
(* and its seek through the player's worker, and the status that comes     *)
(* back to the view.                                                       *)
(*                                                                         *)
(* Threads: the deck's display loop, the deck's process, the player's      *)
(* process, the player's worker.  A block of controls is overwritten by    *)
(* the next one if the player has not run in between.                      *)
(*                                                                         *)
(* Positions are whole frames, rates do not change what is modelled; loops,*)
(* quantization and transport sync are off, as the button requires.  Which *)
(* chunks are resident when a block is rendered is any choice.  Residency, *)
(* transitions and track handoff are PlaybackCoordinator and               *)
(* PreparedPlayback.                                                       *)
(***************************************************************************)
EXTENDS Integers, Sequences, FiniteSets, SequencesExt

CONSTANTS
  Duration,      \* frames of a track
  BlockEvents,   \* DeckControlEventBlock::MAX_EVENTS, also the usable queue
  MaxTouches,    \* bound: what the user does
  MaxTroubles    \* bound: other seeks, other tracks, lost connections, restarts

ASSUME CueBounds ==
  {Duration, BlockEvents, MaxTouches} \subseteq Nat \ {0} /\ MaxTroubles \in Nat

NoFrame == -1

VARIABLES
  surface,   \* LvglDeckView: on, view, held, gesture, expected
  deck,      \* LvglDeck: queue, release and rate flags; its process: at, out
  block,     \* the control block the player sees next
  cue,       \* VarispeedRenderer: playing, at, the cue point and its gesture
  track,     \* track_instance_id_
  intent,    \* cue_seek_frame_
  landing,   \* position of a generation the renderer has not adopted
  sample,    \* a status on its way to the view
  touches,
  troubles,
  excused    \* history: a release the code gives up, see NoOrphanPreview

cueVars == <<surface, deck, block, cue, track, intent, landing, sample, touches, troubles, excused>>
player == <<cue, track, intent, landing>>

NoGesture == [action |-> "none"]
NoView == [connected |-> FALSE, busy |-> FALSE, track |-> 0, playing |-> FALSE, at |-> 0, cue |-> NoFrame]
NewSurface == [on |-> TRUE, view |-> NoView, held |-> FALSE, gesture |-> NoGesture, expected |-> "none"]
NoSample == <<>>

CueInit ==
  /\ surface = NewSurface
  /\ deck = [queue |-> <<>>, release |-> FALSE, rate |-> FALSE, at |-> "idle", out |-> <<>>]
  /\ block = <<>> /\ sample = NoSample
  /\ cue = [playing |-> FALSE, at |-> 0, point |-> NoFrame, preview |-> FALSE, held |-> FALSE,
            hold |-> FALSE, asked |-> FALSE, flying |-> FALSE]
  /\ track = 1 /\ intent = NoFrame /\ landing = NoFrame
  /\ touches = 0 /\ troubles = 0 /\ excused = FALSE

Touch == surface.on /\ touches < MaxTouches /\ touches' = touches + 1
Trouble == troubles < MaxTroubles /\ troubles' = troubles + 1

-----------------------------------------------------------------------------
(* LvglDeck::queue_control, for the view the display loop stored last.     *)
Admits(type) ==
  /\ surface.view.connected /\ surface.view.track # 0
  /\ type = "up" \/ ~ surface.view.busy
  /\ ~ (type = "down" /\ deck.release)
Room == Len(deck.queue) < BlockEvents
Accepts(type) == Admits(type) /\ (type = "rate" \/ Room \/ (type = "up" /\ ~ deck.release))
(* Mutant: the release of a full queue is dropped like any other control.  *)
M_Queue(type) == IF Room THEN [deck EXCEPT !.queue = Append(@, type)] ELSE deck
Queue(type) ==
  IF type = "rate" THEN [deck EXCEPT !.rate = TRUE]
  ELSE IF Room THEN [deck EXCEPT !.queue = Append(@, type)] ELSE [deck EXCEPT !.release = TRUE]

-----------------------------------------------------------------------------
(* visible_markers, update_cue_button and begin_cue_gesture. *)
VisibleCue(v) == IF v.connected /\ v.track # 0 /\ v.cue < Duration THEN v.cue ELSE NoFrame
Stable ==
  LET v == surface.view
  IN /\ v.connected /\ ~ v.busy /\ v.track # 0
     /\ surface.gesture = NoGesture /\ surface.expected = "none"
Pressable ==
  /\ Stable
  /\ IF surface.view.playing THEN VisibleCue(surface.view) # NoFrame ELSE surface.view.at < Duration
PressCue ==
  /\ Touch /\ ~ surface.held /\ Pressable /\ Accepts("down")
  /\ LET v == surface.view
         frame == IF v.playing THEN VisibleCue(v) ELSE v.at
         action == IF v.playing THEN "return" ELSE IF VisibleCue(v) = frame THEN "preview" ELSE "set"
     IN surface' = [surface EXCEPT !.held = TRUE,
          !.gesture = [action |-> action, track |-> v.track, frame |-> frame,
                       released |-> FALSE, observed |-> FALSE]]
  /\ deck' = Queue("down") /\ UNCHANGED <<block, player, sample, troubles, excused>>

(* resolve_cue_gesture: a gesture ends when the status confirms it, when   *)
(* the session or track is another one, and after two seconds (late).      *)
Confirmed(g, v) ==
  /\ VisibleCue(v) = g.frame
  /\ g.action # "set" => ~ v.playing /\ v.at - g.frame \in -1 .. 1
  /\ g.action = "preview" => g.observed
Resolved(g, v, late) ==
  IF g # NoGesture /\ g.released
     /\ (~ v.connected \/ v.track # g.track \/ Confirmed(g, v) \/ late)
  THEN NoGesture ELSE g

(* end_cue_gesture, and the end of a press anywhere else. *)
Excuse(how) == excused' = (excused \/ how)
ReleaseCue ==
  /\ surface.on /\ surface.held
  /\ LET told == Accepts("up")
         g == surface.gesture
         ended == IF ~ told \/ g = NoGesture THEN NoGesture
                  ELSE Resolved([g EXCEPT !.released = TRUE], surface.view, FALSE)
     IN /\ surface' = [surface EXCEPT !.held = FALSE, !.gesture = ended]
        /\ deck' = IF told THEN Queue("up") ELSE deck
        /\ Excuse(~ told)
  /\ UNCHANGED <<block, player, sample, touches, troubles>>

(* poll: a press held for 150 ms. *)
HoldCue ==
  /\ surface.on /\ surface.held /\ surface.gesture.action = "return" /\ Accepts("hold")
  /\ surface' = [surface EXCEPT !.gesture.action = "preview"] /\ deck' = Queue("hold")
  /\ UNCHANGED <<block, player, sample, touches, troubles, excused>>

(* apply: a status, whether an operation is pending, what has timed out. *)
Applied(v, late) ==
  LET g == surface.gesture
      seen == IF g # NoGesture /\ v.playing THEN [g EXCEPT !.observed = TRUE] ELSE g
      want == IF v.playing THEN "play" ELSE "pause"
  IN [surface EXCEPT !.view = v, !.gesture = Resolved(seen, v, late),
        !.expected = IF late \/ (v.connected /\ @ = want) THEN "none" ELSE @]
ApplyStatus ==
  /\ surface.on /\ sample # NoSample /\ sample' = NoSample
  /\ \E busy, late \in BOOLEAN :
       surface' = Applied([Head(sample) EXCEPT !.busy = busy], late)
  /\ UNCHANGED <<deck, block, player, touches, troubles, excused>>
LoseConnection ==
  /\ surface.on /\ surface.view.connected /\ Trouble
  /\ surface' = Applied([surface.view EXCEPT !.connected = FALSE], FALSE)
  /\ UNCHANGED <<deck, block, player, sample, touches, excused>>

(* clicked and pitch_changed. *)
ClickTransport ==
  /\ Touch /\ surface.view.connected /\ ~ surface.view.busy /\ surface.view.track # 0
  /\ surface.gesture = NoGesture
  /\ LET playing == IF surface.expected = "none" THEN surface.view.playing ELSE surface.expected = "play"
         type == IF playing THEN "pause" ELSE "play"
     IN Accepts(type) /\ deck' = Queue(type) /\ surface' = [surface EXCEPT !.expected = type]
  /\ UNCHANGED <<block, player, sample, troubles, excused>>
MovePitch ==
  /\ Touch /\ surface.gesture = NoGesture /\ ~ deck.rate /\ Accepts("rate") /\ deck' = Queue("rate")
  /\ UNCHANGED <<surface, block, player, sample, troubles, excused>>

(* on_disable: the view goes first and releases a held button; then the    *)
(* queue is emptied, and a release found in it is kept for process.        *)
CloseView ==
  /\ surface.on /\ Trouble
  /\ LET up == surface.held /\ Accepts("up")
     IN /\ deck' = IF up THEN Queue("up") ELSE deck
        /\ Excuse(surface.held /\ ~ up)
  /\ surface' = [NewSurface EXCEPT !.on = FALSE]
  /\ UNCHANGED <<block, player, sample, touches>>
DiscardControls ==
  /\ ~ surface.on /\ deck.queue # <<>>
  /\ deck' = [deck EXCEPT !.queue = <<>>, !.release = @ \/ "up" \in ToSet(deck.queue)]
  /\ UNCHANGED <<surface, block, player, sample, touches, troubles, excused>>
EnableDeck ==
  /\ ~ surface.on /\ deck.queue = <<>> /\ surface' = NewSurface
  /\ UNCHANGED <<deck, block, player, sample, touches, troubles, excused>>

-----------------------------------------------------------------------------
(* LvglDeck::process: the queue, the release, the rate. *)
HasRoom == Len(deck.out) < BlockEvents
PopControl ==
  /\ deck.at \in {"idle", "pop"}
  /\ IF HasRoom /\ deck.queue # <<>>
     THEN deck' = [deck EXCEPT !.at = "pop", !.out = Append(@, Head(deck.queue)), !.queue = Tail(@)]
     ELSE deck' = [deck EXCEPT !.at = "release"]
  /\ UNCHANGED <<surface, block, player, sample, touches, troubles, excused>>
TakeRelease ==
  /\ deck.at = "release"
  /\ deck' = [deck EXCEPT !.at = "send",
       !.out = IF HasRoom /\ deck.release THEN Append(@, "up") ELSE @,
       !.release = @ /\ ~ HasRoom]
  /\ Excuse(HasRoom /\ deck.release /\ deck.queue # <<>>)
  /\ UNCHANGED <<surface, block, player, sample, touches, troubles>>
SendBlock ==
  /\ deck.at = "send"
  /\ block' = IF deck.rate /\ HasRoom THEN Append(deck.out, "rate") ELSE deck.out
  /\ deck' = [deck EXCEPT !.at = "idle", !.out = <<>>, !.rate = @ /\ ~ HasRoom]
  /\ Excuse("up" \in ToSet(block))
  /\ UNCHANGED <<surface, player, sample, touches, troubles>>

-----------------------------------------------------------------------------
(* VarispeedRenderer: near says whether the cue's chunk is resident. *)
ReturnToCue(r, near) ==
  IF near THEN [r EXCEPT !.at = r.point] ELSE [r EXCEPT !.asked = TRUE, !.flying = TRUE]
CueDown(r, near) ==
  IF r.playing
  THEN IF r.point = NoFrame THEN r
       ELSE ReturnToCue([r EXCEPT !.playing = FALSE, !.preview = FALSE, !.held = TRUE, !.hold = TRUE], near)
  ELSE LET held == [r EXCEPT !.held = TRUE, !.hold = FALSE]
       IN IF r.flying THEN [held EXCEPT !.preview = TRUE]
          ELSE IF r.point = r.at THEN [held EXCEPT !.preview = TRUE, !.playing = TRUE]
          ELSE [held EXCEPT !.point = r.at]
CueHold(r) ==
  IF r.held /\ r.hold /\ r.point # NoFrame
  THEN [r EXCEPT !.preview = TRUE, !.hold = FALSE, !.playing = ~ r.flying] ELSE r
CueUp(r, near) ==
  LET up == [r EXCEPT !.held = FALSE, !.hold = FALSE]
  IN IF ~ r.preview THEN up
     ELSE LET over == [up EXCEPT !.playing = FALSE, !.preview = FALSE]
          IN IF r.point # NoFrame /\ ~ r.flying THEN ReturnToCue(over, near) ELSE over
ApplyControl(r, type, near) ==
  CASE type = "down" -> CueDown(r, near)
    [] type = "hold" -> CueHold(r)
    [] type = "up" -> CueUp(r, near)
    [] type \in {"play", "pause"} -> [r EXCEPT !.playing = (type = "play")]
    [] type = "rate" -> r
Prepare(r, frame) ==
  LET landed == r.flying /\ r.point = frame
      there == [r EXCEPT !.at = frame, !.flying = FALSE, !.asked = FALSE]
  IN IF landed THEN [there EXCEPT !.playing = r.preview /\ r.held, !.preview = @ /\ r.held]
     ELSE [there EXCEPT !.preview = FALSE, !.held = FALSE, !.hold = FALSE]

(* A block: adopt what has landed, apply the controls, play on, and hand a *)
(* seek request to the worker.                                             *)
RenderCue ==
  /\ \E near \in BOOLEAN, step \in {0, 1} :
       LET adopted == IF landing = NoFrame THEN cue ELSE Prepare(cue, landing)
           r == FoldLeft(LAMBDA acc, type : ApplyControl(acc, type, near), adopted, block)
           at == IF r.playing /\ r.at < Duration THEN r.at + step ELSE r.at
       IN /\ cue' = [r EXCEPT !.at = at, !.asked = FALSE]
          /\ intent' = IF r.asked THEN r.point ELSE IF landing = NoFrame THEN intent ELSE NoFrame
  /\ landing' = NoFrame /\ block' = <<>>
  /\ UNCHANGED <<surface, deck, track, sample, touches, troubles, excused>>
PublishSample ==
  /\ sample = NoSample
  /\ sample' = <<[connected |-> TRUE, busy |-> FALSE, track |-> track,
                  playing |-> cue.playing, at |-> cue.at, cue |-> cue.point]>>
  /\ UNCHANGED <<surface, deck, block, player, touches, troubles, excused>>

(* The player's worker: the cue seek succeeds or is refused; a seek of     *)
(* another client or a load that fails drops the request.                  *)
SeekCue ==
  /\ intent # NoFrame /\ landing = NoFrame /\ intent' = NoFrame
  /\ landing' \in {intent, NoFrame}
  /\ UNCHANGED <<surface, deck, block, cue, track, sample, touches, troubles, excused>>
SeekElsewhere ==
  /\ Trouble /\ intent' = NoFrame /\ landing' \in {0, NoFrame}
  /\ UNCHANGED <<surface, deck, block, cue, track, sample, touches, excused>>
(* A load committed at a block boundary, with its controls dropped. *)
ReplaceTrack ==
  /\ Trouble /\ track' = track + 1 /\ intent' = NoFrame /\ landing' = NoFrame /\ block' = <<>>
  /\ cue' = [cue EXCEPT !.at = 0, !.point = NoFrame, !.preview = FALSE, !.held = FALSE,
                        !.hold = FALSE, !.asked = FALSE, !.flying = FALSE]
  /\ UNCHANGED <<surface, deck, sample, touches, excused>>

CueNext ==
  \/ PressCue \/ ReleaseCue \/ HoldCue \/ ApplyStatus \/ LoseConnection \/ ClickTransport \/ MovePitch
  \/ CloseView \/ DiscardControls \/ EnableDeck
  \/ PopControl \/ TakeRelease \/ SendBlock
  \/ RenderCue \/ PublishSample \/ SeekCue \/ SeekElsewhere \/ ReplaceTrack
CueSpec == CueInit /\ [][CueNext]_cueVars

(* "A full control queue preserves a pending release": a renderer that     *)
(* holds the button or plays a preview has the finger still on it or the   *)
(* release on its way, through full queues, track changes, seeks and       *)
(* restarts of the deck.  Excused are a release while disconnected, which  *)
(* the view reports as unknown, a block the player never ran for, and a    *)
(* press queued between process's last pop and its look at the flag.       *)
NoOrphanPreview ==
  cue.preview \/ cue.held =>
     \/ surface.held \/ deck.release \/ excused
     \/ "up" \in ToSet(deck.queue) \cup ToSet(deck.out) \cup ToSet(block)
=============================================================================
