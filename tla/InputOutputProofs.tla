--------------------------- MODULE InputOutputProofs ---------------------------
(***************************************************************************)
(* Proofs about the two ends of the signal's way that need neither the     *)
(* player nor its pool: the finger that seeks on a waveform (SeekGesture), *)
(* the finger on a cue button with the preview it starts (CueButton), the  *)
(* ring in front of the audio device (AudioOutput), the readers of media   *)
(* files (MediaReaders), a note's way from the finger to the voice         *)
(* (NotePath) and the recording in a WAV file (WavRecording).              *)
(***************************************************************************)
EXTENDS SeekGesture, CueButton, AudioOutput, MediaReaders, NotePath, WavRecording, SequenceTheorems,
        FiniteSetTheorems, WellFoundedInduction, TLAPS

-----------------------------------------------------------------------------
(* Seeking on a waveform                                                   *)

ScreenFields == {"view", "loop", "gesture", "expected", "cue", "span"}
GestureFields == {"on", "surface", "x", "from", "span", "dragged", "outline", "frame",
                  "track", "gen", "aim"}
SeekShapes ==
  /\ DOMAIN screen = ScreenFields /\ DOMAIN sender = {"current", "online", "occupied", "slot"}
  /\ screen.gesture.on => DOMAIN screen.gesture = GestureFields

(* As long as a gesture lasts, the view shows what it aimed at and it names *)
(* that; so does a request in the queue.  Views, and with them what a later *)
(* gesture aims at, change under the finger, but then the gesture is over.  *)
Aims(d) == d.gesture.on =>
  /\ d.gesture.aim = <<d.view.status.track, d.view.status.gen>>
  /\ d.gesture.track = d.view.status.track /\ d.gesture.gen = d.view.status.gen
ToAim(q) == \A i \in DOMAIN q : <<q[i].track, q[i].gen>> = q[i].aim
SeekInv ==
  /\ SeekShapes /\ Aims(screen) /\ ToAim(sender.slot)
  /\ sender.slot = <<>> \/ DOMAIN sender.slot = {1}
  /\ SeeksWhatWasTouched

LEMMA SeekInvInit == SeekInit => SeekInv
<1> SUFFICES ASSUME SeekInit PROVE SeekInv
  OBVIOUS
<1>1. SeekShapes
  BY DEF SeekInit, SeekShapes, ScreenFields, NoTouch
<1>2. screen.gesture.on = FALSE /\ sender.slot = <<>> /\ sentSeek = <<>>
  BY DEF SeekInit, NoTouch
<1> QED
  BY <1>1, <1>2 DEF SeekInv, Aims, ToAim, SeeksWhatWasTouched

(* A view keeps a gesture only if it is of the same track and generation.   *)
LEMMA ShownAims ==
  ASSUME NEW d, DOMAIN d = ScreenFields, Aims(d), d.gesture.on => DOMAIN d.gesture = GestureFields,
         NEW v, NEW resolved, NEW late
  PROVE  LET e == ApplyShown(d, v, resolved, late)
         IN /\ DOMAIN e = ScreenFields /\ Aims(e)
            /\ e.gesture.on => DOMAIN e.gesture = GestureFields
<1> DEFINE shown == [d EXCEPT !.view = v, !.cue = @ /\ ~ resolved]
           answered == v.online /\ d.expected = v.status.mode
           e == ApplyShown(d, v, resolved, late)
           same == SameMedia(d.view, v) /\ SeekAvailable(shown)
<1>1. DOMAIN shown = ScreenFields /\ shown.view = v /\ shown.gesture = d.gesture
  BY DEF ScreenFields
<1> HIDE DEF shown, answered
<1>2. e = [shown EXCEPT !.gesture = IF same THEN @ ELSE NoTouch,
                        !.expected = IF answered \/ late THEN "none" ELSE @]
  BY DEF ApplyShown, shown, answered
<1> HIDE DEF e
<1>3. /\ DOMAIN e = ScreenFields /\ e.view = v
      /\ e.gesture = IF same THEN d.gesture ELSE NoTouch
  BY <1>1, <1>2 DEF ScreenFields
<1>4. CASE same
  BY <1>3, <1>4 DEF Aims, SameMedia, e
<1>5. CASE ~ same
  BY <1>3, <1>5 DEF Aims, NoTouch, e
<1> QED
  BY <1>4, <1>5

LEMMA MovedAims ==
  ASSUME NEW d, NEW g, DOMAIN g = GestureFields, NEW x
  PROVE  LET h == Moved(d, g, x)
         IN /\ DOMAIN h = GestureFields /\ h.on = g.on /\ h.aim = g.aim
            /\ h.track = d.view.status.track /\ h.gen = d.view.status.gen
<1> DEFINE dragged == g.dragged \/ Distance(x, g.x) >= DragPixels
           by == x - g.x
           scaled == IF g.surface = "detail" THEN g.from * Pixels - by * g.span
                     ELSE IF g.outline /\ dragged THEN g.from * Pixels + by * Frames(d)
                     ELSE x * Frames(d)
           frame == Rounded(scaled, Frames(d) - 1)
<1>1. Moved(d, g, x) = [g EXCEPT !.dragged = dragged, !.frame = frame,
                          !.track = d.view.status.track, !.gen = d.view.status.gen]
  BY DEF Moved
<1> HIDE DEF dragged, frame
<1> QED
  BY <1>1 DEF GestureFields

LEMMA DroppedAims ==
  ASSUME NEW d, DOMAIN d = ScreenFields
  PROVE  /\ DOMAIN Dropped(d) = ScreenFields /\ Dropped(d).gesture.on = FALSE
         /\ Aims(Dropped(d))
BY DEF Dropped, ScreenFields, NoTouch, Aims

(* What a step that leaves queue and history alone has to show. *)
ScreenInv(d) == /\ DOMAIN d = ScreenFields /\ Aims(d)
                /\ d.gesture.on => DOMAIN d.gesture = GestureFields
LEMMA OnlyScreen ==
  ASSUME SeekInv, ScreenInv(screen'), DOMAIN sender' = DOMAIN sender, sender'.slot = sender.slot,
         UNCHANGED sentSeek
  PROVE  SeekInv'
BY DEF SeekInv, SeekShapes, ScreenInv, Aims, ToAim, SeeksWhatWasTouched

LEMMA SeekInvStep == SeekInv /\ [SeekNext]_seekVars => SeekInv'
<1> SUFFICES ASSUME SeekInv, [SeekNext]_seekVars PROVE SeekInv'
  OBVIOUS
<1>0. ScreenInv(screen) /\ ScreenInv(Dropped(screen))
  BY DroppedAims DEF SeekInv, SeekShapes, ScreenInv
<1>1. CASE ApplyView
  <2> DEFINE v == IF shelf = <<>> THEN screen.loop ELSE Head(shelf)
  <2>1. PICK resolved, late \in BOOLEAN :
          screen' = [ApplyShown(screen, v, resolved, late) EXCEPT !.loop = v]
    BY <1>1 DEF ApplyView
  <2> DEFINE e == ApplyShown(screen, v, resolved, late)
  <2>2. ScreenInv(e)
    BY <1>0, ShownAims DEF ScreenInv
  <2> HIDE DEF e, v
  <2>3. ScreenInv(screen')
    BY <2>1, <2>2 DEF ScreenInv, Aims, ScreenFields, e
  <2> QED
    BY <1>1, <2>3, OnlyScreen DEF ApplyView
<1>2. ASSUME NEW s \in {"overview", "detail"}, NEW x \in 0 .. Pixels, PressWave(s, x)
      PROVE  SeekInv'
  <2>1. CASE SeekAvailable(screen)
    <3> DEFINE p == Pressed(screen, s, x)
               g == Moved(screen, p, x)
    <3>1. DOMAIN p = GestureFields /\ p.on = TRUE
          /\ p.aim = <<screen.view.status.track, screen.view.status.gen>>
      BY DEF Pressed, GestureFields
    <3> HIDE DEF p
    <3>2. /\ DOMAIN g = GestureFields /\ g.aim = p.aim
          /\ g.track = screen.view.status.track /\ g.gen = screen.view.status.gen
      BY <3>1, MovedAims
    <3> HIDE DEF g
    <3>3. screen' = [screen EXCEPT !.gesture = g]
      BY <1>2, <2>1 DEF PressWave, g, p
    <3>4. ScreenInv(screen')
      BY <1>0, <3>1, <3>2, <3>3 DEF ScreenInv, Aims, ScreenFields
    <3> QED
      BY <1>2, <3>4, OnlyScreen DEF PressWave
  <2>2. CASE ~ SeekAvailable(screen)
    BY <1>0, <1>2, <2>2, OnlyScreen DEF PressWave
  <2> QED
    BY <2>1, <2>2
<1>3. ASSUME NEW s \in {"overview", "detail"}, NEW x \in 0 .. Pixels, DragWave(s, x)
      PROVE  SeekInv'
  <2>1. CASE SeekAvailable(screen) /\ HasGesture(s)
    <3> DEFINE g == Moved(screen, screen.gesture, x)
    <3>1. /\ DOMAIN g = GestureFields /\ g.aim = screen.gesture.aim
          /\ g.track = screen.view.status.track /\ g.gen = screen.view.status.gen
      <4>1. DOMAIN screen.gesture = GestureFields
        BY <1>0, <2>1 DEF ScreenInv, HasGesture
      <4> QED
        BY <4>1, MovedAims
    <3> HIDE DEF g
    <3>2. screen' = [screen EXCEPT !.gesture = g]
      BY <1>3, <2>1 DEF DragWave, g
    <3>3. ScreenInv(screen')
      BY <1>0, <2>1, <3>1, <3>2 DEF ScreenInv, Aims, ScreenFields, HasGesture
    <3> QED
      BY <1>3, <3>3, OnlyScreen DEF DragWave
  <2>2. CASE ~ (SeekAvailable(screen) /\ HasGesture(s))
    BY <1>0, <1>3, <2>2, OnlyScreen DEF DragWave
  <2> QED
    BY <2>1, <2>2
<1>4. ASSUME NEW s \in {"overview", "detail"}, NEW x \in 0 .. Pixels, ReleaseWave(s, x)
      PROVE  SeekInv'
  <2> DEFINE g == Moved(screen, screen.gesture, x)
             r == SeekRequest(g)
             idle == Dropped(screen)
             commits == (g.surface = "overview" \/ g.dragged) /\ ~ sender.occupied
  <2>1. CASE SeekAvailable(screen) /\ HasGesture(s) /\ commits
    <3>1. /\ g.aim = screen.gesture.aim
          /\ g.track = screen.view.status.track /\ g.gen = screen.view.status.gen
      <4>1. DOMAIN screen.gesture = GestureFields
        BY <1>0, <2>1 DEF ScreenInv, HasGesture
      <4>2. \A y : LET h == Moved(screen, screen.gesture, y)
                   IN /\ h.aim = screen.gesture.aim
                      /\ h.track = screen.view.status.track /\ h.gen = screen.view.status.gen
        BY <4>1, MovedAims
      <4> HIDE DEF r, idle, commits
      <4> QED
        BY <4>2
    <3>2. sender' = [sender EXCEPT !.occupied = TRUE, !.slot = <<r>>]
      BY <1>4, <2>1 DEF ReleaseWave
    <3>3. PICK resolved, late \in BOOLEAN :
            screen' = ApplyShown(idle, [idle.view EXCEPT !.pending = TRUE], resolved, late)
      BY <1>4, <2>1 DEF ReleaseWave
    <3> HIDE DEF g, idle
    <3>4. <<r.track, r.gen>> = r.aim
      BY <1>0, <2>1, <3>1 DEF ScreenInv, Aims, HasGesture, SeekRequest
    <3>5. ScreenInv(screen')
      BY <1>0, <3>3, ShownAims DEF ScreenInv, idle
    <3> HIDE DEF r
    <3>6. DOMAIN sender' = DOMAIN sender /\ sender'.slot = <<r>>
      BY <3>2 DEF SeekInv, SeekShapes
    <3>7. ToAim(<<r>>) /\ DOMAIN <<r>> = {1}
      BY <3>4 DEF ToAim
    <3> QED
      BY <1>4, <3>5, <3>6, <3>7
         DEF ReleaseWave, SeekInv, SeekShapes, ScreenInv, Aims, SeeksWhatWasTouched
  <2>2. CASE ~ (SeekAvailable(screen) /\ HasGesture(s) /\ commits)
    <3>1. screen' \in {screen, Dropped(screen)} /\ UNCHANGED sender
      <4> HIDE DEF g
      <4> QED
        BY <1>4, <2>2 DEF ReleaseWave, g
    <3> QED
      BY <1>0, <1>4, <3>1, OnlyScreen DEF ReleaseWave
  <2> QED
    BY <2>1, <2>2
<1>5. ASSUME NEW s \in {"overview", "detail"}, SlideOff(s)
      PROVE  SeekInv'
  BY <1>0, <1>5, OnlyScreen DEF SlideOff
<1>6. CASE ClickZoom
  <2>1. ScreenInv(screen')
    BY <1>0, <1>6, DroppedAims DEF ClickZoom, ScreenInv, Aims, ScreenFields
  <2> QED
    BY <1>6, <2>1, OnlyScreen DEF ClickZoom
<1>7. CASE ClickPlay
  <2>1. ScreenInv(screen')
    <3>1. PICK e : screen' = [Dropped(screen) EXCEPT !.expected = e]
      BY <1>7 DEF ClickPlay
    <3> QED
      BY <1>0, <3>1, DroppedAims DEF ScreenInv, Aims, ScreenFields
  <2> QED
    BY <1>7, <2>1, OnlyScreen DEF ClickPlay
<1>8. CASE ClickBrowse
  <2>1. DOMAIN sender' = DOMAIN sender /\ sender'.slot = sender.slot
    BY <1>8 DEF ClickBrowse, SeekInv, SeekShapes
  <2> QED
    BY <1>0, <1>8, <2>1, OnlyScreen DEF ClickBrowse
<1>9. CASE ClickCue
  <2>1. ScreenInv(screen')
    BY <1>0, <1>9 DEF ClickCue, ScreenInv, Aims, ScreenFields
  <2> QED
    BY <1>9, <2>1, OnlyScreen DEF ClickCue
<1>10. CASE TakeSample
  <2>1. DOMAIN sender' = DOMAIN sender /\ sender'.slot = sender.slot
    BY <1>10 DEF TakeSample, SeekInv, SeekShapes
  <2> QED
    BY <1>0, <1>10, <2>1, OnlyScreen DEF TakeSample
<1>11. CASE SendSeek
  <2>1. DOMAIN sender' = DOMAIN sender /\ sender'.slot = <<>>
    BY <1>11 DEF SendSeek, SeekInv, SeekShapes
  <2>2. SeeksWhatWasTouched'
    <3>1. CASE Sendable(Head(sender.slot))
      <4>1. DOMAIN sender.slot = {1} /\ Head(sender.slot) = sender.slot[1]
        BY <1>11 DEF SendSeek, SeekInv
      <4>2. sentSeek' = sender.slot
        BY <1>11, <3>1 DEF SendSeek
      <4>3. sender.slot[1].aim[1] = sender.slot[1].track
        BY <4>1 DEF SeekInv, ToAim
      <4> QED
        BY <3>1, <4>1, <4>2, <4>3 DEF SeekInv, ToAim, SeeksWhatWasTouched, Sendable
    <3>2. CASE ~ Sendable(Head(sender.slot))
      BY <1>11, <3>2 DEF SendSeek, SeekInv, SeeksWhatWasTouched
    <3> QED
      BY <3>1, <3>2
  <2> QED
    BY <1>0, <1>11, <2>1, <2>2 DEF SendSeek, SeekInv, SeekShapes, ScreenInv, Aims, ToAim
<1>12. CASE SettleOperation
  <2>1. DOMAIN sender' = DOMAIN sender /\ sender'.slot = sender.slot
    BY <1>12 DEF SettleOperation, SeekInv, SeekShapes
  <2> QED
    BY <1>0, <1>12, <2>1, OnlyScreen DEF SettleOperation
<1>13. CASE ShelveView
  BY <1>0, <1>13, OnlyScreen DEF ShelveView
<1>14. CASE PlayerChanges
  BY <1>0, <1>14, OnlyScreen DEF PlayerChanges
<1>15. CASE UNCHANGED seekVars
  BY <1>0, <1>15, OnlyScreen DEF seekVars
<1> QED
  BY <1>1, <1>2, <1>3, <1>4, <1>5, <1>6, <1>7, <1>8, <1>9, <1>10, <1>11, <1>12, <1>13,
     <1>14, <1>15 DEF SeekNext

(* A seek goes to the track and the generation the waveform showed when the *)
(* finger was put on it, for any number of gestures, views, and changes of  *)
(* the player while the finger moves.                                       *)
THEOREM SeeksWhatTheFingerMeant == SeekSpec => []SeeksWhatWasTouched
<1>1. SeekInv => SeeksWhatWasTouched
  BY DEF SeekInv
<1> QED
  BY <1>1, SeekInvInit, SeekInvStep, PTL DEF SeekSpec

-----------------------------------------------------------------------------
(* Division by a constant                                                  *)

LEMMA Divided ==
  ASSUME NEW P \in Nat \ {0}, NEW a \in Nat
  PROVE  \E q \in Nat, r \in 0 .. P - 1 : q = a \div P /\ r = a % P /\ a = P * q + r
<1>1. a % P = a - P * (a \div P)
  BY Z3
<1>2. a \div P \in Nat
  OBVIOUS
<1>3. a % P \in 0 .. P - 1
  OBVIOUS
<1>4. PICK q \in Nat, r \in 0 .. P - 1 : q = a \div P /\ r = a % P /\ r = a - P * q
  BY <1>1, <1>2, <1>3
<1>5. a = P * q + r
  BY <1>4
<1> QED
  BY <1>4, <1>5

LEMMA Multiples ==
  ASSUME NEW P \in Nat \ {0}, NEW x \in Int, NEW y \in Int, x < y
  PROVE  P * x + P <= P * y
OBVIOUS

(* Two more of the divisor are at most two more of the quotient. *)
LEMMA QuotientStep ==
  ASSUME NEW P \in Nat \ {0}, NEW a \in Nat, NEW b \in Nat, b <= a + 2 * P
  PROVE  b \div P <= a \div P + 2
<1>1. PICK q \in Nat, r \in 0 .. P - 1 : q = a \div P /\ r = a % P /\ a = P * q + r
  BY Divided
<1>2. PICK k \in Nat, l \in 0 .. P - 1 : k = b \div P /\ l = b % P /\ b = P * k + l
  BY Divided
<1>3. SUFFICES ASSUME q + 2 < k PROVE FALSE
  BY <1>1, <1>2
<1>4. P * (q + 2) + P <= P * k
  BY <1>3, Multiples
<1>5. P * (q + 2) = P * q + 2 * P
  OBVIOUS
<1>6. P * q \in Int /\ P * k \in Int
  OBVIOUS
<1> QED
  BY <1>1, <1>2, <1>4, <1>5, <1>6

(* Numbers less than a divisor apart have different remainders. *)
LEMMA RemaindersDiffer ==
  ASSUME NEW P \in Nat \ {0}, NEW a \in Nat, NEW b \in Nat, a <= b, b < a + P, a % P = b % P
  PROVE  a = b
<1>1. PICK q \in Nat, r \in 0 .. P - 1 : q = a \div P /\ r = a % P /\ a = P * q + r
  BY Divided
<1>2. PICK k \in Nat, l \in 0 .. P - 1 : k = b \div P /\ l = b % P /\ b = P * k + l
  BY Divided
<1>3. ~ (q < k)
  <2> SUFFICES ASSUME q < k PROVE FALSE
    OBVIOUS
  <2>1. P * q + P <= P * k
    BY Multiples
  <2> QED
    BY <1>1, <1>2, <2>1
<1>4. ~ (k < q)
  <2> SUFFICES ASSUME k < q PROVE FALSE
    OBVIOUS
  <2>1. P * k + P <= P * q
    BY Multiples
  <2> QED
    BY <1>1, <1>2, <2>1
<1> QED
  BY <1>1, <1>2, <1>3, <1>4

(* Every set of naturals has a smallest element. *)
LEMMA SmallestNumber ==
  ASSUME NEW T, T \subseteq Nat, T # {}
  PROVE  \E n \in T : \A m \in T : n <= m
<1> DEFINE R == OpToRel(<, Nat)
<1>1. IsWellFoundedOn(R, Nat)
  BY NatLessThanWellFounded
<1>2. \A m, n \in Nat : m < n => <<m, n>> \in R
  BY DEF OpToRel
<1> HIDE DEF R
<1>3. PICK n \in T : \A m \in T : ~ (<<m, n>> \in R)
  BY <1>1, WFMin
<1>4. \A m \in T : ~ (m < n)
  BY <1>2, <1>3
<1> QED
  BY <1>4

-----------------------------------------------------------------------------
(* The ring in front of the audio device                                   *)

Numbered(from, to) == \A f \in from .. to - 1 : ring.slots[f % Ring] = f
RingShape ==
  /\ DOMAIN ring = {"read", "write", "slots"} /\ DOMAIN ring.slots = 0 .. Ring - 1
  /\ ring.read \in Nat /\ ring.write \in Nat
  /\ ring.read <= ring.write /\ ring.write - ring.read <= Ring

(* The writer has room for its block until it has stored its position, and  *)
(* the block is in its slots before.                                        *)
WriterPlace ==
  writer.pc # "idle" =>
    /\ writer.pc \in {"copy", "store"} /\ writer.frames \in Nat
    /\ ring.write + writer.frames - ring.read <= Ring
    /\ writer.pc = "store" => Numbered(ring.write, ring.write + writer.frames)

(* A round works from the cursor there is, and no part of what it delivers  *)
(* moves the cursor past the position it has loaded.                        *)
FeederPlace ==
  feeder.pc = "deliver" =>
    /\ feeder.read = ring.read /\ feeder.write \in Nat
    /\ feeder.read <= feeder.write /\ feeder.write <= ring.write
    /\ feeder.frames \in Nat /\ feeder.step \in Phase - 1 .. Phase + 1
    /\ \A n \in 0 .. feeder.frames : Consumed(n, feeder.step) \in 0 .. feeder.write - feeder.read

RingInv ==
  /\ RingShape /\ Numbered(ring.read, ring.write) /\ fraction \in 0 .. Phase - 1
  /\ WriterPlace /\ FeederPlace
OutputInv ==
  /\ DOMAIN writer = {"pc", "frames"}
  /\ flushRaced \/ RingInv

LEMMA OutputBounds ==
  /\ Phase \in Nat \ {0, 1} /\ Ring \in Nat \ {0} /\ MaxBlock \in Nat \ {0}
BY OutputAssumption DEF Ring

(* What can be delivered is in the queue, with the frame after it. *)
LEMMA DeliverableFits ==
  ASSUME fraction \in 0 .. Phase - 1, NEW wanted \in Nat, NEW queued \in Nat,
         NEW step \in Phase - 1 .. Phase + 1
  PROVE  /\ Deliverable(wanted, queued, step) \in 0 .. wanted
         /\ \A i \in 0 .. Deliverable(wanted, queued, step) : Consumed(i, step) \in 0 .. queued
<1> USE OutputBounds
<1> DEFINE Has(i) == (fraction + i * step) \div Phase + 1 < queued
           Stops(n) == (\A i \in 0 .. n - 1 : Has(i)) /\ (n = wanted \/ ~ Has(n))
           n == Deliverable(wanted, queued, step)
<1>1. \E m \in 0 .. wanted : Stops(m)
  <2> DEFINE T == {m \in 0 .. wanted : m = wanted \/ ~ Has(m)}
  <2>1. T \subseteq Nat /\ wanted \in T
    OBVIOUS
  <2>2. PICK m \in T : \A k \in T : m <= k
    BY <2>1, SmallestNumber
  <2>3. m \in 0 .. wanted /\ (m = wanted \/ ~ Has(m))
    BY <2>2
  <2>4. \A i \in 0 .. m - 1 : Has(i)
    <3> SUFFICES ASSUME NEW i \in 0 .. m - 1, ~ Has(i) PROVE FALSE
      OBVIOUS
    <3> HIDE DEF Has
    <3>1. i \in T
      BY <2>3
    <3> QED
      BY <2>2, <2>3, <3>1
  <2> QED
    BY <2>3, <2>4
<1>2. n = CHOOSE m \in 0 .. wanted : Stops(m)
  BY DEF Deliverable
<1> HIDE DEF n, Stops
<1>3. n \in 0 .. wanted /\ Stops(n)
  BY <1>1, <1>2
<1>4. ASSUME NEW i \in 0 .. n
      PROVE  Consumed(i, step) \in 0 .. queued
  <2>1. CASE i = 0
    <3>1. fraction + i * step = fraction
      BY <2>1
    <3>2. fraction \div Phase = 0
      OBVIOUS
    <3> QED
      BY <3>1, <3>2 DEF Consumed
  <2>2. CASE i # 0
    <3> DEFINE a == fraction + (i - 1) * step  b == fraction + i * step
    <3>1. i \in Nat \ {0} /\ i - 1 \in 0 .. n - 1 /\ step \in Nat /\ step <= 2 * Phase
      BY <1>3, <2>2
    <3>2. i * step \in Nat /\ (i - 1) * step \in Nat /\ i * step = (i - 1) * step + step
      <4>1. \A x, y \in Nat : x * y \in Nat
        OBVIOUS
      <4>2. i - 1 \in Nat
        BY <3>1
      <4>3. i * step = (i - 1) * step + step
        BY <3>1
      <4> QED
        BY <3>1, <4>1, <4>2, <4>3
    <3>3. a \in Nat /\ b \in Nat /\ b <= a + 2 * Phase
      BY <3>1, <3>2
    <3>4. a \div Phase + 1 < queued
      BY <1>3, <3>1 DEF Stops
    <3> HIDE DEF a, b
    <3>5. b \div Phase <= a \div Phase + 2
      BY <3>3, QuotientStep
    <3>6. a \div Phase \in Nat /\ b \div Phase \in Nat
      BY <3>3
    <3>7. b \div Phase \in 0 .. queued
      BY <3>4, <3>5, <3>6
    <3> QED
      BY <3>7 DEF Consumed, b
  <2> QED
    BY <2>1, <2>2
<1> QED
  BY <1>3, <1>4 DEF n

(* Frames less than a ring apart are in different slots. *)
LEMMA SlotsDiffer ==
  ASSUME NEW a \in Nat, NEW b \in Nat, NEW r \in Nat, r <= a, r <= b, a < r + Ring, b < r + Ring,
         a % Ring = b % Ring
  PROVE  a = b
<1>0. Ring \in Nat \ {0} /\ a < b + Ring /\ b < a + Ring
  BY OutputBounds
<1> HIDE DEF Ring
<1>1. CASE a <= b
  BY <1>0, <1>1, RemaindersDiffer
<1>2. CASE b <= a
  BY <1>0, <1>2, RemaindersDiffer
<1> QED
  BY <1>1, <1>2

LEMMA InRing == ASSUME NEW a \in Nat PROVE a % Ring \in 0 .. Ring - 1
BY OutputBounds

LEMMA OutputInvInit == OutputInit => OutputInv
BY OutputBounds DEF OutputInit, OutputInv, RingInv, RingShape, Numbered, WriterPlace, FeederPlace,
   EmptyRing, FeederIdle

(* A ring that was emptied for a new stream. *)
LEMMA FreshRing ==
  ASSUME ring' = EmptyRing, fraction' = 0, writer'.pc = "idle", feeder'.pc # "deliver"
  PROVE  RingInv'
BY OutputBounds DEF RingInv, RingShape, Numbered, WriterPlace, FeederPlace, EmptyRing

(* Steps that leave ring, cursor, writer and feeder as they were. *)
LEMMA RingKept ==
  ASSUME OutputInv, UNCHANGED <<ring, fraction, writer, flushRaced>>,
         feeder' = feeder \/ feeder'.pc # "deliver"
  PROVE  OutputInv'
<1>1. CASE flushRaced
  BY <1>1 DEF OutputInv
<1>2. CASE RingInv
  BY <1>2 DEF OutputInv, RingInv, RingShape, Numbered, WriterPlace, FeederPlace, Consumed
<1> QED
  BY <1>1, <1>2 DEF OutputInv

(* A round begins. *)
LEMMA RoundBegins ==
  ASSUME OutputInv, UNCHANGED <<ring, fraction, writer, flushRaced>>,
         feeder'.pc = "deliver", feeder'.read = ring.read, feeder'.write = ring.write,
         feeder'.step \in Phase - 1 .. Phase + 1,
         RingInv =>
           /\ feeder'.frames \in Nat
           /\ \A n \in 0 .. feeder'.frames : Consumed(n, feeder'.step) \in 0 .. Queued
  PROVE  OutputInv'
<1>1. CASE flushRaced
  BY <1>1 DEF OutputInv
<1>2. CASE RingInv
  BY <1>2 DEF OutputInv, RingInv, RingShape, Numbered, WriterPlace, FeederPlace, Consumed, Queued, Used
<1> QED
  BY <1>1, <1>2 DEF OutputInv

LEMMA StepNearPhase == \A queued : Step(queued) \in Phase - 1 .. Phase + 1
BY OutputBounds DEF Step

(* The device took some of the frames. *)
LEMMA RingAdvances ==
  ASSUME OutputInv, feeder.pc = "deliver", NEW n \in 0 .. feeder.frames, Advance(n),
         UNCHANGED <<writer, flushRaced>>
  PROVE  OutputInv'
<1> USE OutputBounds
<1>1. CASE flushRaced
  BY <1>1 DEF OutputInv
<1>2. CASE RingInv
  <2> DEFINE c == Consumed(n, feeder.step)
  <2>1. c \in 0 .. feeder.write - feeder.read
    BY <1>2 DEF RingInv, FeederPlace
  <2>2. ring' = [ring EXCEPT !.read = ring.read + c] /\ fraction' = PhaseLeft(n, feeder.step)
        /\ feeder' = FeederIdle
    BY <1>2 DEF Advance, RingInv, FeederPlace
  <2> HIDE DEF c
  <2>3. /\ ring'.write = ring.write /\ ring'.slots = ring.slots /\ DOMAIN ring' = DOMAIN ring
        /\ ring'.read = ring.read + c
    BY <1>2, <2>2 DEF RingInv, RingShape
  <2>a. /\ ring.read \in Nat /\ ring.write \in Nat /\ c \in Nat /\ ring.read + c <= ring.write
        /\ ring.write - ring.read <= Ring
    BY <1>2, <2>1 DEF RingInv, RingShape, FeederPlace
  <2>b. RingShape'
    <3> HIDE DEF Ring
    <3> QED
      BY <1>2, <2>3, <2>a DEF RingInv, RingShape
  <2>4. fraction' \in 0 .. Phase - 1
    <3> DEFINE a == fraction + n * feeder.step
    <3>1. \A x \in Int : x % Phase \in 0 .. Phase - 1
      OBVIOUS
    <3>2. a \in Int
      <4>1. n \in Int /\ feeder.step \in Int /\ fraction \in Int
        BY <1>2 DEF RingInv, FeederPlace
      <4> QED
        BY <4>1
    <3> HIDE DEF a
    <3> QED
      BY <2>2, <3>1, <3>2 DEF PhaseLeft, a
  <2>5. Numbered(ring.read, ring.write)'
    <3> SUFFICES ASSUME NEW f \in ring'.read .. ring'.write - 1
                 PROVE  ring'.slots[f % Ring] = f
      BY DEF Numbered
    <3>1. f \in ring.read .. ring.write - 1
      BY <2>3, <2>a
    <3> QED
      BY <1>2, <2>3, <3>1 DEF RingInv, Numbered
  <2>c. WriterPlace'
    <3> HIDE DEF Ring
    <3>1. Numbered(ring.write, ring.write + writer.frames)' = Numbered(ring.write, ring.write + writer.frames)
      BY <2>3 DEF Numbered
    <3> QED
      BY <1>2, <2>3, <2>a, <3>1 DEF RingInv, WriterPlace
  <2>6. FeederPlace'
    BY <2>2 DEF FeederPlace, FeederIdle
  <2> QED
    BY <1>2, <2>4, <2>5, <2>6, <2>b, <2>c DEF OutputInv, RingInv
<1> QED
  BY <1>1, <1>2 DEF OutputInv

(* A block goes into slots that are neither queued nor delivered. *)
LEMMA BlockCopied == ASSUME OutputInv, WriteCopy PROVE OutputInv'
<1> USE OutputBounds
<1>1. CASE flushRaced
  BY <1>1 DEF OutputInv, WriteCopy
<1>2. CASE RingInv
  <2> DEFINE w == ring.write  n == writer.frames
             copied == w .. w + n - 1
             slots == [i \in DOMAIN ring.slots |->
                         IF \E k \in 0 .. n - 1 : (w + k) % Ring = i
                         THEN CHOOSE f \in copied : f % Ring = i ELSE ring.slots[i]]
  <2>0. /\ ring' = [ring EXCEPT !.slots = slots] /\ writer' = [writer EXCEPT !.pc = "store"]
        /\ writer.pc = "copy" /\ UNCHANGED <<fraction, feeder, flushRaced>>
    BY <1>2 DEF WriteCopy
  <2>1. w \in Nat /\ n \in Nat /\ ring.read \in Nat /\ ring.read <= w /\ w + n - ring.read <= Ring
    BY <1>2, <2>0 DEF RingInv, RingShape, WriterPlace
  <2>2. DOMAIN ring.slots = 0 .. Ring - 1
    BY <1>2 DEF RingInv, RingShape
  <2> HIDE DEF Ring
  <2>3. ASSUME NEW f \in ring.read .. w - 1
        PROVE  slots[f % Ring] = ring.slots[f % Ring]
    <3>1. f \in Nat /\ f % Ring \in 0 .. Ring - 1
      BY <2>1, InRing
    <3>2. ASSUME NEW k \in 0 .. n - 1, (w + k) % Ring = f % Ring
          PROVE  FALSE
      <4>1. w + k \in Nat /\ ring.read <= f /\ f < ring.read + Ring /\ ring.read <= w + k
            /\ w + k < ring.read + Ring /\ f # w + k
        BY <2>1
      <4> QED
        BY <2>1, <3>1, <3>2, <4>1, SlotsDiffer
    <3> QED
      BY <2>2, <3>1, <3>2
  <2>4. ASSUME NEW f \in copied
        PROVE  slots[f % Ring] = f
    <3>1. f \in Nat /\ f % Ring \in 0 .. Ring - 1
      BY <2>1, InRing
    <3>2. \E k \in 0 .. n - 1 : (w + k) % Ring = f % Ring
      <4>1. f - w \in 0 .. n - 1 /\ w + (f - w) = f
        BY <2>1
      <4> QED
        BY <4>1
    <3> DEFINE g == CHOOSE g \in copied : g % Ring = f % Ring
    <3>3. g \in copied /\ g % Ring = f % Ring
      OBVIOUS
    <3>4. slots[f % Ring] = g
      BY <2>2, <3>1, <3>2
    <3> HIDE DEF g
    <3>5. g \in Nat /\ ring.read <= f /\ ring.read <= g /\ f < ring.read + Ring /\ g < ring.read + Ring
      BY <2>1, <3>3
    <3>6. g = f
      BY <2>1, <3>1, <3>3, <3>5, SlotsDiffer
    <3> QED
      BY <3>4, <3>6
  <2>5. DOMAIN slots = 0 .. Ring - 1
    BY <2>2
  <2> HIDE DEF slots
  <2>6. ring'.slots = slots /\ ring'.read = ring.read /\ ring'.write = w /\ DOMAIN ring' = DOMAIN ring
    BY <1>2, <2>0 DEF RingInv, RingShape
  <2>7. RingShape'
    BY <1>2, <2>5, <2>6 DEF RingInv, RingShape
  <2>8. Numbered(ring.read, ring.write)'
    BY <1>2, <2>3, <2>6 DEF RingInv, Numbered
  <2>9. writer'.pc = "store" /\ writer'.frames = n /\ DOMAIN writer' = DOMAIN writer
    BY <2>0 DEF OutputInv
  <2>10. WriterPlace'
    BY <2>1, <2>4, <2>6, <2>9 DEF WriterPlace, Numbered
  <2>11. FeederPlace'
    BY <1>2, <2>0, <2>6 DEF RingInv, FeederPlace, Consumed
  <2> QED
    BY <1>2, <2>0, <2>7, <2>8, <2>9, <2>10, <2>11 DEF OutputInv, RingInv
<1> QED
  BY <1>1, <1>2 DEF OutputInv

LEMMA BlockStored == ASSUME OutputInv, WriteStore PROVE OutputInv'
<1> USE OutputBounds
<1>1. CASE flushRaced
  BY <1>1 DEF OutputInv, WriteStore
<1>2. CASE RingInv
  <2>1. /\ ring.write \in Nat /\ writer.frames \in Nat /\ ring.read \in Nat
        /\ ring.write + writer.frames - ring.read <= Ring
        /\ Numbered(ring.write, ring.write + writer.frames)
    BY <1>2 DEF WriteStore, RingInv, RingShape, WriterPlace
  <2>2. /\ ring'.write = ring.write + writer.frames /\ ring'.read = ring.read
        /\ ring'.slots = ring.slots /\ DOMAIN ring' = DOMAIN ring
        /\ writer'.pc = "idle" /\ DOMAIN writer' = DOMAIN writer
    BY <1>2 DEF WriteStore, RingInv, RingShape, OutputInv
  <2>3. RingShape'
    <3> HIDE DEF Ring
    <3> QED
      BY <1>2, <2>1, <2>2 DEF RingInv, RingShape
  <2>5. Numbered(ring.read, ring.write)'
    <3> SUFFICES ASSUME NEW f \in ring'.read .. ring'.write - 1
                 PROVE  ring'.slots[f % Ring] = f
      BY DEF Numbered
    <3>1. \/ f \in ring.read .. ring.write - 1
          \/ f \in ring.write .. ring.write + writer.frames - 1
      BY <2>1, <2>2
    <3> QED
      BY <1>2, <2>1, <2>2, <3>1 DEF RingInv, Numbered
  <2>4. WriterPlace' /\ FeederPlace'
    <3>1. FeederPlace /\ UNCHANGED <<feeder, fraction>>
      BY <1>2 DEF WriteStore, RingInv
    <3>2. \A n \in 0 .. feeder.frames : Consumed(n, feeder.step)' = Consumed(n, feeder.step)
      BY <3>1 DEF Consumed
    <3> HIDE DEF Ring
    <3> QED
      BY <2>1, <2>2, <3>1, <3>2 DEF WriterPlace, FeederPlace
  <2> QED
    BY <1>2, <2>2, <2>3, <2>4, <2>5 DEF WriteStore, OutputInv, RingInv
<1> QED
  BY <1>1, <1>2 DEF OutputInv

LEMMA OutputInvStep == OutputInv /\ [OutputNext]_outputVars => OutputInv'
<1> SUFFICES ASSUME OutputInv, [OutputNext]_outputVars PROVE OutputInv'
  OBVIOUS
<1> USE OutputBounds
<1>1. CASE Feeder
  <2>1. CASE AlsaRound
    <3>1. CASE feeder' = feeder
      BY <2>1, <3>1, RingKept DEF AlsaRound, FeederOnly
    <3>2. CASE feeder' # feeder
      <4> DEFINE wanted == Least(Queued, MaxBlock)
                 n == Deliverable(wanted, Queued, Step(Queued))
      <4>1. /\ feeder' = [pc |-> IF n = 0 THEN "idle" ELSE "deliver", read |-> ring.read,
                          write |-> ring.write, frames |-> n, step |-> Step(Queued)]
            /\ UNCHANGED <<ring, fraction, writer, flushRaced>>
        BY <2>1, <3>2 DEF AlsaRound, FeederOnly, Round
      <4>2. RingInv => n \in Nat /\ \A i \in 0 .. n : Consumed(i, Step(Queued)) \in 0 .. Queued
        <5> SUFFICES ASSUME RingInv
                     PROVE  n \in Nat /\ \A i \in 0 .. n : Consumed(i, Step(Queued)) \in 0 .. Queued
          OBVIOUS
        <5>1. Queued \in Nat /\ wanted \in Nat /\ fraction \in 0 .. Phase - 1
          BY DEF RingInv, RingShape, Queued, Used, Least
        <5>2. Step(Queued) \in Phase - 1 .. Phase + 1
          BY StepNearPhase
        <5>3. /\ n \in 0 .. wanted
              /\ \A i \in 0 .. n : Consumed(i, Step(Queued)) \in 0 .. Queued
          <6> HIDE DEF wanted
          <6> QED
            BY <5>1, <5>2, DeliverableFits, Zenon
        <5> HIDE DEF n, wanted
        <5> QED
          BY <5>1, <5>3
      <4> HIDE DEF n
      <4>3. CASE n = 0
        BY <4>1, <4>3, RingKept
      <4>4. CASE n # 0
        BY <4>1, <4>2, <4>4, StepNearPhase, RoundBegins
      <4> QED
        BY <4>3, <4>4
    <3> QED
      BY <3>1, <3>2
  <2>2. CASE AlsaWrites
    <3>1. PICK n \in 1 .. feeder.frames : Advance(n)
      BY <2>2 DEF AlsaWrites
    <3>2. CASE flushRaced
      BY <2>2, <3>2 DEF AlsaWrites, FeederOnly, OutputInv
    <3>3. CASE RingInv
      <4>1. n \in 0 .. feeder.frames
        BY <2>2, <3>3 DEF AlsaWrites, RingInv, FeederPlace
      <4> QED
        BY <2>2, <3>1, <4>1, RingAdvances DEF AlsaWrites, FeederOnly
    <3> QED
      BY <3>2, <3>3 DEF OutputInv
  <2>3. CASE AlsaAgain \/ AlsaFails \/ \E u \in BOOLEAN : AlsaRecovers(u)
    BY <2>3, RingKept DEF AlsaAgain, AlsaFails, AlsaRecovers, FeederOnly, FeederIdle
  <2>4. CASE PipeWireStores
    <3>2. CASE flushRaced
      BY <2>4, <3>2 DEF PipeWireStores, FeederOnly, OutputInv
    <3>3. CASE RingInv
      <4>1. feeder.frames \in 0 .. feeder.frames
        BY <2>4, <3>3 DEF PipeWireStores, RingInv, FeederPlace
      <4> QED
        BY <2>4, <4>1, RingAdvances DEF PipeWireStores, FeederOnly
    <3> QED
      BY <3>2, <3>3 DEF OutputInv
  <2>5. ASSUME NEW wanted \in 1 .. MaxBlock, PipeWireRound(wanted)
        PROVE  OutputInv'
    <3> DEFINE ready == ReadyWith(Queued, wanted)
               n == IF ready THEN Deliverable(wanted, Queued, Step(Queued)) ELSE 0
               step == IF ready THEN Step(Queued) ELSE Phase
    <3>1. /\ feeder' = [pc |-> "deliver", read |-> ring.read, write |-> ring.write, frames |-> n,
                        step |-> step]
          /\ UNCHANGED <<ring, fraction, writer, flushRaced>>
      BY <2>5 DEF PipeWireRound, FeederOnly
    <3>2. step \in Phase - 1 .. Phase + 1
      BY StepNearPhase
    <3>3. RingInv => n \in Nat /\ \A i \in 0 .. n : Consumed(i, step) \in 0 .. Queued
      <4> SUFFICES ASSUME RingInv PROVE n \in Nat /\ \A i \in 0 .. n : Consumed(i, step) \in 0 .. Queued
        OBVIOUS
      <4>1. Queued \in Nat /\ wanted \in Nat /\ fraction \in 0 .. Phase - 1
        BY DEF RingInv, RingShape, Queued, Used
      <4>2. CASE ready
        <5>1. Step(Queued) \in Phase - 1 .. Phase + 1
          BY StepNearPhase
        <5>2. n = Deliverable(wanted, Queued, Step(Queued)) /\ step = Step(Queued)
          BY <4>2
        <5>3. /\ Deliverable(wanted, Queued, Step(Queued)) \in 0 .. wanted
              /\ \A i \in 0 .. Deliverable(wanted, Queued, Step(Queued)) :
                   Consumed(i, Step(Queued)) \in 0 .. Queued
          BY <4>1, <5>1, DeliverableFits, Zenon
        <5> HIDE DEF n, step
        <5> QED
          BY <4>1, <5>2, <5>3
      <4>3. CASE ~ ready
        <5>1. fraction + 0 * Phase = fraction /\ fraction \div Phase = 0
          BY <4>1
        <5> QED
          BY <4>1, <4>3, <5>1 DEF Consumed
      <4> QED
        BY <4>2, <4>3
    <3> HIDE DEF n, step
    <3> QED
      BY <3>1, <3>2, <3>3, RoundBegins
  <2> QED
    BY <1>1, <2>1, <2>2, <2>3, <2>4, <2>5 DEF Feeder
<1>2. CASE Open
  BY <1>2, FreshRing DEF Open, Reset, ModuleIdle, FeederIdle, OutputInv
<1>3. CASE OpenFails \/ OpenWaited \/ OpenTimesOut \/ OpenMarks \/ Close \/ Closed
  BY <1>3, RingKept
     DEF OpenFails, OpenWaited, OpenTimesOut, OpenMarks, Close, Closed, FeederIdle
<1>4. CASE WriteCopy \/ WriteStore
  BY <1>4, BlockCopied, BlockStored
<1>5. CASE Blocks
  <2>1. PICK n \in 1 .. MaxBlock, valid \in BOOLEAN : ProcessBlock(n, valid)
    BY <1>5 DEF Blocks
  <2>2. CASE writer' = writer
    BY <2>1, <2>2, RingKept DEF ProcessBlock
  <2>3. CASE writer' # writer
    <3>1. /\ writer' = [pc |-> "copy", frames |-> n] /\ Fits(n)
          /\ UNCHANGED <<ring, fraction, feeder, flushRaced>>
      BY <2>1, <2>3 DEF ProcessBlock
    <3>2. CASE flushRaced
      BY <3>1, <3>2 DEF OutputInv
    <3>3. CASE RingInv
      <4>1. ring.write + n - ring.read <= Ring
        <5> HIDE DEF Ring
        <5> QED
          BY <3>1, <3>3 DEF RingInv, RingShape, Fits, Used
      <4>2. WriterPlace'
        BY <3>1, <4>1 DEF WriterPlace
      <4> QED
        BY <3>1, <3>3, <4>2 DEF OutputInv, RingInv, RingShape, Numbered, FeederPlace, Consumed
    <3> QED
      BY <3>2, <3>3 DEF OutputInv
  <2> QED
    BY <2>2, <2>3
<1>6. CASE Stream
  <2>1. CASE StreamLives
    BY <2>1, RingKept DEF StreamLives, FeederIdle
  <2>2. ASSUME NEW to \in {"error", "unconnected"}, StreamEnds(to)
        PROVE  OutputInv'
    <3>1. UNCHANGED <<fraction, writer, feeder>>
      BY <2>2 DEF StreamEnds
    <3>2. CASE flushRaced'
      BY <3>1, <3>2 DEF OutputInv
    <3>3. CASE ~ flushRaced'
      <4>1. RingInv /\ feeder.pc # "deliver" /\ writer.pc = "idle"
        BY <2>2, <3>3 DEF StreamEnds, OutputInv
      <4>2. ring' = [ring EXCEPT !.read = ring.write]
        BY <2>2 DEF StreamEnds
      <4>3. RingShape' /\ ring'.read = ring'.write /\ ring'.write \in Nat
        BY <4>1, <4>2 DEF RingInv, RingShape
      <4> QED
        BY <3>1, <4>1, <4>3 DEF OutputInv, RingInv, Numbered, WriterPlace, FeederPlace
    <3> QED
      BY <3>2, <3>3
  <2> QED
    BY <1>6, <2>1, <2>2 DEF Stream
<1>7. CASE UNCHANGED outputVars
  BY <1>7, RingKept DEF outputVars
<1> QED
  BY <1>1, <1>2, <1>3, <1>4, <1>5, <1>6, <1>7 DEF OutputNext, Module

(* No frame that is queued or being delivered is overwritten, and the       *)
(* cursor never passes the writer, for every size of blocks, periods and    *)
(* device buffer, at any drift, unless a stream change flushed the ring     *)
(* under a running callback.                                                *)
THEOREM WindowStaysIntact == OutputSpec => []WindowIntact
<1>1. OutputInv => WindowIntact
  <2> SUFFICES ASSUME RingInv PROVE WindowIntact
    BY DEF OutputInv, WindowIntact
  <2>1. feeder.pc = "deliver" => \A f \in feeder.read .. feeder.write - 1 : f \in ring.read .. ring.write - 1
    BY DEF RingInv, RingShape, FeederPlace
  <2> QED
    BY <2>1 DEF RingInv, RingShape, Numbered, WindowIntact
<1> QED
  BY <1>1, OutputInvInit, OutputInvStep, PTL DEF OutputSpec

-----------------------------------------------------------------------------
(* The CUE button                                                          *)

Controls == {"down", "hold", "up", "play", "pause", "rate"}
CueFields == {"playing", "at", "point", "preview", "held", "hold", "asked", "flying"}
CueShapes ==
  /\ DOMAIN surface = {"on", "view", "held", "gesture", "expected"}
  /\ DOMAIN deck = {"queue", "release", "rate", "at", "out"}
  /\ DOMAIN cue = CueFields
  /\ deck.queue \in Seq(Controls) /\ deck.out \in Seq(Controls) /\ block \in Seq(Controls)
  /\ surface.held => surface.on

(* A press is answered in a sequence of controls by a release after it.  On *)
(* the way from the deck's queue to the block the player sees, a press is   *)
(* answered where it stands or by any release behind it.                    *)
Ups(s) == \E i \in DOMAIN s : s[i] = "up"
Answered(s) == \A i \in DOMAIN s : s[i] = "down" => \E j \in DOMAIN s : i < j /\ s[j] = "up"
Active(r) == r.preview \/ r.held
AllAnswered ==
  /\ Answered(deck.queue)
  /\ Answered(deck.out) \/ Ups(deck.queue)
  /\ Answered(block) \/ Ups(deck.out) \/ Ups(deck.queue)
  /\ Active(cue) => Ups(block) \/ Ups(deck.out) \/ Ups(deck.queue)
CueInv == CueShapes /\ (surface.held \/ deck.release \/ excused \/ AllAnswered)

LEMMA CueInvInit == CueInit => CueInv
BY DEF CueInit, CueInv, CueShapes, CueFields, AllAnswered, Answered, Ups, Active, NewSurface

LEMMA Appended ==
  ASSUME NEW s \in Seq(Controls), NEW x \in Controls
  PROVE  /\ Append(s, x) \in Seq(Controls)
         /\ x = "up" => Ups(Append(s, x)) /\ Answered(Append(s, x))
         /\ Ups(s) => Ups(Append(s, x))
         /\ Ups(Append(s, x)) => Ups(s) \/ x = "up"
         /\ Answered(s) /\ x # "down" => Answered(Append(s, x))
<1> DEFINE t == Append(s, x)
<1>1. /\ t \in Seq(Controls) /\ Len(t) = Len(s) + 1 /\ Len(s) \in Nat /\ t[Len(s) + 1] = x
      /\ \A i \in 1 .. Len(s) : t[i] = s[i]
  BY AppendProperties, LenProperties
<1>2. DOMAIN s = 1 .. Len(s) /\ DOMAIN t = 1 .. Len(t)
  BY <1>1, LenProperties
<1> HIDE DEF t
<1>3. x = "up" => Ups(t) /\ Answered(t)
  <2> SUFFICES ASSUME x = "up" PROVE Ups(t) /\ Answered(t)
    OBVIOUS
  <2>1. Len(t) \in DOMAIN t /\ t[Len(t)] = "up"
    BY <1>1, <1>2
  <2>2. ASSUME NEW i \in DOMAIN t, t[i] = "down"
        PROVE  i < Len(t)
    BY <1>1, <1>2, <2>1, <2>2
  <2> QED
    BY <2>1, <2>2 DEF Ups, Answered
<1>4. Ups(s) => Ups(t)
  BY <1>1, <1>2 DEF Ups
<1>5. Ups(t) => Ups(s) \/ x = "up"
  BY <1>1, <1>2 DEF Ups
<1>6. Answered(s) /\ x # "down" => Answered(t)
  <2> SUFFICES ASSUME Answered(s), x # "down", NEW i \in DOMAIN t, t[i] = "down"
               PROVE  \E j \in DOMAIN t : i < j /\ t[j] = "up"
    BY DEF Answered
  <2>1. i \in DOMAIN s /\ s[i] = "down"
    BY <1>1, <1>2
  <2>2. PICK j \in DOMAIN s : i < j /\ s[j] = "up"
    BY <2>1 DEF Answered
  <2> QED
    BY <1>1, <1>2, <2>2
<1> QED
  BY <1>1, <1>3, <1>4, <1>5, <1>6 DEF t

(* What is popped from the queue goes to the end of the block. *)
LEMMA PoppedControl ==
  ASSUME NEW q \in Seq(Controls), q # <<>>
  PROVE  /\ Head(q) \in Controls /\ Tail(q) \in Seq(Controls)
         /\ Ups(q) => Ups(Tail(q)) \/ Head(q) = "up"
         /\ Ups(Tail(q)) => Ups(q)
         /\ Answered(q) => Answered(Tail(q)) /\ (Head(q) = "down" => Ups(Tail(q)))
<1> DEFINE t == Tail(q)
<1>1. Len(q) \in Nat \ {0} /\ DOMAIN q = 1 .. Len(q)
  BY EmptySeq, LenProperties
<1>2. /\ Head(q) \in Controls /\ t \in Seq(Controls) /\ Head(q) = q[1] /\ Len(t) = Len(q) - 1
      /\ \A i \in 1 .. Len(t) : t[i] = q[i + 1]
  BY <1>1, HeadTailProperties, ElementOfSeq
<1>3. DOMAIN t = 1 .. Len(t)
  BY <1>2, LenProperties
<1> HIDE DEF t
<1>4. \A i \in DOMAIN q : i # 1 => i - 1 \in DOMAIN t /\ t[i - 1] = q[i]
  BY <1>1, <1>2, <1>3
<1>5. \A i \in DOMAIN t : i + 1 \in DOMAIN q /\ q[i + 1] = t[i]
  BY <1>1, <1>2, <1>3
<1>6. Ups(q) => Ups(t) \/ Head(q) = "up"
  BY <1>2, <1>4 DEF Ups
<1>7. Ups(t) => Ups(q)
  BY <1>5 DEF Ups
<1>8. ASSUME Answered(q)
      PROVE  Answered(t) /\ (Head(q) = "down" => Ups(t))
  <2>1. ASSUME NEW i \in DOMAIN t, t[i] = "down"
        PROVE  \E j \in DOMAIN t : i < j /\ t[j] = "up"
    <3>1. PICK j \in DOMAIN q : i + 1 < j /\ q[j] = "up"
      BY <1>5, <1>8, <2>1 DEF Answered
    <3>2. j # 1 /\ i < j - 1
      BY <1>1, <1>3, <2>1, <3>1
    <3> QED
      BY <1>4, <3>1, <3>2
  <2>2. ASSUME Head(q) = "down"
        PROVE  Ups(t)
    <3>1. PICK j \in DOMAIN q : 1 < j /\ q[j] = "up"
      BY <1>1, <1>2, <1>8, <2>2 DEF Answered
    <3> QED
      BY <1>1, <1>4, <3>1 DEF Ups
  <2> QED
    BY <2>1, <2>2 DEF Answered
<1> QED
  BY <1>2, <1>6, <1>7, <1>8 DEF t

LEMMA NoControls == <<>> \in Seq(Controls) /\ ~ Ups(<<>>) /\ Answered(<<>>)
BY DEF Ups, Answered

LEMMA UpsInSet == ASSUME NEW s \in Seq(Controls) PROVE "up" \in ToSet(s) <=> Ups(s)
BY DEF ToSet, Ups

(* The controls of a block are applied one after the other. *)
Rendered(r, near) == FoldLeft(LAMBDA acc, type : ApplyControl(acc, type, near), r, block)
LEMMA ControlsInOrder ==
  ASSUME NEW r, NEW near, block \in Seq(Controls)
  PROVE  \E g : /\ g[0] = r
                /\ \A k \in 1 .. Len(block) : g[k] = ApplyControl(g[k - 1], block[k], near)
                /\ g[Len(block)] = Rendered(r, near)
<1> DEFINE Then(f, s) == IF s = {} THEN r
                         ELSE ApplyControl(f[s \ {Max(s)}], block[Max(s)], near)
           Folds(n, f) == f = [s \in SUBSET (1 .. n) |-> Then(f, s)]
           n == Len(block)
           bad == {m \in Nat : ~ \E f : Folds(m, f)}
<1>1. n \in Nat /\ DOMAIN block = 1 .. n
  BY LenProperties
<1>2. \E f : Folds(0, f)
  <2> DEFINE f == [s \in SUBSET (1 .. 0) |-> r]
  <2>1. \A s \in SUBSET (1 .. 0) : Then(f, s) = r
    OBVIOUS
  <2>2. Folds(0, f)
    BY <2>1
  <2> QED
    BY <2>2
<1>3. ASSUME NEW m \in Nat, NEW f, Folds(m, f)
      PROVE  \E h : Folds(m + 1, h)
  <2> DEFINE h == [s \in SUBSET (1 .. m + 1) |->
                     IF m + 1 \in s THEN ApplyControl(f[s \ {m + 1}], block[m + 1], near) ELSE f[s]]
  <2>1. ASSUME NEW s \in SUBSET (1 .. m + 1)
        PROVE  h[s] = Then(h, s)
    <3>1. CASE m + 1 \in s
      <4>1. Max(s) = m + 1
        <5>1. \A y \in s : m + 1 >= y
          OBVIOUS
        <5>2. \A x \in s : (\A y \in s : x >= y) => x = m + 1
          BY <3>1, <5>1
        <5> QED
          BY <3>1, <5>1, <5>2 DEF Max
      <4>2. s \ {m + 1} \in SUBSET (1 .. m) /\ s \ {m + 1} \in SUBSET (1 .. m + 1)
        OBVIOUS
      <4>3. h[s \ {m + 1}] = f[s \ {m + 1}]
        BY <4>2
      <4>4. h[s] = ApplyControl(f[s \ {m + 1}], block[m + 1], near)
        BY <3>1
      <4> HIDE DEF h
      <4> QED
        BY <3>1, <4>1, <4>3, <4>4
    <3>2. CASE m + 1 \notin s
      <4>1. s \in SUBSET (1 .. m)
        BY <3>2
      <4>2. h[s] = f[s] /\ h[s \ {Max(s)}] = f[s \ {Max(s)}]
        BY <3>2
      <4>3. f[s] = Then(f, s)
        BY <1>3, <4>1
      <4> HIDE DEF h
      <4> QED
        BY <4>2, <4>3
    <3> QED
      BY <3>1, <3>2
  <2>2. Folds(m + 1, h)
    <3>1. h = [s \in SUBSET (1 .. m + 1) |-> h[s]]
      OBVIOUS
    <3> HIDE DEF h, Then
    <3> QED
      BY <2>1, <3>1
  <2> QED
    BY <2>2
<1>4. \E f : Folds(n, f)
  <2> HIDE DEF Folds, n
  <2>1. SUFFICES ASSUME n \in bad PROVE FALSE
    BY <1>1
  <2>2. PICK m \in bad : \A k \in bad : m <= k
    BY <2>1, SmallestNumber
  <2>3. m # 0 /\ m \in Nat
    BY <1>2, <2>2
  <2>4. m - 1 \in Nat /\ m - 1 \notin bad
    BY <2>2, <2>3
  <2>5. PICK f : Folds(m - 1, f)
    BY <2>4
  <2>6. \E h : Folds(m - 1 + 1, h)
    BY <1>3, <2>4, <2>5
  <2> QED
    BY <2>2, <2>3, <2>6
<1> DEFINE f == CHOOSE f : Folds(n, f)
<1>5. Folds(n, f)
  BY <1>4
<1>6. Rendered(r, near) = f[1 .. n]
  BY <1>1, Zenon DEF Rendered, FoldLeft, MapThenFoldSet
<1> HIDE DEF f
<1> DEFINE g == [k \in 0 .. n |-> f[1 .. k]]
<1>7. g[0] = r
  <2>1. 1 .. 0 = {} /\ {} \in SUBSET (1 .. n)
    OBVIOUS
  <2>2. f[{}] = r
    BY <1>5, <2>1
  <2> HIDE DEF n
  <2> QED
    BY <1>1, <2>1, <2>2
<1>8. ASSUME NEW k \in 1 .. n
      PROVE  g[k] = ApplyControl(g[k - 1], block[k], near)
  <2> HIDE DEF n, Then
  <2>1. 1 .. k \in SUBSET (1 .. n) /\ k \in 1 .. k /\ (1 .. k) \ {k} = 1 .. k - 1
        /\ k - 1 \in 0 .. n /\ k \in 0 .. n
    BY <1>1
  <2>2. Max(1 .. k) = k
    <3>1. \A y \in 1 .. k : k >= y
      OBVIOUS
    <3>2. \A x \in 1 .. k : (\A y \in 1 .. k : x >= y) => x = k
      BY <1>1, <2>1
    <3> QED
      BY <2>1, <3>1, <3>2 DEF Max
  <2>3. f[1 .. k] = Then(f, 1 .. k)
    BY <1>5, <2>1
  <2>4. Then(f, 1 .. k) = ApplyControl(f[1 .. k - 1], block[k], near)
    BY <2>1, <2>2 DEF Then
  <2> QED
    BY <2>1, <2>3, <2>4
<1>9. g[n] = f[1 .. n]
  BY <1>1
<1> HIDE DEF g
<1> QED
  BY <1>6, <1>7, <1>8, <1>9

(* Only a press makes the button active, and a release ends that. *)
LEMMA ControlEffect ==
  ASSUME NEW r, DOMAIN r = CueFields, NEW near, NEW type \in Controls
  PROVE  LET s == ApplyControl(r, type, near)
         IN /\ DOMAIN s = CueFields
            /\ type = "up" => ~ Active(s)
            /\ type # "down" /\ Active(s) => Active(r)
<1> USE DEF CueFields, Active
<1>1. CASE type = "down"
  BY <1>1 DEF ApplyControl, CueDown, ReturnToCue
<1>2. CASE type = "hold"
  BY <1>2 DEF ApplyControl, CueHold
<1>3. CASE type = "up"
  BY <1>3 DEF ApplyControl, CueUp, ReturnToCue
<1>4. CASE type \in {"play", "pause"}
  BY <1>4 DEF ApplyControl
<1>5. CASE type = "rate"
  BY <1>5 DEF ApplyControl
<1> QED
  BY <1>1, <1>2, <1>3, <1>4, <1>5 DEF Controls

(* After a block the button is active if it was and the block has no        *)
(* release, or if the block has a press without a release after it.         *)
LEMMA BlockEffect ==
  ASSUME block \in Seq(Controls), NEW r, DOMAIN r = CueFields, NEW near
  PROVE  LET s == Rendered(r, near)
         IN /\ DOMAIN s = CueFields
            /\ Active(s) => (Active(r) /\ ~ Ups(block)) \/ ~ Answered(block)
<1> DEFINE n == Len(block)
           s == Rendered(r, near)
<1>1. n \in Nat /\ DOMAIN block = 1 .. n /\ \A i \in 1 .. n : block[i] \in Controls
  BY LenProperties, ElementOfSeq
<1>2. PICK g : /\ g[0] = r /\ g[n] = s
               /\ \A k \in 1 .. n : g[k] = ApplyControl(g[k - 1], block[k], near)
  BY ControlsInOrder
<1> HIDE DEF n, s
<1> DEFINE Before(k) == Active(r) /\ \A i \in 1 .. k : block[i] # "up"
           Pressed1(k) == \E i \in 1 .. k : block[i] = "down" /\ \A j \in i + 1 .. k : block[j] # "up"
           Good(k) == DOMAIN g[k] = CueFields /\ (Active(g[k]) => Before(k) \/ Pressed1(k))
           bad == {k \in 0 .. n : ~ Good(k)}
<1>3. Good(0)
  BY <1>2
<1>4. ASSUME NEW k \in 1 .. n, Good(k - 1)
      PROVE  Good(k)
  <2> DEFINE s1 == g[k - 1]  s2 == g[k]  type == block[k]
  <2>1. type \in Controls /\ s2 = ApplyControl(s1, type, near) /\ DOMAIN s1 = CueFields
    BY <1>1, <1>2, <1>4
  <2> HIDE DEF s1, s2
  <2>2. /\ DOMAIN s2 = CueFields
        /\ type = "up" => ~ Active(s2)
        /\ type # "down" /\ Active(s2) => Active(s1)
    BY <2>1, ControlEffect
  <2>3. ASSUME Active(s2)
        PROVE  Before(k) \/ Pressed1(k)
    <3>1. CASE type = "down"
      BY <1>1, <3>1
    <3>2. CASE type # "down"
      <4>1. Active(s1) /\ type # "up"
        BY <2>2, <2>3, <3>2
      <4>2. CASE Before(k - 1)
        <5>1. \A i \in 1 .. k : i \in 1 .. k - 1 \/ i = k
          BY <1>1
        <5> QED
          BY <4>1, <4>2, <5>1
      <4>3. CASE Pressed1(k - 1)
        <5>1. PICK i \in 1 .. k - 1 : block[i] = "down" /\ \A j \in i + 1 .. k - 1 : block[j] # "up"
          BY <4>3
        <5>2. i \in 1 .. k /\ \A j \in i + 1 .. k : j \in i + 1 .. k - 1 \/ j = k
          BY <1>1
        <5> QED
          BY <4>1, <5>1, <5>2
      <4> QED
        BY <1>4, <4>1, <4>2, <4>3 DEF s1
    <3> QED
      BY <3>1, <3>2
  <2> QED
    BY <2>2, <2>3 DEF s2
<1>5. Good(n)
  <2> HIDE DEF Good
  <2>1. SUFFICES ASSUME n \in bad PROVE FALSE
    BY <1>1
  <2>2. PICK m \in bad : \A k \in bad : m <= k
    <3>1. bad \subseteq Nat
      BY <1>1
    <3> HIDE DEF bad
    <3> QED
      BY <2>1, <3>1, SmallestNumber
  <2>3. m \in 1 .. n
    BY <1>1, <1>3, <2>2
  <2>4. m - 1 \in 0 .. n /\ ~ (m - 1 \in bad)
    BY <1>1, <2>2, <2>3
  <2> QED
    BY <1>4, <2>2, <2>3, <2>4
<1>6. ASSUME Pressed1(n)
      PROVE  ~ Answered(block)
  <2>1. PICK i \in 1 .. n : block[i] = "down" /\ \A j \in i + 1 .. n : block[j] # "up"
    BY <1>6
  <2>2. \A j \in DOMAIN block : i < j => j \in i + 1 .. n
    BY <1>1
  <2> QED
    BY <1>1, <2>1, <2>2 DEF Answered
<1>7. Before(n) => Active(r) /\ ~ Ups(block)
  BY <1>1 DEF Ups
<1> QED
  BY <1>2, <1>5, <1>6, <1>7 DEF s

LEMMA AdoptedCue ==
  ASSUME DOMAIN cue = CueFields
  PROVE  LET adopted == IF landing = NoFrame THEN cue ELSE Prepare(cue, landing)
         IN DOMAIN adopted = CueFields /\ (Active(adopted) => Active(cue))
BY DEF Prepare, CueFields, Active

(* Steps that leave the controls on the way and the player's cue alone. *)
LEMMA ControlsKept ==
  ASSUME CueInv, CueShapes', UNCHANGED <<deck, block, cue>>,
         (surface.held => surface'.held \/ excused') /\ (excused => excused')
  PROVE  CueInv'
BY DEF CueInv, AllAnswered, Answered, Ups, Active

LEMMA CueInvStep == CueInv /\ [CueNext]_cueVars => CueInv'
<1> SUFFICES ASSUME CueInv, [CueNext]_cueVars PROVE CueInv'
  OBVIOUS
<1>0. /\ CueShapes /\ deck.queue \in Seq(Controls) /\ deck.out \in Seq(Controls)
      /\ block \in Seq(Controls)
  BY DEF CueInv, CueShapes
<1>q. ASSUME NEW type \in Controls
      PROVE  LET d == Queue(type)
             IN /\ DOMAIN d = DOMAIN deck /\ d.queue \in Seq(Controls) /\ d.out = deck.out
                /\ deck.release => d.release
                /\ type = "up" => d.release \/ (Ups(d.queue) /\ Answered(d.queue))
                /\ Ups(deck.queue) => Ups(d.queue)
                /\ Answered(deck.queue) /\ type # "down" => Answered(d.queue)
  BY <1>0, Appended DEF Queue, CueShapes
(* A control other than a press that is queued with nothing else changed. *)
<1>k. ASSUME NEW type \in Controls, type # "down", deck' = Queue(type), UNCHANGED <<block, cue, excused>>,
             DOMAIN surface' = DOMAIN surface, surface.held => surface'.held,
             surface'.held => surface'.on
      PROVE  CueInv'
  <2>1. CueShapes'
    BY <1>0, <1>q, <1>k DEF CueShapes
  <2> QED
    BY <1>q, <1>k, <2>1 DEF CueInv, AllAnswered, Active
(* The finger lets go: the release is queued, or given up. *)
<1>u. ASSUME \/ deck' = Queue("up")
             \/ deck' = deck /\ (surface.held => excused'),
             UNCHANGED <<block, cue>>, DOMAIN surface' = DOMAIN surface, ~ surface'.held,
             excused => excused'
      PROVE  CueInv'
  <2>1. "up" \in Controls
    BY DEF Controls
  <2>2. CueShapes'
    BY <1>0, <1>q, <1>u, <2>1 DEF CueShapes
  <2>3. CASE deck' = Queue("up")
    BY <1>q, <1>u, <2>1, <2>2, <2>3 DEF CueInv, AllAnswered, Active
  <2>4. CASE deck' = deck /\ (surface.held => excused')
    BY <1>u, <2>2, <2>4 DEF CueInv, AllAnswered, Active
  <2> QED
    BY <1>u, <2>3, <2>4
<1>1. CASE PressCue
  <2>1. /\ DOMAIN surface' = DOMAIN surface /\ surface'.held = TRUE
        /\ surface'.on = surface.on /\ surface.on
    BY <1>0, <1>1 DEF PressCue, CueShapes, Touch
  <2>2. "down" \in Controls
    BY DEF Controls
  <2> QED
    BY <1>0, <1>1, <1>q, <2>1, <2>2 DEF PressCue, player, CueInv, CueShapes
<1>2. CASE ReleaseCue
  <2>1. DOMAIN surface' = DOMAIN surface /\ ~ surface'.held
    BY <1>0, <1>2 DEF ReleaseCue, CueShapes
  <2> QED
    BY <1>2, <1>u, <2>1 DEF ReleaseCue, Excuse, player
<1>3. CASE HoldCue
  <2>1. /\ DOMAIN surface' = DOMAIN surface /\ surface'.held = surface.held
        /\ surface'.on = surface.on
    BY <1>0, <1>3 DEF HoldCue, CueShapes
  <2>2. "hold" \in Controls /\ "hold" # "down"
    BY DEF Controls
  <2> QED
    BY <1>3, <1>k, <2>1, <2>2 DEF HoldCue, player
<1>4. CASE ApplyStatus \/ LoseConnection
  <2>1. /\ DOMAIN surface' = DOMAIN surface /\ surface'.held = surface.held
        /\ surface'.on = surface.on
    BY <1>0, <1>4 DEF ApplyStatus, LoseConnection, Applied, CueShapes
  <2>2. UNCHANGED <<deck, block, cue, excused>>
    BY <1>4 DEF ApplyStatus, LoseConnection, player
  <2>3. CueShapes'
    BY <1>0, <2>1, <2>2 DEF CueShapes
  <2> QED
    BY <2>1, <2>2, <2>3, ControlsKept
<1>5. CASE ClickTransport
  <2>1. PICK type \in {"play", "pause"} : deck' = Queue(type) /\ surface' = [surface EXCEPT !.expected = type]
    BY <1>5 DEF ClickTransport
  <2>2. /\ DOMAIN surface' = DOMAIN surface /\ surface'.held = surface.held
        /\ surface'.on = surface.on
    BY <1>0, <2>1 DEF CueShapes
  <2>3. type \in Controls /\ type # "down"
    BY DEF Controls
  <2> QED
    BY <1>0, <1>5, <1>k, <2>1, <2>2, <2>3 DEF ClickTransport, player, CueShapes
<1>6. CASE MovePitch
  <2>1. "rate" \in Controls /\ "rate" # "down"
    BY DEF Controls
  <2> QED
    BY <1>0, <1>6, <1>k, <2>1 DEF MovePitch, player, CueShapes
<1>7. CASE CloseView
  <2>1. DOMAIN surface' = DOMAIN surface /\ ~ surface'.held
    BY <1>0, <1>7 DEF CloseView, NewSurface, CueShapes
  <2> QED
    BY <1>7, <1>u, <2>1 DEF CloseView, Excuse, player
<1>8. CASE DiscardControls
  <2>1. /\ deck' = [deck EXCEPT !.queue = <<>>, !.release = @ \/ Ups(deck.queue)]
        /\ UNCHANGED <<surface, block, cue, excused>>
    BY <1>0, <1>8, UpsInSet DEF DiscardControls, player
  <2>2. /\ deck'.queue = <<>> /\ deck'.out = deck.out /\ DOMAIN deck' = DOMAIN deck
        /\ deck'.release = (deck.release \/ Ups(deck.queue))
    BY <1>0, <2>1 DEF CueShapes
  <2> QED
    BY <1>0, <2>1, <2>2, NoControls DEF CueInv, CueShapes, AllAnswered, Active
<1>9. CASE EnableDeck
  <2>1. CueShapes'
    BY <1>0, <1>9 DEF EnableDeck, NewSurface, CueShapes, player
  <2>2. deck.queue = <<>> /\ UNCHANGED <<deck, block, cue, excused>>
    BY <1>9 DEF EnableDeck, player
  <2>3. ~ surface.held
    BY <1>0, <1>9 DEF EnableDeck, CueShapes
  <2> QED
    BY <1>9, <2>1, <2>2, <2>3, ControlsKept
<1>10. CASE PopControl
  <2>1. UNCHANGED <<surface, block, cue, excused>>
    BY <1>10 DEF PopControl, player
  <2>2. CASE HasRoom /\ deck.queue # <<>>
    <3>1. deck' = [deck EXCEPT !.at = "pop", !.out = Append(@, Head(deck.queue)), !.queue = Tail(@)]
      BY <1>10, <2>2 DEF PopControl
    <3>2. /\ DOMAIN deck' = DOMAIN deck /\ deck'.release = deck.release
          /\ deck'.out = Append(deck.out, Head(deck.queue)) /\ deck'.queue = Tail(deck.queue)
      BY <1>0, <3>1 DEF CueShapes
    <3>3. /\ Head(deck.queue) \in Controls /\ deck'.queue \in Seq(Controls)
          /\ Ups(deck.queue) => Ups(deck'.queue) \/ Head(deck.queue) = "up"
          /\ Answered(deck.queue) => Answered(deck'.queue) /\ (Head(deck.queue) = "down" => Ups(deck'.queue))
      BY <1>0, <2>2, <3>2, PoppedControl
    <3>4. /\ deck'.out \in Seq(Controls)
          /\ Head(deck.queue) = "up" => Ups(deck'.out) /\ Answered(deck'.out)
          /\ Ups(deck.out) => Ups(deck'.out)
          /\ Answered(deck.out) /\ Head(deck.queue) # "down" => Answered(deck'.out)
      BY <1>0, <3>2, <3>3, Appended
    <3>5. CueShapes'
      BY <1>0, <2>1, <3>2, <3>3, <3>4 DEF CueShapes
    <3> QED
      BY <2>1, <3>2, <3>3, <3>4, <3>5 DEF CueInv, AllAnswered, Active
  <2>3. CASE ~ (HasRoom /\ deck.queue # <<>>)
    <3>1. deck' = [deck EXCEPT !.at = "release"]
      BY <1>10, <2>3 DEF PopControl
    <3>2. /\ DOMAIN deck' = DOMAIN deck /\ deck'.release = deck.release
          /\ deck'.out = deck.out /\ deck'.queue = deck.queue
      BY <1>0, <3>1 DEF CueShapes
    <3> QED
      BY <1>0, <2>1, <3>2 DEF CueInv, CueShapes, AllAnswered, Active
  <2> QED
    BY <2>2, <2>3
<1>11. CASE TakeRelease
  <2>1. UNCHANGED <<surface, block, cue>> /\ (excused => excused')
    BY <1>11 DEF TakeRelease, Excuse, player
  <2>2. /\ DOMAIN deck' = DOMAIN deck /\ deck'.queue = deck.queue
        /\ deck'.out = IF HasRoom /\ deck.release THEN Append(deck.out, "up") ELSE deck.out
        /\ deck'.release = (deck.release /\ ~ HasRoom)
    BY <1>0, <1>11 DEF TakeRelease, CueShapes
  <2>3. CASE HasRoom /\ deck.release
    <3>1. deck'.out \in Seq(Controls) /\ Ups(deck'.out) /\ Answered(deck'.out)
      BY <1>0, <2>2, <2>3, Appended DEF Controls
    <3>2. CueShapes'
      BY <1>0, <2>1, <2>2, <3>1 DEF CueShapes
    <3>3. CASE deck.queue # <<>>
      BY <1>11, <2>3, <3>2, <3>3 DEF TakeRelease, Excuse, CueInv
    <3>4. CASE deck.queue = <<>>
      BY <2>2, <3>1, <3>2, <3>4, NoControls DEF CueInv, AllAnswered
    <3> QED
      BY <3>3, <3>4
  <2>4. CASE ~ (HasRoom /\ deck.release)
    <3>1. deck'.release = deck.release \/ ~ deck.release
      BY <2>2, <2>4
    <3>2. deck.release => deck'.release
      BY <2>2, <2>4
    <3>3. CueShapes'
      BY <1>0, <2>1, <2>2, <2>4 DEF CueShapes
    <3> QED
      BY <2>1, <2>2, <2>4, <3>2, <3>3 DEF CueInv, AllAnswered, Active
  <2> QED
    BY <2>3, <2>4
<1>12. CASE SendBlock
  <2>1. UNCHANGED <<surface, cue>>
    BY <1>12 DEF SendBlock, player
  <2>2. /\ DOMAIN deck' = DOMAIN deck /\ deck'.queue = deck.queue /\ deck'.out = <<>>
        /\ deck'.release = deck.release
    BY <1>0, <1>12 DEF SendBlock, CueShapes
  <2>3. /\ block' \in Seq(Controls) /\ (Ups(deck.out) => Ups(block'))
        /\ Answered(deck.out) => Answered(block')
    <3>1. "rate" \in Controls /\ "rate" # "down"
      BY DEF Controls
    <3> QED
      BY <1>0, <1>12, <3>1, Appended DEF SendBlock
  <2>4. excused' = (excused \/ Ups(block))
    BY <1>0, <1>12, UpsInSet DEF SendBlock, Excuse
  <2>5. CueShapes'
    BY <1>0, <2>1, <2>2, <2>3, NoControls DEF CueShapes
  <2> QED
    BY <2>1, <2>2, <2>3, <2>4, <2>5, NoControls DEF CueInv, AllAnswered, Active
<1>13. CASE RenderCue
  <2> DEFINE adopted == IF landing = NoFrame THEN cue ELSE Prepare(cue, landing)
             r(near) == Rendered(adopted, near)
  <2>1. PICK near \in BOOLEAN : \E at : cue' = [r(near) EXCEPT !.at = at, !.asked = FALSE]
    BY <1>13 DEF RenderCue, Rendered
  <2>2. DOMAIN adopted = CueFields /\ (Active(adopted) => Active(cue))
    BY <1>0, AdoptedCue DEF CueShapes
  <2> HIDE DEF adopted
  <2>3. /\ DOMAIN r(near) = CueFields
        /\ Active(r(near)) => (Active(adopted) /\ ~ Ups(block)) \/ ~ Answered(block)
    BY <1>0, <2>2, BlockEffect
  <2> HIDE DEF r
  <2>4. DOMAIN cue' = CueFields /\ (Active(cue') => Active(r(near)))
    BY <2>1, <2>3 DEF CueFields, Active
  <2>5. UNCHANGED <<surface, deck, excused>> /\ block' = <<>>
    BY <1>13 DEF RenderCue
  <2>6. CueShapes'
    BY <1>0, <2>4, <2>5, NoControls DEF CueShapes
  <2> QED
    BY <2>2, <2>3, <2>4, <2>5, <2>6, NoControls DEF CueInv, AllAnswered
<1>14. CASE PublishSample \/ SeekCue \/ SeekElsewhere
  <2>1. UNCHANGED <<surface, deck, block, cue, excused>>
    BY <1>14 DEF PublishSample, SeekCue, SeekElsewhere, player
  <2>2. CueShapes'
    BY <1>0, <2>1 DEF CueShapes
  <2> QED
    BY <2>1, <2>2, ControlsKept
<1>15. CASE ReplaceTrack
  <2>1. UNCHANGED <<surface, deck, excused>> /\ block' = <<>>
    BY <1>15 DEF ReplaceTrack
  <2>2. DOMAIN cue' = CueFields /\ ~ Active(cue')
    BY <1>0, <1>15 DEF ReplaceTrack, CueShapes, CueFields, Active
  <2>3. CueShapes'
    BY <1>0, <2>1, <2>2, NoControls DEF CueShapes
  <2> QED
    BY <2>1, <2>2, <2>3, NoControls DEF CueInv, AllAnswered
<1>16. CASE UNCHANGED cueVars
  <2>1. UNCHANGED <<surface, deck, block, cue, excused>>
    BY <1>16 DEF cueVars
  <2>2. CueShapes'
    BY <1>0, <2>1 DEF CueShapes
  <2> QED
    BY <2>1, <2>2, ControlsKept
<1> QED
  BY <1>1, <1>2, <1>3, <1>4, <1>5, <1>6, <1>7, <1>8, <1>9, <1>10, <1>11, <1>12, <1>13,
     <1>14, <1>15, <1>16 DEF CueNext

(* A renderer that holds the button or plays a preview has the finger still *)
(* on it or the release on its way, for any number of touches, full queues, *)
(* track changes, seeks and restarts of the deck.                           *)
THEOREM NoPreviewIsOrphaned == CueSpec => []NoOrphanPreview
<1>1. CueInv => NoOrphanPreview
  <2> SUFFICES ASSUME CueInv PROVE NoOrphanPreview
    OBVIOUS
  <2>1. \A s \in Seq(Controls) : Ups(s) => "up" \in ToSet(s)
    BY UpsInSet
  <2> QED
    BY <2>1 DEF CueInv, CueShapes, AllAnswered, Active, NoOrphanPreview
<1> QED
  BY <1>1, CueInvInit, CueInvStep, PTL DEF CueSpec
-----------------------------------------------------------------------------
(* The media readers                                                       *)

(* Media frames one after the other, from a first one on. *)
Tracks(s, first) == s \in Seq(Int) /\ \A i \in DOMAIN s : s[i] = first + i - 1

(* Where a reader stands that goes on reading: the library, less what is    *)
(* pending, is at the frame the reader says it is at.  After a seek FFmpeg  *)
(* reads from the target, if it landed before it.                           *)
PositionedAt(r) ==
  /\ r.current \in Nat /\ r.at \in Int
  /\ media.codec = "wav" => r.at = BytesPerFrame * r.current
  /\ media.codec = "mp3" => r.at = r.current
  /\ media.codec \in {"flac", "aac"} => Tracks(r.pending, r.current) /\ r.at <= media.length
  /\ media.codec = "flac" => r.at = r.current + Len(r.pending)
  /\ media.codec = "aac" => /\ r.target \in Int
                            /\ Max({r.at, r.target}) = r.current + Len(r.pending)
                            /\ r.mark => r.at <= r.target
ReaderShape(r) == DOMAIN r = {"codec", "current", "at", "pending", "mark", "target", "eof"}
MediaInv ==
  /\ media \in Media /\ ReaderShape(reader)
  /\ DOMAIN heard = {"first", "frames", "marked", "after"}
  /\ ahead = "Ready" /\ ~ strayed => PositionedAt(reader)
  /\ ahead = "Ready" /\ heard.after /\ heard.frames = <<>> => reader.mark
  /\ FramesAsLabelled

LEMMA MediaTypes ==
  ASSUME media \in Media
  PROVE  /\ media.length \in Nat \ {0} /\ media.declared \in Nat \ {0} /\ media.codec \in Codecs
         /\ media.codec \in {"wav", "mp3"} => media.declared = media.length
         /\ Packet \in Nat \ {0} /\ ChunkFrames \in Nat \ {0}
BY MediaAssumption

LEMMA Extremes ==
  ASSUME NEW x \in Int, NEW y \in Int
  PROVE  Min({x, y}) = (IF x <= y THEN x ELSE y) /\ Max({x, y}) = (IF x >= y THEN x ELSE y)
<1>1. Min({x, y}) = (IF x <= y THEN x ELSE y)
  BY DEF Min
<1>2. Max({x, y}) = (IF x >= y THEN x ELSE y)
  BY DEF Max
<1> QED
  BY <1>1, <1>2

LEMMA LeastOfThree ==
  ASSUME NEW x \in Int, NEW y \in Int, NEW z \in Int
  PROVE  Min({x, y, z}) \in {x, y, z}
<1>1. \E m \in {x, y, z} : \A n \in {x, y, z} : m <= n
  OBVIOUS
<1> QED
  BY <1>1 DEF Min

LEMMA FromTracks ==
  ASSUME NEW first \in Int, NEW count \in Int
  PROVE  /\ Tracks(From(first, count), first)
         /\ Len(From(first, count)) = (IF count > 0 THEN count ELSE 0)
<1>1. CASE count > 0
  BY <1>1 DEF From, Tracks
<1>2. CASE ~ (count > 0)
  <2>1. 1 .. count = {}
    BY <1>2
  <2>2. From(first, count) = <<>>
    BY <2>1 DEF From
  <2> QED
    BY <1>2, <2>2, EmptySeq DEF Tracks
<1> QED
  BY <1>1, <1>2

(* What is pending followed by what is decoded, and its two parts. *)
LEMMA TracksOn ==
  ASSUME NEW first \in Int, NEW s, Tracks(s, first), NEW t, Tracks(t, first + Len(s))
  PROVE  /\ Tracks(s \o t, first) /\ Len(s \o t) = Len(s) + Len(t)
         /\ Len(s) \in Nat /\ Len(t) \in Nat
<1>1. /\ Len(s) \in Nat /\ DOMAIN s = 1 .. Len(s) /\ Len(t) \in Nat /\ DOMAIN t = 1 .. Len(t)
  BY LenProperties DEF Tracks
<1>2. /\ s \o t \in Seq(Int) /\ Len(s \o t) = Len(s) + Len(t)
      /\ \A i \in 1 .. Len(s) + Len(t) : (s \o t)[i] = IF i <= Len(s) THEN s[i] ELSE t[i - Len(s)]
  BY ConcatProperties DEF Tracks
<1>3. DOMAIN (s \o t) = 1 .. Len(s) + Len(t)
  BY <1>2, LenProperties
<1>4. ASSUME NEW i \in 1 .. Len(s) + Len(t)
      PROVE  (s \o t)[i] = first + i - 1
  <2>1. CASE i <= Len(s)
    <3>1. i \in DOMAIN s /\ s[i] = first + i - 1
      BY <1>1, <2>1 DEF Tracks
    <3> QED
      BY <1>1, <1>2, <2>1, <3>1
  <2>2. CASE ~ (i <= Len(s))
    <3>1. i - Len(s) \in DOMAIN t
      BY <1>1, <2>2
    <3>2. t[i - Len(s)] = first + Len(s) + (i - Len(s)) - 1
      BY <3>1 DEF Tracks
    <3> QED
      BY <1>1, <1>2, <2>2, <3>2
  <2> QED
    BY <2>1, <2>2
<1> QED
  BY <1>1, <1>2, <1>3, <1>4 DEF Tracks

LEMMA TracksParts ==
  ASSUME NEW first \in Int, NEW s, Tracks(s, first), NEW n \in 0 .. Len(s)
  PROVE  /\ Tracks(SubSeq(s, 1, n), first) /\ Len(SubSeq(s, 1, n)) = n
         /\ Tracks(SubSeq(s, n + 1, Len(s)), first + n) /\ Len(SubSeq(s, n + 1, Len(s))) = Len(s) - n
<1>1. Len(s) \in Nat /\ DOMAIN s = 1 .. Len(s) /\ \A i \in 1 .. Len(s) : s[i] \in Int
  BY LenProperties, ElementOfSeq DEF Tracks
<1>2. \A i \in 1 .. Len(s) : s[i] = first + i - 1
  BY <1>1 DEF Tracks
<1>3. /\ SubSeq(s, 1, n) \in Seq(Int) /\ Len(SubSeq(s, 1, n)) = n
      /\ \A i \in 1 .. n : SubSeq(s, 1, n)[i] = s[i]
  <2>1. \A i \in 1 .. n : s[i] \in Int
    BY <1>1
  <2> QED
    BY <1>1, <2>1, SubSeqProperties
<1>4. /\ SubSeq(s, n + 1, Len(s)) \in Seq(Int) /\ Len(SubSeq(s, n + 1, Len(s))) = Len(s) - n
      /\ \A i \in 1 .. Len(s) - n : SubSeq(s, n + 1, Len(s))[i] = s[n + i]
  <2>1. \A i \in n + 1 .. Len(s) : s[i] \in Int
    BY <1>1
  <2>2. /\ SubSeq(s, n + 1, Len(s)) \in Seq(Int)
        /\ Len(SubSeq(s, n + 1, Len(s))) = IF n + 1 <= Len(s) THEN Len(s) - (n + 1) + 1 ELSE 0
        /\ \A i \in 1 .. Len(s) - (n + 1) + 1 : SubSeq(s, n + 1, Len(s))[i] = s[n + 1 + i - 1]
    BY <1>1, <2>1, SubSeqProperties
  <2>3. Len(s) \in Nat /\ n \in Int /\ n <= Len(s)
    BY <1>1
  <2>4. Len(s) - (n + 1) + 1 = Len(s) - n /\ \A i \in Int : n + 1 + i - 1 = n + i
    BY <2>3
  <2>5. Len(SubSeq(s, n + 1, Len(s))) = Len(s) - n
    <3>1. CASE n + 1 <= Len(s)
      BY <2>2, <2>4, <3>1
    <3>2. CASE ~ (n + 1 <= Len(s))
      BY <2>2, <2>3, <3>2
    <3> QED
      BY <3>1, <3>2
  <2>6. ASSUME NEW i \in 1 .. Len(s) - n
        PROVE  SubSeq(s, n + 1, Len(s))[i] = s[n + i]
    <3>1. i \in Int /\ i \in 1 .. Len(s) - (n + 1) + 1
      BY <2>3, <2>4
    <3>2. SubSeq(s, n + 1, Len(s))[i] = s[n + 1 + i - 1]
      BY <2>2, <3>1
    <3> QED
      BY <2>4, <3>1, <3>2
  <2> QED
    BY <2>2, <2>5, <2>6
<1>5. /\ DOMAIN SubSeq(s, 1, n) = 1 .. n
      /\ DOMAIN SubSeq(s, n + 1, Len(s)) = 1 .. Len(s) - n
  BY <1>3, <1>4, LenProperties
<1>6. Tracks(SubSeq(s, 1, n), first)
  <2>1. \A i \in 1 .. n : i \in 1 .. Len(s)
    BY <1>1
  <2>2. \A i \in 1 .. n : SubSeq(s, 1, n)[i] = first + i - 1
    BY <1>2, <1>3, <2>1
  <2> QED
    BY <1>3, <1>5, <2>2 DEF Tracks
<1>7. Tracks(SubSeq(s, n + 1, Len(s)), first + n)
  <2>1. \A i \in 1 .. Len(s) - n : n + i \in 1 .. Len(s)
    BY <1>1
  <2>2. \A i \in 1 .. Len(s) - n : first + (n + i) - 1 = first + n + i - 1
    OBVIOUS
  <2>3. ASSUME NEW i \in 1 .. Len(s) - n
        PROVE  SubSeq(s, n + 1, Len(s))[i] = first + n + i - 1
    BY <1>2, <1>4, <2>1, <2>2
  <2> QED
    BY <1>4, <1>5, <2>3 DEF Tracks
<1> QED
  BY <1>3, <1>4, <1>6, <1>7

(* The packets that cover a number of frames reach beyond them. *)
LEMMA PacketsCover ==
  ASSUME NEW start \in Nat, NEW count \in Nat, Packet \in Nat \ {0}
  PROVE  PacketsOver(start, count) \in Nat /\ PacketsOver(start, count) >= start + count
<1> DEFINE x == start + count + Packet - 1
<1>1. x \in Nat /\ x = start + count + (Packet - 1) /\ PacketsOver(start, count) = Packet * (x \div Packet)
  BY DEF PacketsOver, PacketStart
<1> HIDE DEF x
<1>2. PICK q \in Nat, r \in 0 .. Packet - 1 : q = x \div Packet /\ r = x % Packet /\ x = Packet * q + r
  BY <1>1, Divided
<1>3. Packet * q \in Nat
  OBVIOUS
<1> QED
  BY <1>1, <1>2, <1>3

(* The block the loop of FlacReader and FfmpegAudioReader fills, and what   *)
(* it leaves pending, go on where the pending frames began.                 *)
LEMMA DecodedTracks ==
  ASSUME MediaInv, reader.current \in Nat, reader.at \in Int, Tracks(reader.pending, reader.current),
         reader.at <= media.length,
         NEW want \in Nat, NEW start \in Nat, start = reader.current + Len(reader.pending),
         reader.at <= start
  PROVE  LET out == Decoded(want, start)
             after == out.reader.current + Len(out.reader.pending)
         IN /\ Tracks(out.frames, reader.current)
            /\ ReaderShape(out.reader) /\ out.reader.at \in Int
            /\ out.reader.current \in Nat /\ Tracks(out.reader.pending, out.reader.current)
            /\ out.reader.at <= media.length
            /\ after = Max({start, out.reader.at})
            /\ reader.at = start => out.reader.at >= start
            /\ out.reader.at < start => out.reader.at \in {reader.at, media.length}
            /\ out.reader.target = reader.target
<1> DEFINE short == want - Len(reader.pending)
           end == IF short <= 0 THEN reader.at ELSE Min({media.length, PacketsOver(start, short)})
           more == From(start, Max({0, end - start}))
           all == reader.pending \o more
           count == Min({want, Len(all)})
           out == Decoded(want, start)
<1>1. /\ media.length \in Nat \ {0} /\ Packet \in Nat \ {0} /\ ReaderShape(reader)
      /\ Len(reader.pending) \in Nat
  BY MediaTypes, LenProperties DEF MediaInv, Tracks
<1>2. /\ end \in Int /\ end <= media.length
      /\ reader.at = start => end >= start
      /\ end < start => end \in {reader.at, media.length}
  <2>1. CASE short <= 0
    BY <1>1, <2>1 DEF ReaderShape
  <2>2. CASE ~ (short <= 0)
    <3>1. PacketsOver(start, short) \in Nat /\ PacketsOver(start, short) >= start + short
      <4>1. short \in Nat
        BY <1>1, <2>2
      <4> HIDE DEF short
      <4> QED
        BY <1>1, <4>1, PacketsCover
    <3>2. end = Min({media.length, PacketsOver(start, short)})
      BY <2>2
    <3>3. end = IF media.length <= PacketsOver(start, short) THEN media.length ELSE PacketsOver(start, short)
      BY <1>1, <3>1, <3>2, Extremes
    <3> HIDE DEF end
    <3> QED
      BY <1>1, <2>2, <3>1, <3>3
  <2> QED
    BY <2>1, <2>2
<1>3. /\ all \in Seq(Int) /\ Tracks(all, reader.current)
      /\ reader.current + Len(all) = Max({start, end}) /\ Len(all) \in Nat
  <2> HIDE DEF end
  <2> DEFINE k == Max({0, end - start})
  <2>0. 0 \in Int /\ start \in Int /\ end \in Int /\ end - start \in Int
    BY <1>2
  <2>1. k = IF 0 >= end - start THEN 0 ELSE end - start
    BY <2>0, Extremes
  <2>2. Max({start, end}) = IF start >= end THEN start ELSE end
    BY <2>0, Extremes
  <2>3. k \in Int /\ start + k = Max({start, end}) /\ k >= 0
    BY <1>2, <2>1, <2>2
  <2> HIDE DEF k
  <2>4. Tracks(more, start) /\ Len(more) = k
    BY <2>3, FromTracks DEF k
  <2> HIDE DEF more
  <2>5. Tracks(all, reader.current) /\ Len(all) = Len(reader.pending) + Len(more)
    <3>1. Tracks(more, reader.current + Len(reader.pending)) /\ reader.current \in Int
      BY <2>4
    <3> QED
      BY <3>1, TracksOn
  <2> HIDE DEF all
  <2>6. all \in Seq(Int) /\ Len(all) \in Nat
    BY <2>5, LenProperties DEF Tracks
  <2> QED
    BY <1>1, <2>3, <2>4, <2>5, <2>6
<1>4. count \in 0 .. Len(all)
  <2>1. Len(all) \in Nat
    BY <1>3
  <2> HIDE DEF all
  <2>2. want \in Int /\ Len(all) \in Int
    BY <2>1
  <2>3. count = IF want <= Len(all) THEN want ELSE Len(all)
    BY <2>2, Extremes
  <2> HIDE DEF count
  <2> QED
    BY <2>1, <2>3
<1> HIDE DEF end
<1>5. /\ out.frames = SubSeq(all, 1, count) /\ DOMAIN out.reader = DOMAIN reader
      /\ out.reader.current = reader.current + Len(SubSeq(all, 1, count))
      /\ out.reader.pending = SubSeq(all, count + 1, Len(all))
      /\ out.reader.at = end /\ out.reader.target = reader.target
  BY <1>1 DEF Decoded, Taken, ReaderShape, end
<1> HIDE DEF all, count, out
<1>6. /\ Tracks(SubSeq(all, 1, count), reader.current) /\ Len(SubSeq(all, 1, count)) = count
      /\ Tracks(SubSeq(all, count + 1, Len(all)), reader.current + count)
      /\ Len(SubSeq(all, count + 1, Len(all))) = Len(all) - count
  BY <1>3, <1>4, TracksParts
<1>7. out.reader.current = reader.current + count /\ out.reader.current \in Nat
  BY <1>4, <1>5, <1>6
<1>8. out.reader.current + Len(out.reader.pending) = Max({start, end})
  BY <1>3, <1>4, <1>5, <1>6, <1>7
<1>9. ReaderShape(out.reader)
  BY <1>1, <1>5 DEF ReaderShape
<1> QED
  BY <1>2, <1>5, <1>6, <1>7, <1>8, <1>9 DEF out

LEMMA MediaInvInit == MediaInit => MediaInv
BY DEF MediaInit, MediaInv, ReaderShape, ClosedReader, Nothing, FramesAsLabelled

(* What a reader that stands right reads is labelled right, and it stands   *)
(* right again.                                                             *)
LEMMA ReadWavTracks ==
  ASSUME MediaInv, PositionedAt(reader), media.codec = "wav", ~ AtEnd(reader), NEW n \in Nat \ {0}
  PROVE  LET out == ReadWav(n)
         IN /\ \A i \in DOMAIN out.frames : out.frames[i] = reader.current + i - 1
            /\ DOMAIN out.reader = DOMAIN reader /\ out.reader.target = reader.target
            /\ out.reader.current \in Nat /\ out.reader.at = BytesPerFrame * out.reader.current
<1> DEFINE count == Min({n, media.declared - reader.current})
           frames == [i \in 1 .. count |-> WavSample(reader.at + BytesPerFrame * (i - 1))]
           out == ReadWav(n)
<1>1. /\ reader.current \in Nat /\ reader.at = 2 * reader.current /\ reader.current < media.declared
      /\ media.declared \in Nat /\ ReaderShape(reader)
  BY MediaTypes DEF PositionedAt, AtEnd, MediaInv, BytesPerFrame
<1>2. count \in Nat
  <2>1. n \in Int /\ media.declared - reader.current \in Int /\ media.declared - reader.current >= 0
    BY <1>1
  <2>2. count = IF n <= media.declared - reader.current THEN n ELSE media.declared - reader.current
    BY <2>1, Extremes
  <2> HIDE DEF count
  <2> QED
    BY <2>1, <2>2
<1>3. /\ out.frames = frames /\ DOMAIN out.reader = DOMAIN reader /\ out.reader.target = reader.target
      /\ out.reader.current = reader.current + Len(frames) /\ out.reader.at = reader.at + 2 * count
  BY <1>1 DEF ReadWav, Taken, ReaderShape, BytesPerFrame
<1> HIDE DEF count, out
<1>4. ASSUME NEW i \in 1 .. count
      PROVE  frames[i] = reader.current + i - 1
  <2>1. reader.current + i - 1 \in Nat
    BY <1>1, <1>2
  <2>2. reader.at + BytesPerFrame * (i - 1) = 2 * (reader.current + i - 1)
    BY <1>1, <1>2 DEF BytesPerFrame
  <2>3. frames[i] = WavSample(2 * (reader.current + i - 1))
    BY <2>2
  <2>4. \A k \in Nat : (2 * k) % 2 = 0 /\ (2 * k) \div 2 = k
    OBVIOUS
  <2> QED
    BY <2>1, <2>3, <2>4 DEF WavSample, BytesPerFrame
<1>5. Len(frames) = count /\ DOMAIN frames = 1 .. count
  BY <1>2
<1> HIDE DEF frames
<1> QED
  BY <1>1, <1>2, <1>3, <1>4, <1>5 DEF out, BytesPerFrame

LEMMA ReadMp3Tracks ==
  ASSUME MediaInv, PositionedAt(reader), media.codec = "mp3", ~ AtEnd(reader), NEW n \in Nat \ {0}
  PROVE  LET out == ReadMp3(n)
         IN /\ \A i \in DOMAIN out.frames : out.frames[i] = reader.current + i - 1
            /\ DOMAIN out.reader = DOMAIN reader /\ out.reader.target = reader.target
            /\ out.reader.current \in Nat /\ out.reader.at = out.reader.current
<1> DEFINE count == Min({n, media.declared - reader.current, media.length - reader.at})
           frames == From(reader.at, count)
           out == ReadMp3(n)
<1>1. /\ reader.current \in Nat /\ reader.at = reader.current /\ reader.current < media.declared
      /\ media.declared = media.length /\ media.declared \in Nat /\ ReaderShape(reader)
  BY MediaTypes DEF PositionedAt, AtEnd, MediaInv
<1>2. count \in Nat
  <2>1. /\ n \in Int /\ media.declared - reader.current \in Int /\ media.length - reader.at \in Int
        /\ n >= 0 /\ media.declared - reader.current >= 0 /\ media.length - reader.at >= 0
    BY <1>1
  <2>2. count \in {n, media.declared - reader.current, media.length - reader.at}
    BY <2>1, LeastOfThree
  <2> HIDE DEF count
  <2> QED
    BY <2>1, <2>2
<1>3. /\ out.frames = frames /\ DOMAIN out.reader = DOMAIN reader /\ out.reader.target = reader.target
      /\ out.reader.current = (IF reader.at + count = media.length THEN media.declared
                               ELSE reader.current + Len(frames))
      /\ out.reader.at = reader.at + count
  BY <1>1 DEF ReadMp3, Taken, ReaderShape
<1> HIDE DEF count, out
<1>4. Tracks(frames, reader.current) /\ Len(frames) = count
  BY <1>1, <1>2, FromTracks
<1> HIDE DEF frames
<1> QED
  BY <1>1, <1>2, <1>3, <1>4 DEF out, Tracks

LEMMA ReadFlacTracks ==
  ASSUME MediaInv, PositionedAt(reader), media.codec = "flac", ~ AtEnd(reader), NEW n \in Nat \ {0}
  PROVE  LET out == ReadFlac(n)
         IN /\ \A i \in DOMAIN out.frames : out.frames[i] = reader.current + i - 1
            /\ ReaderShape(out.reader) /\ PositionedAt(out.reader)
<1> DEFINE want == Min({n, media.declared - reader.current})
           out == ReadFlac(n)
<1>1. /\ reader.current \in Nat /\ Tracks(reader.pending, reader.current) /\ reader.at <= media.length
      /\ reader.at = reader.current + Len(reader.pending) /\ reader.current < media.declared
      /\ media.declared \in Nat /\ media.length \in Nat
  BY MediaTypes DEF PositionedAt, AtEnd, MediaInv
<1>2. want \in Nat
  <2>1. n \in Int /\ media.declared - reader.current \in Int /\ media.declared - reader.current >= 0
    BY <1>1
  <2>2. want = IF n <= media.declared - reader.current THEN n ELSE media.declared - reader.current
    BY <2>1, Extremes
  <2> HIDE DEF want
  <2> QED
    BY <2>1, <2>2
<1>3. reader.at \in Nat
  BY <1>1, LenProperties DEF Tracks
<1>4. PICK start \in Nat : start = reader.at /\ out = Decoded(want, start)
  BY <1>3 DEF ReadFlac
<1> HIDE DEF want, out
<1>5. /\ Tracks(out.frames, reader.current) /\ ReaderShape(out.reader)
      /\ out.reader.current \in Nat /\ Tracks(out.reader.pending, out.reader.current)
      /\ out.reader.at <= media.length /\ out.reader.at \in Int /\ out.reader.at >= start
      /\ out.reader.current + Len(out.reader.pending) = Max({start, out.reader.at})
  <2>1. reader.at \in Int /\ start = reader.current + Len(reader.pending) /\ reader.at <= start
    BY <1>1, <1>3, <1>4
  <2> QED
    BY <1>1, <1>2, <1>4, <2>1, DecodedTracks
<1>6. out.reader.at = out.reader.current + Len(out.reader.pending)
  <2>1. out.reader.at \in Int /\ start \in Int
    BY <1>5
  <2>2. Max({start, out.reader.at}) = IF start >= out.reader.at THEN start ELSE out.reader.at
    BY <2>1, Extremes
  <2> QED
    BY <1>5, <2>1, <2>2
<1> QED
  BY <1>5, <1>6 DEF out, PositionedAt, Tracks

LEMMA ReadFfmpegTracks ==
  ASSUME MediaInv, PositionedAt(reader), media.codec = "aac", NEW n \in Nat \ {0}
  PROVE  LET out == ReadFfmpeg(n)
         IN /\ \A i \in DOMAIN out.frames : out.frames[i] = reader.current + i - 1
            /\ ReaderShape(out.reader) /\ PositionedAt([out.reader EXCEPT !.mark = FALSE])
<1> DEFINE start == Max({reader.at, reader.target})
           out == ReadFfmpeg(n)
           r == [out.reader EXCEPT !.mark = FALSE]
<1>1. /\ reader.current \in Nat /\ Tracks(reader.pending, reader.current) /\ reader.at <= media.length
      /\ start = reader.current + Len(reader.pending) /\ media.length \in Nat
      /\ reader.mark => reader.at <= reader.target
      /\ reader.at \in Int /\ reader.target \in Int
  BY MediaTypes DEF PositionedAt, MediaInv, ReaderShape
<1>2. out = Decoded(n, start)
  BY <1>1 DEF ReadFfmpeg
<1>3. start = IF reader.at >= reader.target THEN reader.at ELSE reader.target
  BY <1>1, Extremes
<1> HIDE DEF start, out
<1>4. start \in Nat /\ reader.at <= start /\ reader.target <= start
  <2>1. Len(reader.pending) \in Nat
    BY <1>1, LenProperties DEF Tracks
  <2> QED
    BY <1>1, <1>3, <2>1
<1>5. /\ Tracks(out.frames, reader.current) /\ ReaderShape(out.reader) /\ out.reader.at \in Int
      /\ out.reader.current \in Nat /\ Tracks(out.reader.pending, out.reader.current)
      /\ out.reader.at <= media.length /\ out.reader.target = reader.target
      /\ out.reader.current + Len(out.reader.pending) = Max({start, out.reader.at})
      /\ reader.at = start => out.reader.at >= start
      /\ out.reader.at < start => out.reader.at \in {reader.at, media.length}
  BY <1>1, <1>2, <1>4, DecodedTracks
<1>6. Max({out.reader.at, out.reader.target}) = out.reader.current + Len(out.reader.pending)
  <2> DEFINE end == out.reader.at
  <2>1. end \in Int /\ start \in Int /\ reader.target \in Int
    BY <1>1, <1>4, <1>5
  <2> HIDE DEF end
  <2>2. Max({start, end}) = IF start >= end THEN start ELSE end
    BY <2>1, Extremes
  <2>3. Max({end, reader.target}) = IF end >= reader.target THEN end ELSE reader.target
    BY <2>1, Extremes
  <2>4. end < start => reader.target = start
    BY <1>1, <1>3, <1>5, <2>1 DEF end
  <2> QED
    BY <1>4, <1>5, <2>1, <2>2, <2>3, <2>4 DEF end
<1>7. /\ r.current = out.reader.current /\ r.at = out.reader.at /\ r.pending = out.reader.pending
      /\ r.target = out.reader.target /\ r.mark = FALSE
  BY <1>5 DEF ReaderShape
<1> HIDE DEF r
<1>8. PositionedAt(r)
  BY <1>1, <1>5, <1>6, <1>7 DEF PositionedAt
<1> QED
  BY <1>5, <1>8 DEF out, r, Tracks

(* A reader that has been sought stands at the frame, unless it is at the   *)
(* end or FFmpeg landed after it.                                           *)
LEMMA SoughtRight ==
  ASSUME MediaInv, NEW f \in 0 .. media.declared, NEW r \in Sought(f)
  PROVE  LET e == [r EXCEPT !.current = f, !.mark = TRUE]
         IN /\ ReaderShape(e) /\ e.mark
            /\ f # media.declared /\ ~ (media.codec = "aac" /\ r.at > f) => PositionedAt(e)
<1> DEFINE e == [r EXCEPT !.current = f, !.mark = TRUE]
<1>1. /\ media.length \in Nat \ {0} /\ Packet \in Nat \ {0} /\ ReaderShape(reader) /\ f \in Nat
      /\ media.declared \in Nat /\ f <= media.declared
      /\ media.codec \in {"wav", "mp3"} => media.declared = media.length
  BY MediaTypes DEF MediaInv
<1>2. CASE media.codec \in {"wav", "mp3"}
  <2>1. \/ r = SoughtWav(f) /\ media.codec = "wav"
        \/ r = SoughtMp3(f) /\ media.codec = "mp3"
    BY <1>2 DEF Sought
  <2> QED
    BY <1>1, <1>2, <2>1 DEF SoughtWav, SoughtMp3, ReaderShape, PositionedAt, BytesPerFrame
<1>3. CASE media.codec = "flac"
  <2>1. r = SoughtFlac(f) /\ (f = media.declared \/ f < media.length)
    BY <1>3 DEF Sought
  <2>2. CASE f = media.declared
    BY <1>1, <2>1, <2>2 DEF SoughtFlac, ReaderShape
  <2>3. CASE f # media.declared
    <3> DEFINE p == PacketFrom(f)
               last == Min({media.length, PacketStart(f) + Packet})
    <3>1. PacketStart(f) \in Nat /\ PacketStart(f) + Packet > f
      <4>1. PICK q \in Nat, m \in 0 .. Packet - 1 : q = f \div Packet /\ m = f % Packet /\ f = Packet * q + m
        BY <1>1, Divided
      <4>2. PacketStart(f) = Packet * q
        BY <4>1 DEF PacketStart
      <4>3. Packet * q \in Nat
        BY <1>1
      <4> QED
        BY <1>1, <4>1, <4>2, <4>3
    <3>2. last \in Int /\ last > f /\ last <= media.length
      <4>1. media.length \in Int /\ PacketStart(f) + Packet \in Int
        BY <1>1, <3>1
      <4>2. last = IF media.length <= PacketStart(f) + Packet THEN media.length ELSE PacketStart(f) + Packet
        BY <4>1, Extremes
      <4> HIDE DEF last
      <4> QED
        BY <1>1, <2>1, <2>3, <3>1, <4>1, <4>2
    <3>3. Tracks(p, f) /\ Len(p) = last - f
      <4>1. f \in Int /\ last - f \in Int /\ last - f > 0 /\ p = From(f, last - f)
        BY <1>1, <3>2 DEF PacketFrom
      <4> HIDE DEF p, last
      <4> QED
        BY <4>1, FromTracks
    <3>4. r = [reader EXCEPT !.pending = p, !.at = f + Len(p)]
      BY <2>1, <2>3 DEF SoughtFlac
    <3> HIDE DEF p, last
    <3>5. /\ DOMAIN e = DOMAIN reader /\ e.pending = p /\ e.at = f + Len(p) /\ e.current = f
          /\ e.mark = TRUE /\ e.target = reader.target
      BY <1>1, <3>4 DEF ReaderShape
    <3>6. f + Len(p) = last
      BY <1>1, <3>2, <3>3
    <3> HIDE DEF e
    <3>7. ReaderShape(e)
      BY <1>1, <3>5 DEF ReaderShape
    <3>8. PositionedAt(e)
      BY <1>1, <1>3, <3>2, <3>3, <3>5, <3>6 DEF PositionedAt
    <3> QED
      BY <3>5, <3>7, <3>8 DEF e
  <2> QED
    BY <2>2, <2>3
<1>4. CASE media.codec = "aac"
  <2>1. PICK p \in Landings(f) : r = SoughtFfmpeg(f, p)
    BY <1>4 DEF Sought
  <2>2. p \in Nat /\ p <= media.length
    BY <1>1, <2>1 DEF Landings
  <2>3. /\ DOMAIN e = DOMAIN reader /\ e.pending = <<>> /\ e.at = p /\ e.current = f
        /\ e.mark = TRUE /\ e.target = f /\ r.at = p
    BY <1>1, <2>1 DEF SoughtFfmpeg, ReaderShape
  <2> HIDE DEF e
  <2>4. ReaderShape(e)
    BY <1>1, <2>2, <2>3 DEF ReaderShape
  <2>5. ASSUME ~ (p > f) PROVE PositionedAt(e)
    <3>1. Max({p, f}) = f
      <4>1. p \in Int /\ f \in Int /\ p <= f
        BY <1>1, <2>2, <2>5
      <4>2. Max({p, f}) = IF p >= f THEN p ELSE f
        BY <4>1, Extremes
      <4> QED
        BY <4>1, <4>2
    <3>2. Len(<<>>) = 0 /\ Tracks(<<>>, f)
      BY EmptySeq DEF Tracks
    <3> QED
      BY <1>1, <1>4, <2>2, <2>3, <2>5, <3>1, <3>2 DEF PositionedAt
  <2> QED
    BY <1>4, <2>3, <2>4, <2>5 DEF e
<1> QED
  BY <1>2, <1>3, <1>4, MediaTypes DEF MediaInv, Codecs

LEMMA ReadShape ==
  ASSUME ReaderShape(reader), media.codec \in Codecs, NEW n
  PROVE  ReaderShape(ReadFrom(n).reader)
<1>1. ReaderShape(ReadWav(n).reader) /\ ReaderShape(ReadMp3(n).reader)
  BY DEF ReadWav, ReadMp3, Taken, ReaderShape
<1>2. ASSUME NEW want, NEW start
      PROVE  ReaderShape(Decoded(want, start).reader) /\ DOMAIN Decoded(want, start) = {"frames", "reader"}
  BY DEF Decoded, Taken, ReaderShape
<1>3. ReaderShape(ReadFlac(n).reader)
  BY <1>2 DEF ReadFlac
<1>4. ReaderShape(ReadFfmpeg(n).reader)
  <2>1. \E start : \/ ReadFfmpeg(n) = Decoded(n, start)
                  \/ \E k : ReadFfmpeg(n) = [Decoded(n, start) EXCEPT !.reader.current = k]
    BY DEF ReadFfmpeg
  <2> QED
    BY <1>2, <2>1 DEF ReaderShape
<1> QED
  BY <1>1, <1>3, <1>4 DEF ReadFrom, Codecs

LEMMA MediaInvStep == MediaInv /\ [MediaNext]_mediaVars => MediaInv'
<1> SUFFICES ASSUME MediaInv, [MediaNext]_mediaVars PROVE MediaInv'
  OBVIOUS
<1>0. /\ media \in Media /\ media.length \in Nat /\ media.codec \in Codecs /\ ReaderShape(reader)
      /\ ChunkFrames \in Nat \ {0}
  BY MediaTypes DEF MediaInv
<1>1. CASE OpenMedia
  <2>1. /\ UNCHANGED media /\ heard' = Nothing /\ ReaderShape(reader')
        /\ reader' \in {ClosedReader, OpenedWav, OpenedMp3, OpenedFlac, OpenedFfmpeg}
    BY <1>1 DEF OpenMedia, ReaderShape, OpenedWav, OpenedMp3, OpenedFlac, OpenedFfmpeg, ClosedReader
  <2>2. reader'.current = 0 /\ reader'.at = 0 /\ reader'.pending = <<>> /\ reader'.target = 0 /\ ~ reader'.mark
    BY <2>1 DEF OpenedWav, OpenedMp3, OpenedFlac, OpenedFfmpeg, ClosedReader
  <2>3. Max({0, 0}) = 0 /\ Len(<<>>) = 0 /\ Tracks(<<>>, 0)
    <3>1. Max({0, 0}) = 0
      BY DEF Max
    <3> QED
      BY <3>1, EmptySeq DEF Tracks
  <2>4. PositionedAt(reader)'
    BY <1>0, <2>1, <2>2, <2>3 DEF PositionedAt, BytesPerFrame
  <2> QED
    BY <1>0, <2>1, <2>4 DEF MediaInv, ReaderShape, Nothing, FramesAsLabelled
<1>2. CASE CloseMedia
  BY <1>0, <1>2 DEF CloseMedia, MediaInv, ReaderShape, ClosedReader, Nothing, FramesAsLabelled
<1>3. ASSUME NEW f \in 0 .. media.declared, SeekMedia(f)
      PROVE  MediaInv'
  <2>1. PICK r \in Sought(f) : /\ reader' = [r EXCEPT !.current = f, !.mark = TRUE]
                               /\ strayed' = (media.codec = "aac" /\ f < media.declared /\ r.at > f)
    BY <1>3 DEF SeekMedia
  <2>2. /\ ReaderShape(reader') /\ reader'.mark
        /\ f # media.declared /\ ~ (media.codec = "aac" /\ r.at > f) => PositionedAt(reader')
    BY <2>1, SoughtRight
  <2>3. /\ media' = media /\ heard' = [Nothing EXCEPT !.after = TRUE]
        /\ ahead' = "Ready" => f < media.declared
    BY <1>3, MediaTypes DEF SeekMedia, MediaInv
  <2>4. PositionedAt(reader') => PositionedAt(reader)'
    BY <2>3 DEF PositionedAt
  <2>5. ReaderShape(reader)' /\ DOMAIN heard' = {"first", "frames", "marked", "after"} /\ heard'.frames = <<>>
    BY <2>2, <2>3 DEF ReaderShape, Nothing
  <2>6. FramesAsLabelled'
    BY <2>5 DEF FramesAsLabelled
  <2>7. ahead' = "Ready" /\ ~ strayed' => PositionedAt(reader)'
    <3>1. ahead' = "Ready" /\ ~ strayed' => f # media.declared /\ ~ (media.codec = "aac" /\ r.at > f)
      <4>1. ahead' = "Ready" => f < media.declared /\ f # media.declared
        BY <1>0, <2>3, MediaTypes
      <4> QED
        BY <2>1, <4>1
    <3> QED
      BY <2>2, <2>4, <3>1
  <2> QED
    BY <1>0, <2>2, <2>3, <2>5, <2>6, <2>7 DEF MediaInv
<1>4. CASE SeekRefused
  <2>1. /\ UNCHANGED <<media, ahead, heard>> /\ ReaderShape(reader') /\ reader'.mark = reader.mark
        /\ ~ strayed' => reader' = reader /\ ~ strayed
    BY <1>0, <1>4 DEF SeekRefused, ReaderShape, Landings
  <2> QED
    BY <2>1 DEF MediaInv, ReaderShape, PositionedAt, FramesAsLabelled
<1>5. CASE RefillChunk
  <2> DEFINE out == ReadFrom(ChunkFrames)
  <2>0. ReaderShape(out.reader) /\ UNCHANGED <<media, strayed>>
    BY <1>0, <1>5, ReadShape DEF RefillChunk
  <2>1. CASE AtEnd(reader) \/ out.frames = <<>>
    <3>1. heard' = heard /\ ahead' = "EndOfStream" /\ reader' \in {reader, out.reader}
      BY <1>5, <2>1 DEF RefillChunk
    <3> HIDE DEF out
    <3> QED
      BY <1>0, <2>0, <3>1 DEF MediaInv, ReaderShape, FramesAsLabelled
  <2>2. CASE ~ AtEnd(reader) /\ out.frames # <<>>
    <3>1. /\ reader' = [out.reader EXCEPT !.mark = FALSE] /\ ahead = "Ready"
          /\ heard' = [first |-> reader.current, frames |-> out.frames,
                       marked |-> reader.mark, after |-> heard.frames = <<>> /\ heard.after]
      BY <1>5, <2>2 DEF RefillChunk
    <3>2. ~ strayed => PositionedAt(reader) /\ (heard'.after => heard'.marked)
      BY <3>1 DEF MediaInv
    <3>3. ASSUME ~ strayed
          PROVE  /\ \A i \in DOMAIN out.frames : out.frames[i] = reader.current + i - 1
                 /\ PositionedAt(reader')
      <4>1. CASE media.codec = "wav"
        BY <1>0, <2>0, <2>2, <3>1, <3>2, <3>3, <4>1, ReadWavTracks
           DEF ReadFrom, PositionedAt, ReaderShape, BytesPerFrame
      <4>2. CASE media.codec = "mp3"
        BY <1>0, <2>0, <2>2, <3>1, <3>2, <3>3, <4>2, ReadMp3Tracks DEF ReadFrom, PositionedAt, ReaderShape
      <4>3. CASE media.codec = "flac"
        BY <1>0, <2>0, <2>2, <3>1, <3>2, <3>3, <4>3, ReadFlacTracks DEF ReadFrom, PositionedAt, ReaderShape
      <4>4. CASE media.codec = "aac"
        BY <1>0, <3>1, <3>2, <3>3, <4>4, ReadFfmpegTracks DEF ReadFrom
      <4> QED
        BY <1>0, <4>1, <4>2, <4>3, <4>4 DEF Codecs
    <3> HIDE DEF out
    <3>4. ReaderShape(reader') /\ DOMAIN heard' = {"first", "frames", "marked", "after"}
      BY <2>0, <3>1 DEF ReaderShape
    <3>5. PositionedAt(reader') => PositionedAt(reader)'
      BY <2>0 DEF PositionedAt
    <3>6. FramesAsLabelled'
      BY <2>0, <3>1, <3>2, <3>3 DEF FramesAsLabelled
    <3> QED
      BY <1>0, <2>0, <2>2, <3>1, <3>3, <3>4, <3>5, <3>6 DEF MediaInv, ReaderShape
  <2> QED
    BY <2>1, <2>2
<1>6. CASE ReadFails
  <2>1. UNCHANGED <<media, heard, strayed>> /\ ahead' = "Error" /\ ReaderShape(reader')
    BY <1>0, <1>6 DEF ReadFails, ReaderShape
  <2> QED
    BY <2>1 DEF MediaInv, ReaderShape, FramesAsLabelled
<1>7. CASE UNCHANGED mediaVars
  BY <1>7 DEF mediaVars, MediaInv, ReaderShape, PositionedAt, FramesAsLabelled
<1> QED
  BY <1>1, <1>2, <1>3, <1>4, <1>5, <1>6, <1>7 DEF MediaNext

THEOREM EveryFrameAsLabelled == MediaSpec => []FramesAsLabelled
<1>1. MediaInv => FramesAsLabelled
  BY DEF MediaInv
<1> QED
  BY <1>1, MediaInvInit, MediaInvStep, PTL DEF MediaSpec

-----------------------------------------------------------------------------
(* The keyboard                                                            *)

Keys == Semitones \cup {None}
NoteEvents == [id : Nat, key : Nat, on : BOOLEAN]
VoiceRecords == [id : Nat, key : Nat, stage : {"idle", "held", "release"}]
BoardFields == {"pointer", "held", "note", "nextId", "octave", "out"}
Off(x) == [id |-> x.id, key |-> x.key, on |-> FALSE]
Has(q, e) == \E i \in DOMAIN q : q[i] = e
Later(q, i, e) == \E j \in DOMAIN q : i < j /\ q[j] = e

(* A contact is on the key its pointer says, and a key has a note as long   *)
(* as a contact is on it.  A note is pending on a board if a key has it.    *)
HeldOn(b, x) == x.id # 0 /\ \E k \in Semitones : b.note[k].id = x.id /\ b.note[k].key = x.key
BoardShape(b) ==
  /\ DOMAIN b = BoardFields
  /\ b.pointer \in [Slots -> Keys] /\ b.held \in [Semitones -> SUBSET Slots]
  /\ b.note \in [Semitones -> [id : Nat, key : Nat]] /\ b.nextId \in Nat \ {0}
  /\ b.octave \in Octaves /\ b.out \in Seq(NoteEvents)
BoardFits(b) ==
  /\ \A c \in Slots, k \in Semitones : c \in b.held[k] <=> b.pointer[c] = k
  /\ \A k \in Semitones : b.held[k] = {} <=> b.note[k].id = 0

(* A note-on among the events it emits is followed by its note-off, or      *)
(* still held.                                                              *)
Emitted(b) == \A i \in DOMAIN b.out : b.out[i].on =>
                b.out[i].id # 0 /\ (Later(b.out, i, Off(b.out[i])) \/ HeldOn(b, b.out[i]))
BoardInv(b) == BoardShape(b) /\ BoardFits(b) /\ Emitted(b)
Owes(b, x) == HeldOn(b, x) \/ Has(b.out, Off(x))

LEMMA NoteTypes ==
  /\ KernelBuffer \in Nat \ {0} /\ NoteQueue \in Nat \ {0} /\ Voices \in Nat \ {0}
  /\ Slots \subseteq Nat /\ Semitones \subseteq Nat /\ Octaves \subseteq Nat
  /\ None \notin Slots /\ None \notin Semitones /\ Min(Octaves) \in Octaves
<1>1. PICK o \in Octaves : \A p \in Octaves : o <= p
  BY NoteBounds, SmallestNumber
<1>2. Min(Octaves) \in Octaves
  BY <1>1 DEF Min
<1> QED
  BY <1>2, NoteBounds DEF None

LEMMA Lengthened ==
  ASSUME NEW S, NEW q \in Seq(S), NEW x \in S
  PROVE  /\ Append(q, x) \in Seq(S) /\ Len(q) \in Nat /\ DOMAIN q = 1 .. Len(q)
         /\ DOMAIN Append(q, x) = 1 .. Len(q) + 1 /\ Append(q, x)[Len(q) + 1] = x
         /\ \A i \in DOMAIN q : Append(q, x)[i] = q[i]
<1>1. /\ Append(q, x) \in Seq(S) /\ Len(Append(q, x)) = Len(q) + 1
      /\ Append(q, x)[Len(q) + 1] = x /\ \A i \in 1 .. Len(q) : Append(q, x)[i] = q[i]
  BY AppendProperties, LenProperties
<1>2. /\ Len(q) \in Nat /\ DOMAIN q = 1 .. Len(q)
      /\ DOMAIN Append(q, x) = 1 .. Len(Append(q, x))
  BY <1>1, LenProperties
<1> QED
  BY <1>1, <1>2

LEMMA Shortened ==
  ASSUME NEW S, NEW q \in Seq(S), q # <<>>
  PROVE  /\ Tail(q) \in Seq(S) /\ Len(q) \in Nat \ {0} /\ DOMAIN q = 1 .. Len(q)
         /\ DOMAIN Tail(q) = 1 .. Len(q) - 1 /\ Head(q) = q[1] /\ Head(q) \in S
         /\ \A i \in DOMAIN Tail(q) : Tail(q)[i] = q[i + 1]
<1>1. Len(q) \in Nat \ {0} /\ DOMAIN q = 1 .. Len(q)
  BY EmptySeq, LenProperties
<1>2. /\ Head(q) \in S /\ Tail(q) \in Seq(S) /\ Head(q) = q[1] /\ Len(Tail(q)) = Len(q) - 1
      /\ \A i \in 1 .. Len(Tail(q)) : Tail(q)[i] = q[i + 1]
  BY <1>1, HeadTailProperties, ElementOfSeq
<1>3. DOMAIN Tail(q) = 1 .. Len(Tail(q))
  BY <1>2, LenProperties
<1> QED
  BY <1>1, <1>2, <1>3

(* A board that emits one more event. *)
LEMMA EmittedOne ==
  ASSUME NEW b, NEW d, Emitted(b), b.out \in Seq(NoteEvents), NEW e \in NoteEvents,
         d.out = Append(b.out, e),
         \A x : HeldOn(b, x) => HeldOn(d, x) \/ e = Off(x),
         e.on => e.id # 0 /\ HeldOn(d, e)
  PROVE  /\ Emitted(d) /\ d.out \in Seq(NoteEvents)
         /\ \A x : Owes(b, x) => Owes(d, x)
<1>1. /\ d.out \in Seq(NoteEvents) /\ Len(b.out) \in Nat /\ DOMAIN b.out = 1 .. Len(b.out)
      /\ DOMAIN d.out = 1 .. Len(b.out) + 1 /\ d.out[Len(b.out) + 1] = e
      /\ \A i \in DOMAIN b.out : d.out[i] = b.out[i]
  BY Lengthened
<1>2. ASSUME NEW i \in DOMAIN d.out, d.out[i].on
      PROVE  d.out[i].id # 0 /\ (Later(d.out, i, Off(d.out[i])) \/ HeldOn(d, d.out[i]))
  <2>1. CASE i \in DOMAIN b.out
    <3>1. d.out[i] = b.out[i]
      BY <1>1, <2>1
    <3>2. b.out[i].id # 0 /\ (Later(b.out, i, Off(b.out[i])) \/ HeldOn(b, b.out[i]))
      BY <1>2, <2>1, <3>1 DEF Emitted
    <3>3. CASE Later(b.out, i, Off(b.out[i]))
      BY <1>1, <3>1, <3>2, <3>3 DEF Later
    <3>4. CASE HeldOn(b, b.out[i])
      <4>1. HeldOn(d, b.out[i]) \/ e = Off(b.out[i])
        BY <3>4
      <4>2. CASE e = Off(b.out[i])
        <5>1. i < Len(b.out) + 1
          BY <1>1, <2>1
        <5> QED
          BY <1>1, <3>1, <3>2, <4>2, <5>1 DEF Later
      <4> QED
        BY <3>1, <3>2, <4>1, <4>2
    <3> QED
      BY <3>2, <3>3, <3>4
  <2>2. CASE i \notin DOMAIN b.out
    <3>1. i = Len(b.out) + 1
      BY <1>1, <2>2
    <3> QED
      BY <1>1, <1>2, <3>1
  <2> QED
    BY <2>1, <2>2
<1>3. ASSUME NEW x, Owes(b, x)
      PROVE  Owes(d, x)
  <2>1. CASE HeldOn(b, x)
    BY <1>1, <2>1 DEF Owes, Has
  <2>2. CASE Has(b.out, Off(x))
    BY <1>1, <2>2 DEF Owes, Has
  <2> QED
    BY <1>3, <2>1, <2>2 DEF Owes
<1> QED
  BY <1>1, <1>2, <1>3 DEF Emitted

(* A contact leaves its key. *)
LEMMA Releasing ==
  ASSUME NEW b, BoardInv(b), NEW c \in Slots
  PROVE  /\ BoardInv(Release(b, c)) /\ \A x : Owes(b, x) => Owes(Release(b, c), x)
         /\ Release(b, c).pointer = [b.pointer EXCEPT ![c] = None]
<1> USE NoteTypes DEF BoardInv, BoardFields
<1> DEFINE k == b.pointer[c]
           rest == [b EXCEPT !.held[k] = @ \ {c}, !.pointer[c] = None]
           d == Release(b, c)
<1>1. CASE k = None
  <2>1. d = b
    BY <1>1 DEF Release
  <2>2. b.pointer = [b.pointer EXCEPT ![c] = None]
    BY <1>1 DEF BoardShape
  <2> QED
    BY <2>1, <2>2
<1>2. CASE k # None
  <2>0. k \in Semitones
    BY <1>2 DEF BoardShape, Keys
  <2>1. /\ DOMAIN rest = BoardFields /\ rest.out = b.out /\ rest.note = b.note
        /\ rest.nextId = b.nextId /\ rest.octave = b.octave
        /\ rest.held = [b.held EXCEPT ![k] = @ \ {c}]
        /\ rest.pointer = [b.pointer EXCEPT ![c] = None]
    BY DEF BoardShape
  <2>2. /\ rest.held \in [Semitones -> SUBSET Slots] /\ rest.pointer \in [Slots -> Keys]
        /\ \A s \in Slots, j \in Semitones : s \in rest.held[j] <=> rest.pointer[s] = j
        /\ \A j \in Semitones \ {k} : rest.held[j] = b.held[j]
        /\ rest.held[k] = b.held[k] \ {c} /\ c \in b.held[k]
    BY <2>0, <2>1 DEF BoardShape, BoardFits, Keys
  <2>3. CASE rest.held[k] # {}
    <3>1. d = rest
      BY <1>2, <2>3 DEF Release
    <3> HIDE DEF rest, d
    <3>2. BoardShape(d) /\ BoardFits(d)
      BY <2>0, <2>1, <2>2, <2>3, <3>1 DEF BoardShape, BoardFits
    <3>3. Emitted(d) /\ \A x : Owes(b, x) => Owes(d, x)
      BY <2>1, <3>1 DEF Emitted, Owes, HeldOn
    <3> QED
      BY <2>1, <3>1, <3>2, <3>3 DEF d
  <2>4. CASE rest.held[k] = {}
    <3> DEFINE e == NoteEvent(b.note[k], FALSE)
    <3>1. d = [Emit(rest, b.note[k], FALSE) EXCEPT !.note[k].id = 0]
      BY <1>2, <2>4 DEF Release
    <3>2. /\ DOMAIN d = BoardFields /\ d.out = Append(b.out, e) /\ d.note = [b.note EXCEPT ![k].id = 0]
          /\ d.nextId = b.nextId /\ d.octave = b.octave
          /\ d.held = rest.held /\ d.pointer = rest.pointer
      <4> HIDE DEF rest, d, k
      <4> QED
        BY <2>1, <3>1 DEF Emit
    <3> HIDE DEF rest, d
    <3>3. e \in NoteEvents /\ ~ e.on /\ e.id = b.note[k].id /\ e.key = b.note[k].key
      BY <2>0 DEF NoteEvent, NoteEvents, BoardShape
    <3>4. /\ d.note \in [Semitones -> [id : Nat, key : Nat]] /\ d.note[k].id = 0
          /\ \A j \in Semitones \ {k} : d.note[j] = b.note[j]
      <4>1. b.note \in [Semitones -> [id : Nat, key : Nat]]
        BY DEF BoardShape
      <4> HIDE DEF k, BoardInv
      <4>2. b.note[k] \in [id : Nat, key : Nat]
        BY <2>0, <4>1
      <4>3. [b.note[k] EXCEPT !.id = 0] \in [id : Nat, key : Nat] /\ [b.note[k] EXCEPT !.id = 0].id = 0
        BY <4>2
      <4>4. d.note = [b.note EXCEPT ![k] = [b.note[k] EXCEPT !.id = 0]]
        BY <2>0, <3>2, <4>1
      <4> QED
        BY <2>0, <4>1, <4>3, <4>4
    <3>5. \A x : HeldOn(b, x) => HeldOn(d, x) \/ e = Off(x)
      <4> SUFFICES ASSUME NEW x, NEW j \in Semitones, x.id # 0, b.note[j].id = x.id, b.note[j].key = x.key
                   PROVE  HeldOn(d, x) \/ e = Off(x)
        BY DEF HeldOn
      <4>1. CASE j = k
        BY <4>1 DEF Off, NoteEvent
      <4>2. CASE j # k
        BY <3>4, <4>2 DEF HeldOn
      <4> QED
        BY <4>1, <4>2
    <3>6. Emitted(d) /\ d.out \in Seq(NoteEvents) /\ \A x : Owes(b, x) => Owes(d, x)
      BY <3>2, <3>3, <3>5, EmittedOne DEF BoardShape
    <3>7. BoardShape(d)
      <4>1. b.nextId \in Nat \ {0} /\ b.octave \in Octaves
        BY DEF BoardShape
      <4> HIDE DEF k, BoardInv
      <4> QED
        BY <2>2, <3>2, <3>4, <3>6, <4>1 DEF BoardShape
    <3>8. BoardFits(d)
      <4>1. \A j \in Semitones : b.held[j] = {} <=> b.note[j].id = 0
        BY DEF BoardFits
      <4> HIDE DEF k, BoardInv
      <4>2. \A s \in Slots, j \in Semitones : s \in d.held[j] <=> d.pointer[s] = j
        BY <2>2, <3>2
      <4>3. ASSUME NEW j \in Semitones PROVE d.held[j] = {} <=> d.note[j].id = 0
        <5>1. CASE j = k
          BY <2>4, <3>2, <3>4, <5>1
        <5>2. CASE j # k
          <6>1. d.held[j] = b.held[j]
            BY <2>2, <3>2, <5>2
          <6>2. d.note[j] = b.note[j]
            BY <3>4, <5>2
          <6> QED
            BY <4>1, <6>1, <6>2
        <5> QED
          BY <5>1, <5>2
      <4> QED
        BY <4>2, <4>3 DEF BoardFits
    <3> QED
      BY <2>1, <3>2, <3>6, <3>7, <3>8 DEF d
  <2> QED
    BY <2>3, <2>4
<1> QED
  BY <1>1, <1>2

(* A contact comes to a key. *)
LEMMA Pressing ==
  ASSUME NEW b, BoardInv(b), NEW c \in Slots, b.pointer[c] = None, NEW k \in Semitones
  PROVE  /\ BoardInv(Press(b, c, k)) /\ \A x : Owes(b, x) => Owes(Press(b, c, k), x)
         /\ Press(b, c, k).pointer = [b.pointer EXCEPT ![c] = k]
<1> USE NoteTypes DEF BoardInv, BoardFields
<1> DEFINE touched == [b EXCEPT !.held[k] = @ \cup {c}, !.pointer[c] = k]
           n == [id |-> b.nextId, key |-> MidiKey(b, k)]
           d == Press(b, c, k)
<1>1. /\ DOMAIN touched = BoardFields /\ touched.out = b.out /\ touched.note = b.note
      /\ touched.nextId = b.nextId /\ touched.octave = b.octave
      /\ touched.held = [b.held EXCEPT ![k] = @ \cup {c}]
      /\ touched.pointer = [b.pointer EXCEPT ![c] = k]
  BY DEF BoardShape
<1>2. /\ touched.held \in [Semitones -> SUBSET Slots] /\ touched.pointer \in [Slots -> Keys]
      /\ \A s \in Slots, j \in Semitones : s \in touched.held[j] <=> touched.pointer[s] = j
      /\ \A j \in Semitones \ {k} : touched.held[j] = b.held[j]
      /\ touched.held[k] # {}
  BY <1>1 DEF BoardShape, BoardFits, Keys
<1>3. CASE b.held[k] # {}
  <2>1. d = touched
    BY <1>3 DEF Press
  <2> HIDE DEF touched, d
  <2>2. BoardShape(d) /\ BoardFits(d)
    <3>1. BoardShape(b) /\ \A j \in Semitones : b.held[j] = {} <=> b.note[j].id = 0
      BY DEF BoardFits
    <3> HIDE DEF BoardInv
    <3>2. BoardShape(d)
      BY <1>1, <1>2, <2>1, <3>1 DEF BoardShape
    <3> QED
      BY <1>1, <1>2, <1>3, <2>1, <3>1, <3>2 DEF BoardFits
  <2>3. Emitted(d) /\ \A x : Owes(b, x) => Owes(d, x)
    BY <1>1, <2>1 DEF Emitted, Owes, HeldOn
  <2> QED
    BY <1>1, <2>1, <2>2, <2>3 DEF d
<1>4. CASE b.held[k] = {}
  <2> DEFINE e == NoteEvent(n, TRUE)
  <2>1. d = Emit([touched EXCEPT !.nextId = @ + 1, !.note[k] = n], n, TRUE)
    BY <1>4 DEF Press
  <2>2. n \in [id : Nat, key : Nat] /\ n.id # 0
    <3>1. b.nextId \in Nat \ {0} /\ b.octave \in Nat /\ k \in Nat
      BY DEF BoardShape
    <3>2. MidiKey(b, k) \in Nat
      BY <3>1 DEF MidiKey
    <3> QED
      BY <3>1, <3>2
  <2> HIDE DEF n
  <2>3. /\ DOMAIN d = BoardFields /\ d.out = Append(b.out, e) /\ d.note = [b.note EXCEPT ![k] = n]
        /\ d.nextId = b.nextId + 1 /\ d.octave = b.octave
        /\ d.held = touched.held /\ d.pointer = touched.pointer
    <3> HIDE DEF touched, d
    <3> QED
      BY <1>1, <2>1 DEF Emit
  <2> HIDE DEF touched, d
  <2>4. e \in NoteEvents /\ e.on /\ e.id = n.id /\ e.key = n.key
    BY <2>2 DEF NoteEvent, NoteEvents
  <2>5. /\ d.note \in [Semitones -> [id : Nat, key : Nat]] /\ d.note[k] = n
        /\ \A j \in Semitones \ {k} : d.note[j] = b.note[j]
    BY <2>2, <2>3 DEF BoardShape
  <2>6. \A x : HeldOn(b, x) => HeldOn(d, x)
    <3> SUFFICES ASSUME NEW x, NEW j \in Semitones, x.id # 0, b.note[j].id = x.id, b.note[j].key = x.key
                 PROVE  HeldOn(d, x)
      BY DEF HeldOn
    <3>1. j # k
      BY <1>4 DEF BoardFits
    <3> QED
      BY <2>5, <3>1 DEF HeldOn
  <2>7. Emitted(d) /\ d.out \in Seq(NoteEvents) /\ \A x : Owes(b, x) => Owes(d, x)
    <3>1. HeldOn(d, e) /\ e.id # 0
      BY <2>2, <2>4, <2>5 DEF HeldOn
    <3>2. Emitted(b) /\ b.out \in Seq(NoteEvents)
      BY DEF BoardShape
    <3> HIDE DEF e, BoardInv
    <3> QED
      BY <2>3, <2>4, <2>6, <3>1, <3>2, EmittedOne
  <2>8. BoardShape(d)
    <3>1. b.nextId + 1 \in Nat \ {0} /\ b.octave \in Octaves
      BY DEF BoardShape
    <3>2. d.pointer \in [Slots -> Keys] /\ d.held \in [Semitones -> SUBSET Slots]
      BY <1>2, <2>3
    <3>3. d.nextId \in Nat \ {0} /\ d.octave \in Octaves
      BY <2>3, <3>1
    <3> HIDE DEF BoardInv
    <3> QED
      BY <2>3, <2>5, <2>7, <3>2, <3>3 DEF BoardShape
  <2>9. BoardFits(d)
    <3>1. \A j \in Semitones : b.held[j] = {} <=> b.note[j].id = 0
      BY DEF BoardFits
    <3> HIDE DEF BoardInv, BoardFits
    <3>2. \A s \in Slots, j \in Semitones : s \in d.held[j] <=> d.pointer[s] = j
      BY <1>2, <2>3
    <3>3. ASSUME NEW j \in Semitones PROVE d.held[j] = {} <=> d.note[j].id = 0
      <4>1. CASE j = k
        BY <1>2, <2>2, <2>3, <2>5, <4>1
      <4>2. CASE j # k
        <5>1. d.held[j] = b.held[j]
          BY <1>2, <2>3, <4>2
        <5>2. d.note[j] = b.note[j]
          BY <2>5, <4>2
        <5> QED
          BY <3>1, <5>1, <5>2
      <4> QED
        BY <4>1, <4>2
    <3> QED
      BY <3>2, <3>3 DEF BoardFits
  <2> QED
    BY <1>1, <2>3, <2>7, <2>8, <2>9 DEF d
<1> QED
  BY <1>3, <1>4

(* release_all goes through the slots one after the other. *)
LEMMA SlotsInTurn ==
  ASSUME NEW b
  PROVE  \E f : /\ f[{}] = b /\ f[Slots] = ReleaseAll(b)
                /\ \A s \in SUBSET Slots : s # {} =>
                     \E c \in s : f[s] = Release(f[s \ {c}], c)
<1> DEFINE Then(f, s) == IF s = {} THEN b
                         ELSE Release(f[s \ {CHOOSE c \in s : TRUE}], CHOOSE c \in s : TRUE)
           Folds(m, f) == \A s \in SUBSET Slots : Cardinality(s) <= m => f[s] = Then(f, s)
           bad == {m \in Nat : ~ \E f : Folds(m, f)}
           n == Cardinality(Slots)
<1>1. /\ n \in Nat /\ \A s \in SUBSET Slots : Cardinality(s) \in Nat /\ Cardinality(s) <= n
      /\ \A s \in SUBSET Slots : s = {} <=> Cardinality(s) = 0
      /\ \A s \in SUBSET Slots : \A c \in s : Cardinality(s \ {c}) = Cardinality(s) - 1
  <2>1. IsFiniteSet(Slots)
    BY NoteBounds
  <2>2. \A s \in SUBSET Slots : IsFiniteSet(s) /\ Cardinality(s) <= n
    BY <2>1, FS_Subset
  <2>3. n \in Nat /\ \A s \in SUBSET Slots : Cardinality(s) \in Nat
    BY <2>1, <2>2, FS_CardinalityType
  <2>4. \A s \in SUBSET Slots : s = {} <=> Cardinality(s) = 0
    BY <2>2, FS_EmptySet
  <2>5. ASSUME NEW s \in SUBSET Slots, NEW c \in s
        PROVE  Cardinality(s \ {c}) = Cardinality(s) - 1
    BY <2>2, FS_RemoveElement
  <2> QED
    BY <2>2, <2>3, <2>4, <2>5
<1> HIDE DEF n
<1>2. \E f : Folds(0, f)
  <2> DEFINE f == [s \in SUBSET Slots |-> b]
  <2>1. \A s \in SUBSET Slots : Cardinality(s) <= 0 => s = {}
    BY <1>1
  <2>2. Folds(0, f)
    BY <2>1
  <2> QED
    BY <2>2
<1>3. ASSUME NEW m \in Nat, NEW f, Folds(m, f)
      PROVE  \E h : Folds(m + 1, h)
  <2> DEFINE h == [s \in SUBSET Slots |-> IF Cardinality(s) <= m THEN f[s] ELSE Then(f, s)]
  <2>1. ASSUME NEW s \in SUBSET Slots, Cardinality(s) <= m + 1
        PROVE  h[s] = Then(h, s)
    <3>1. h[s] = Then(f, s)
      BY <1>3
    <3>2. CASE s = {}
      BY <3>1, <3>2
    <3>3. CASE s # {}
      <4> DEFINE c == CHOOSE c \in s : TRUE
      <4>1. c \in s /\ s \ {c} \in SUBSET Slots
        BY <3>3
      <4>2. Cardinality(s \ {c}) <= m
        <5>1. Cardinality(s \ {c}) = Cardinality(s) - 1 /\ Cardinality(s) \in Nat
          BY <1>1, <4>1
        <5> QED
          BY <2>1, <5>1
      <4>3. h[s \ {c}] = f[s \ {c}]
        BY <4>1, <4>2
      <4> HIDE DEF h
      <4> QED
        BY <3>1, <3>3, <4>3
    <3> QED
      BY <3>2, <3>3
  <2>2. Folds(m + 1, h)
    BY <2>1
  <2> QED
    BY <2>2
<1>4. \E f : Folds(n, f)
  <2> HIDE DEF Folds
  <2>1. SUFFICES ASSUME n \in bad PROVE FALSE
    BY <1>1
  <2>2. PICK m \in bad : \A k \in bad : m <= k
    BY <2>1, SmallestNumber
  <2>3. m # 0 /\ m \in Nat
    BY <1>2, <2>2
  <2>4. m - 1 \in Nat /\ m - 1 \notin bad
    BY <2>2, <2>3
  <2>5. PICK f : Folds(m - 1, f)
    BY <2>4
  <2>6. \E h : Folds(m - 1 + 1, h)
    BY <1>3, <2>4, <2>5
  <2> QED
    BY <2>2, <2>3, <2>6
<1> DEFINE Iterates(f) == f = [s \in SUBSET Slots |-> Then(f, s)]
           f == CHOOSE f : Iterates(f)
<1>5. \E h : Iterates(h)
  <2>1. PICK h : Folds(n, h)
    BY <1>4
  <2> DEFINE e == [s \in SUBSET Slots |-> h[s]]
  <2>2. ASSUME NEW s \in SUBSET Slots
        PROVE  e[s] = Then(e, s)
    <3>1. h[s] = Then(h, s)
      BY <1>1, <2>1
    <3>2. s # {} => s \ {CHOOSE c \in s : TRUE} \in SUBSET Slots
      OBVIOUS
    <3>3. s # {} => e[s \ {CHOOSE c \in s : TRUE}] = h[s \ {CHOOSE c \in s : TRUE}]
      BY <3>2
    <3>4. e[s] = h[s]
      OBVIOUS
    <3> HIDE DEF e
    <3> QED
      BY <3>1, <3>3, <3>4
  <2>3. e = [s \in SUBSET Slots |-> e[s]]
    OBVIOUS
  <2>4. Iterates(e)
    <3> HIDE DEF e, Then
    <3> QED
      BY <2>2, <2>3
  <2> QED
    BY <2>4
<1>6. Iterates(f)
  BY <1>5
<1>7. ReleaseAll(b) = f[Slots]
  BY Zenon DEF ReleaseAll, FoldSet, MapThenFoldSet
<1> HIDE DEF f
<1>8. \A s \in SUBSET Slots : f[s] = Then(f, s)
  <2> HIDE DEF Then
  <2> QED
    BY <1>6
<1>9. f[{}] = b
  BY <1>8
<1>10. ASSUME NEW s \in SUBSET Slots, s # {}
       PROVE  \E c \in s : f[s] = Release(f[s \ {c}], c)
  <2>1. (CHOOSE c \in s : TRUE) \in s
    BY <1>10
  <2> QED
    BY <1>8, <1>10, <2>1
<1> QED
  BY <1>7, <1>9, <1>10

(* After it no contact is on a key, and every note that was held is ended.  *)
LEMMA ReleasingAll ==
  ASSUME NEW b, BoardInv(b)
  PROVE  /\ BoardInv(ReleaseAll(b)) /\ \A x : Owes(b, x) => Owes(ReleaseAll(b), x)
         /\ \A c \in Slots : ReleaseAll(b).pointer[c] = None
<1>1. PICK f : /\ f[{}] = b /\ f[Slots] = ReleaseAll(b)
               /\ \A s \in SUBSET Slots : s # {} => \E c \in s : f[s] = Release(f[s \ {c}], c)
  BY SlotsInTurn
<1> DEFINE Good(s) == /\ BoardInv(f[s]) /\ \A x : Owes(b, x) => Owes(f[s], x)
                      /\ \A c \in s : f[s].pointer[c] = None
           bad == {Cardinality(s) : s \in {t \in SUBSET Slots : ~ Good(t)}}
<1>2. Good({})
  BY <1>1
<1>3. ASSUME NEW s \in SUBSET Slots, NEW c \in s, f[s] = Release(f[s \ {c}], c), Good(s \ {c})
      PROVE  Good(s)
  <2> DEFINE d == f[s \ {c}]
  <2>1. BoardInv(d) /\ (\A x : Owes(b, x) => Owes(d, x)) /\ \A a \in s \ {c} : d.pointer[a] = None
    BY <1>3
  <2> HIDE DEF d
  <2>2. f[s] = Release(d, c) /\ c \in Slots
    BY <1>3 DEF d
  <2>3. BoardInv(f[s]) /\ (\A x : Owes(d, x) => Owes(f[s], x)) /\ f[s].pointer = [d.pointer EXCEPT ![c] = None]
    <3> HIDE DEF BoardInv, Owes, Good, bad
    <3>1. /\ BoardInv(Release(d, c)) /\ \A x : Owes(d, x) => Owes(Release(d, c), x)
          /\ Release(d, c).pointer = [d.pointer EXCEPT ![c] = None]
      BY <2>1, <2>2, Releasing
    <3> QED
      BY <2>2, <3>1
  <2>4. d.pointer \in [Slots -> Keys]
    BY <2>1 DEF BoardInv, BoardShape
  <2> QED
    BY <2>1, <2>3, <2>4
<1>4. IsFiniteSet(Slots)
  BY NoteBounds
<1>5. \A s \in SUBSET Slots : IsFiniteSet(s) /\ Cardinality(s) \in Nat
  BY <1>4, FS_Subset, FS_CardinalityType
<1>6. \A s \in SUBSET Slots : \A c \in s : Cardinality(s \ {c}) = Cardinality(s) - 1
  BY <1>5, FS_RemoveElement
<1>7. Good(Slots)
  <2> HIDE DEF Good
  <2>1. SUFFICES ASSUME ~ Good(Slots) PROVE FALSE
    OBVIOUS
  <2>2. bad # {} /\ bad \subseteq Nat
    BY <1>5, <2>1
  <2>3. PICK m \in bad : \A k \in bad : m <= k
    BY <2>2, SmallestNumber
  <2>4. PICK s \in SUBSET Slots : ~ Good(s) /\ m = Cardinality(s)
    BY <2>3
  <2>5. PICK c \in s : f[s] = Release(f[s \ {c}], c)
    BY <1>1, <1>2, <2>4
  <2>6. s \ {c} \in SUBSET Slots /\ ~ Good(s \ {c})
    BY <1>3, <2>4, <2>5
  <2>7. m - 1 \in bad
    BY <1>6, <2>4, <2>5, <2>6
  <2>8. m \in Nat /\ m <= m - 1
    BY <2>2, <2>3, <2>7
  <2> QED
    BY <2>8
<1> QED
  BY <1>1, <1>7
(* The events of a block are applied one after the other. *)
Sounded(r, q) == FoldLeft(Apply, r, q)
LEMMA EventsInOrder ==
  ASSUME NEW S, NEW q \in Seq(S), NEW r
  PROVE  \E g : /\ g[0] = r
                /\ \A k \in 1 .. Len(q) : g[k] = Apply(g[k - 1], q[k])
                /\ g[Len(q)] = Sounded(r, q)
<1> DEFINE Then(f, s) == IF s = {} THEN r
                         ELSE Apply(f[s \ {Max(s)}], q[Max(s)])
           Folds(n, f) == f = [s \in SUBSET (1 .. n) |-> Then(f, s)]
           n == Len(q)
           bad == {m \in Nat : ~ \E f : Folds(m, f)}
<1>1. n \in Nat /\ DOMAIN q = 1 .. n
  BY LenProperties
<1>2. \E f : Folds(0, f)
  <2> DEFINE f == [s \in SUBSET (1 .. 0) |-> r]
  <2>1. \A s \in SUBSET (1 .. 0) : Then(f, s) = r
    OBVIOUS
  <2>2. Folds(0, f)
    BY <2>1
  <2> QED
    BY <2>2
<1>3. ASSUME NEW m \in Nat, NEW f, Folds(m, f)
      PROVE  \E h : Folds(m + 1, h)
  <2> DEFINE h == [s \in SUBSET (1 .. m + 1) |->
                     IF m + 1 \in s THEN Apply(f[s \ {m + 1}], q[m + 1]) ELSE f[s]]
  <2>1. ASSUME NEW s \in SUBSET (1 .. m + 1)
        PROVE  h[s] = Then(h, s)
    <3>1. CASE m + 1 \in s
      <4>1. Max(s) = m + 1
        <5>1. \A y \in s : m + 1 >= y
          OBVIOUS
        <5>2. \A x \in s : (\A y \in s : x >= y) => x = m + 1
          BY <3>1, <5>1
        <5> QED
          BY <3>1, <5>1, <5>2 DEF Max
      <4>2. s \ {m + 1} \in SUBSET (1 .. m) /\ s \ {m + 1} \in SUBSET (1 .. m + 1)
        OBVIOUS
      <4>3. h[s \ {m + 1}] = f[s \ {m + 1}]
        BY <4>2
      <4>4. h[s] = Apply(f[s \ {m + 1}], q[m + 1])
        BY <3>1
      <4> HIDE DEF h
      <4> QED
        BY <3>1, <4>1, <4>3, <4>4
    <3>2. CASE m + 1 \notin s
      <4>1. s \in SUBSET (1 .. m)
        BY <3>2
      <4>2. h[s] = f[s] /\ h[s \ {Max(s)}] = f[s \ {Max(s)}]
        BY <3>2
      <4>3. f[s] = Then(f, s)
        BY <1>3, <4>1
      <4> HIDE DEF h
      <4> QED
        BY <4>2, <4>3
    <3> QED
      BY <3>1, <3>2
  <2>2. Folds(m + 1, h)
    <3>1. h = [s \in SUBSET (1 .. m + 1) |-> h[s]]
      OBVIOUS
    <3> HIDE DEF h, Then
    <3> QED
      BY <2>1, <3>1
  <2> QED
    BY <2>2
<1>4. \E f : Folds(n, f)
  <2> HIDE DEF Folds, n
  <2>1. SUFFICES ASSUME n \in bad PROVE FALSE
    BY <1>1
  <2>2. PICK m \in bad : \A k \in bad : m <= k
    BY <2>1, SmallestNumber
  <2>3. m # 0 /\ m \in Nat
    BY <1>2, <2>2
  <2>4. m - 1 \in Nat /\ m - 1 \notin bad
    BY <2>2, <2>3
  <2>5. PICK f : Folds(m - 1, f)
    BY <2>4
  <2>6. \E h : Folds(m - 1 + 1, h)
    BY <1>3, <2>4, <2>5
  <2> QED
    BY <2>2, <2>3, <2>6
<1> DEFINE f == CHOOSE f : Folds(n, f)
<1>5. Folds(n, f)
  BY <1>4
<1>6. Sounded(r, q) = f[1 .. n]
  BY <1>1, Zenon DEF Sounded, FoldLeft, MapThenFoldSet
<1> HIDE DEF f
<1> DEFINE g == [k \in 0 .. n |-> f[1 .. k]]
<1>7. g[0] = r
  <2>1. 1 .. 0 = {} /\ {} \in SUBSET (1 .. n)
    OBVIOUS
  <2>2. f[{}] = r
    BY <1>5, <2>1
  <2> HIDE DEF n
  <2> QED
    BY <1>1, <2>1, <2>2
<1>8. ASSUME NEW k \in 1 .. n
      PROVE  g[k] = Apply(g[k - 1], q[k])
  <2> HIDE DEF n, Then
  <2>1. 1 .. k \in SUBSET (1 .. n) /\ k \in 1 .. k /\ (1 .. k) \ {k} = 1 .. k - 1
        /\ k - 1 \in 0 .. n /\ k \in 0 .. n
    BY <1>1
  <2>2. Max(1 .. k) = k
    <3>1. \A y \in 1 .. k : k >= y
      OBVIOUS
    <3>2. \A x \in 1 .. k : (\A y \in 1 .. k : x >= y) => x = k
      BY <1>1, <2>1
    <3> QED
      BY <2>1, <3>1, <3>2 DEF Max
  <2>3. f[1 .. k] = Then(f, 1 .. k)
    BY <1>5, <2>1
  <2>4. Then(f, 1 .. k) = Apply(f[1 .. k - 1], q[k])
    BY <2>1, <2>2 DEF Then
  <2> QED
    BY <2>1, <2>3, <2>4
<1>9. g[n] = f[1 .. n]
  BY <1>1
<1> HIDE DEF g
<1> QED
  BY <1>6, <1>7, <1>8, <1>9

(* A note-on that no note-off in the sequence follows is still open. *)
Starts(e, x) == e.on /\ e.id = x.id /\ e.key = x.key
OpenNote(q, x) == \E i \in DOMAIN q : Starts(q[i], x) /\ ~ Later(q, i, Off(x))
HeldIn(v, x) == \E i \in 1 .. Voices : v[i].stage = "held" /\ v[i].id = x.id /\ v[i].key = x.key

(* One event: a note-off leaves no voice held with its note.  *)
LEMMA EventEffect ==
  ASSUME NEW r, r.v \in [1 .. Voices -> VoiceRecords], DOMAIN r = {"v", "steal"},
         NEW e \in NoteEvents
  PROVE  LET d == Apply(r, e)
         IN /\ d.v \in [1 .. Voices -> VoiceRecords] /\ DOMAIN d = {"v", "steal"}
            /\ \A x : HeldIn(d.v, x) => \/ HeldIn(r.v, x) /\ e # Off(x)
                                       \/ Starts(e, x)
<1> DEFINE d == Apply(r, e)
<1>0. /\ e.id \in Nat /\ e.key \in Nat /\ e.on \in BOOLEAN
      /\ \A i \in 1 .. Voices : /\ DOMAIN r.v[i] = {"id", "key", "stage"} /\ r.v[i] \in VoiceRecords
  BY DEF NoteEvents, VoiceRecords
<1>1. CASE e.on
  <2> DEFINE n == [id |-> e.id, key |-> e.key, stage |-> "held"]
  <2>1. \E i : d.v = [r.v EXCEPT ![i] = n] /\ DOMAIN d = {"v", "steal"}
    BY <1>1 DEF Apply
  <2>2. n \in VoiceRecords /\ n.id = e.id /\ n.key = e.key
    BY <1>0 DEF VoiceRecords
  <2> HIDE DEF n, d
  <2>3. d.v \in [1 .. Voices -> VoiceRecords] /\ \A j \in 1 .. Voices : d.v[j] \in {r.v[j], n}
    BY <2>1, <2>2
  <2>4. ASSUME NEW x, HeldIn(d.v, x)
        PROVE  (HeldIn(r.v, x) /\ e # Off(x)) \/ Starts(e, x)
    <3>1. e # Off(x)
      BY <1>1 DEF Off
    <3>2. PICK j \in 1 .. Voices : d.v[j].stage = "held" /\ d.v[j].id = x.id /\ d.v[j].key = x.key
      BY <2>4 DEF HeldIn
    <3>3. CASE d.v[j] = r.v[j]
      BY <3>1, <3>2, <3>3 DEF HeldIn
    <3>4. CASE d.v[j] = n
      BY <1>1, <2>2, <3>2, <3>4 DEF Starts
    <3> QED
      BY <2>3, <3>3, <3>4
  <2> QED
    BY <2>1, <2>3, <2>4 DEF d
<1>2. CASE ~ e.on
  <2>1. /\ d.v = [i \in 1 .. Voices |-> IF Matches(r.v[i], e) THEN [r.v[i] EXCEPT !.stage = "release"] ELSE r.v[i]]
        /\ DOMAIN d = {"v", "steal"}
    BY <1>2 DEF Apply
  <2> HIDE DEF d
  <2>2. ASSUME NEW i \in 1 .. Voices
        PROVE  /\ d.v[i] \in VoiceRecords
               /\ d.v[i].stage = "held" => d.v[i] = r.v[i] /\ ~ (r.v[i].id = e.id /\ r.v[i].key = e.key)
    <3>1. CASE Matches(r.v[i], e)
      BY <1>0, <2>1, <3>1 DEF VoiceRecords
    <3>2. CASE ~ Matches(r.v[i], e)
      BY <1>0, <2>1, <3>2 DEF Matches
    <3> QED
      BY <3>1, <3>2
  <2>3. ASSUME NEW x, HeldIn(d.v, x)
        PROVE  HeldIn(r.v, x) /\ e # Off(x)
    BY <2>2, <2>3 DEF HeldIn, Off
  <2>4. d.v \in [1 .. Voices -> VoiceRecords]
    BY <2>1, <2>2
  <2> QED
    BY <2>1, <2>3, <2>4 DEF d
<1> QED
  BY <1>0, <1>1, <1>2

LEMMA BatchEffect ==
  ASSUME NEW r, r.v \in [1 .. Voices -> VoiceRecords], DOMAIN r = {"v", "steal"},
         NEW q \in Seq(NoteEvents)
  PROVE  LET d == Sounded(r, q)
         IN /\ d.v \in [1 .. Voices -> VoiceRecords]
            /\ \A x : HeldIn(d.v, x) => \/ HeldIn(r.v, x) /\ ~ Has(q, Off(x))
                                       \/ OpenNote(q, x)
<1> DEFINE n == Len(q)
           s == Sounded(r, q)
<1>1. n \in Nat /\ DOMAIN q = 1 .. n /\ \A k \in 1 .. n : q[k] \in NoteEvents
  BY LenProperties, ElementOfSeq
<1>2. PICK g : /\ g[0] = r /\ g[n] = s
               /\ \A k \in 1 .. n : g[k] = Apply(g[k - 1], q[k])
  BY EventsInOrder
<1> HIDE DEF n, s
<1> DEFINE Kept(k, x) == HeldIn(r.v, x) /\ \A i \in 1 .. k : q[i] # Off(x)
           Begun(k, x) == \E i \in 1 .. k : Starts(q[i], x) /\ \A j \in i + 1 .. k : q[j] # Off(x)
           Good(k) == /\ g[k].v \in [1 .. Voices -> VoiceRecords] /\ DOMAIN g[k] = {"v", "steal"}
                      /\ \A x : HeldIn(g[k].v, x) => Kept(k, x) \/ Begun(k, x)
           bad == {k \in 0 .. n : ~ Good(k)}
<1>3. Good(0)
  BY <1>2
<1>4. ASSUME NEW k \in 1 .. n, Good(k - 1)
      PROVE  Good(k)
  <2> DEFINE s1 == g[k - 1]  s2 == g[k]  e == q[k]
  <2>1. /\ e \in NoteEvents /\ s2 = Apply(s1, e) /\ DOMAIN s1 = {"v", "steal"}
        /\ s1.v \in [1 .. Voices -> VoiceRecords]
    BY <1>1, <1>2, <1>4
  <2> HIDE DEF s1, s2
  <2>2. /\ s2.v \in [1 .. Voices -> VoiceRecords] /\ DOMAIN s2 = {"v", "steal"}
        /\ \A x : HeldIn(s2.v, x) => \/ HeldIn(s1.v, x) /\ e # Off(x)
                                    \/ Starts(e, x)
    BY <2>1, EventEffect
  <2>3. ASSUME NEW x, HeldIn(s2.v, x)
        PROVE  Kept(k, x) \/ Begun(k, x)
    <3>1. CASE Starts(e, x)
      BY <1>1, <3>1
    <3>2. CASE HeldIn(s1.v, x) /\ e # Off(x)
      <4>1. CASE Kept(k - 1, x)
        <5>1. \A i \in 1 .. k : i \in 1 .. k - 1 \/ i = k
          BY <1>1
        <5> QED
          BY <3>2, <4>1, <5>1
      <4>2. CASE Begun(k - 1, x)
        <5>1. PICK i \in 1 .. k - 1 : Starts(q[i], x) /\ \A j \in i + 1 .. k - 1 : q[j] # Off(x)
          BY <4>2
        <5>2. i \in 1 .. k /\ \A j \in i + 1 .. k : j \in i + 1 .. k - 1 \/ j = k
          BY <1>1
        <5> QED
          BY <3>2, <5>1, <5>2
      <4> QED
        BY <1>4, <3>2, <4>1, <4>2 DEF s1
    <3> QED
      BY <2>2, <2>3, <3>1, <3>2
  <2> QED
    BY <2>2, <2>3 DEF s2
<1>5. Good(n)
  <2> HIDE DEF Good
  <2>1. SUFFICES ASSUME n \in bad PROVE FALSE
    BY <1>1
  <2>2. PICK m \in bad : \A k \in bad : m <= k
    <3>1. bad \subseteq Nat
      BY <1>1
    <3> HIDE DEF bad
    <3> QED
      BY <2>1, <3>1, SmallestNumber
  <2>3. m \in 1 .. n
    BY <1>1, <1>3, <2>2
  <2>4. m - 1 \in 0 .. n /\ ~ (m - 1 \in bad)
    BY <1>1, <2>2, <2>3
  <2> QED
    BY <1>4, <2>2, <2>3, <2>4
<1>6. ASSUME NEW x, Begun(n, x)
      PROVE  OpenNote(q, x)
  <2>1. PICK i \in 1 .. n : Starts(q[i], x) /\ \A j \in i + 1 .. n : q[j] # Off(x)
    BY <1>6
  <2>2. \A j \in DOMAIN q : i < j => j \in i + 1 .. n
    BY <1>1
  <2> QED
    BY <1>1, <2>1, <2>2 DEF OpenNote, Later
<1>7. \A x : Kept(n, x) => HeldIn(r.v, x) /\ ~ Has(q, Off(x))
  BY <1>1 DEF Has
<1> QED
  BY <1>2, <1>5, <1>6, <1>7 DEF s

-----------------------------------------------------------------------------
(* From the kernel to the voices                                           *)

Packets == {Lost} \cup {p \in [of : Slots, named : BOOLEAN, id : Nat \cup {None}, key : Keys] :
                          p.id # None => p.key # None}
NoteShapes ==
  /\ finger \in [Slots -> Keys] /\ kernelSlot \in Slots /\ contactIds \in Nat /\ packets \in Seq(Packets)
  /\ slot \in Slots /\ contact \in [Slots -> Nat \cup {None}]
  /\ BoardInv(board) /\ board.out = <<>>
  /\ calls \in Seq(NoteEvents) /\ notes \in Seq(NoteEvents) /\ Len(notes) <= NoteQueue
  /\ noteOverflow \in BOOLEAN /\ voices \in [1 .. Voices -> VoiceRecords]
  /\ DOMAIN noteBlock = {"open", "flagged", "events"} /\ noteBlock.events \in Seq(NoteEvents)
  /\ noteBlock.open \in BOOLEAN /\ noteBlock.flagged \in BOOLEAN
  /\ ~ noteBlock.open => noteBlock = NoBlock

(* Only a reported contact can be on a key; without a reader there is none. *)
PointersReported == \A c \in Slots : contact[c] = None => board.pointer[c] = None
ReaderOff == display # "running" => packets = <<>> /\ \A c \in Slots : contact[c] = None

(* What the packets do to the contact of a slot whose finger is up: it is   *)
(* not there, or one of them ends it or all, and none begins it again.      *)
Quiet(q, from, s) == \A j \in DOMAIN q : from < j /\ q[j].of = s => q[j].id = None
Closes(p, s) == p = Lost \/ (p.of = s /\ p.id = None)
Settles(q, s, id) == \/ id = None /\ Quiet(q, 0, s)
                     \/ \E i \in DOMAIN q : Closes(q[i], s) /\ Quiet(q, i, s)
KernelSync == \A s \in Slots : finger[s] = None => Settles(packets, s, contact[s])

(* A note that is in some stage is ended behind it, or the key is held, or  *)
(* a flagged block is still to come that resets the voices.                 *)
FlagComing == Has(calls, Overflowed) \/ noteOverflow
Rest(x) == HeldOn(board, x) \/ Has(calls, Off(x)) \/ FlagComing
Flagged == noteBlock.open /\ noteBlock.flagged
CallsOwed == \A i \in DOMAIN calls : calls[i].on =>
               Later(calls, i, Off(calls[i])) \/ HeldOn(board, calls[i])
NotesOwed == \A i \in DOMAIN notes : notes[i].on =>
               \/ Later(notes, i, Off(notes[i])) \/ Rest(notes[i])
               \/ Flagged /\ i + Len(noteBlock.events) <= NoteQueue
BlockOwed == \A i \in DOMAIN noteBlock.events : noteBlock.events[i].on =>
               \/ Later(noteBlock.events, i, Off(noteBlock.events[i]))
               \/ Has(notes, Off(noteBlock.events[i])) \/ Rest(noteBlock.events[i]) \/ Flagged
VoicesOwed == \A x : HeldIn(voices, x) =>
               \/ Has(noteBlock.events, Off(x)) \/ Has(notes, Off(x)) \/ Rest(x) \/ Flagged
Owed == CallsOwed /\ NotesOwed /\ BlockOwed /\ VoicesOwed
NoteInv ==
  misled \/ (NoteShapes /\ PointersReported /\ ReaderOff /\ KernelSync /\ Owed)

LEMMA SlotTypes == Min(Slots) \in Slots
<1>1. PICK o \in Slots : \A p \in Slots : o <= p
  BY NoteBounds, SmallestNumber
<1> QED
  BY <1>1 DEF Min

LEMMA FreshBoardFits ==
  /\ BoardInv(FreshBoard) /\ FreshBoard.out = <<>>
  /\ \A c \in Slots : FreshBoard.pointer[c] = None
<1>1. /\ DOMAIN FreshBoard = BoardFields
      /\ FreshBoard.pointer = [c \in Slots |-> None] /\ FreshBoard.held = [k \in Semitones |-> {}]
      /\ FreshBoard.note = [k \in Semitones |-> [id |-> 0, key |-> 0]]
      /\ FreshBoard.nextId = 1 /\ FreshBoard.octave = Min(Octaves) /\ FreshBoard.out = <<>>
  BY DEF FreshBoard, BoardFields
<1>2. BoardShape(FreshBoard)
  BY <1>1, NoteTypes, EmptySeq DEF BoardShape, Keys
<1>3. BoardFits(FreshBoard)
  BY <1>1, NoteTypes DEF BoardFits
<1>4. Emitted(FreshBoard)
  BY <1>1 DEF Emitted
<1> QED
  BY <1>1, <1>2, <1>3, <1>4 DEF BoardInv

LEMMA NoteInvInit == NoteInit => NoteInv
<1> SUFFICES ASSUME NoteInit PROVE NoteInv
  OBVIOUS
<1>1. NoteShapes
  <2>1. <<>> \in Seq(Packets) /\ <<>> \in Seq(NoteEvents) /\ Len(<<>>) = 0
    BY EmptySeq
  <2>2. Silent \in VoiceRecords
    BY DEF Silent, VoiceRecords
  <2>3. NoBlock.open = FALSE /\ NoBlock.flagged = FALSE /\ NoBlock.events = <<>>
        /\ DOMAIN NoBlock = {"open", "flagged", "events"}
    BY DEF NoBlock
  <2>4. /\ finger \in [Slots -> Keys] /\ kernelSlot \in Slots /\ contactIds \in Nat
        /\ slot \in Slots /\ contact \in [Slots -> Nat \cup {None}]
    BY SlotTypes DEF NoteInit, Keys
  <2>5. /\ packets \in Seq(Packets) /\ calls \in Seq(NoteEvents)
        /\ notes \in Seq(NoteEvents) /\ Len(notes) <= NoteQueue
    BY <2>1, NoteTypes DEF NoteInit
  <2>6. noteOverflow \in BOOLEAN /\ voices \in [1 .. Voices -> VoiceRecords]
    BY <2>2 DEF NoteInit
  <2>7. noteBlock = NoBlock /\ BoardInv(board) /\ board.out = <<>>
    BY FreshBoardFits DEF NoteInit
  <2> QED
    BY <2>1, <2>3, <2>4, <2>5, <2>6, <2>7 DEF NoteShapes
<1>2. PointersReported /\ ReaderOff
  BY FreshBoardFits DEF NoteInit, PointersReported, ReaderOff
<1>3. KernelSync
  BY DEF NoteInit, KernelSync, Settles, Quiet
<1>4. Owed
  <2>1. CallsOwed /\ NotesOwed
    BY DEF NoteInit, CallsOwed, NotesOwed
  <2>2. BlockOwed
    BY DEF NoteInit, BlockOwed, NoBlock
  <2>3. VoicesOwed
    BY DEF NoteInit, VoicesOwed, HeldIn, Silent
  <2> QED
    BY <2>1, <2>2, <2>3 DEF Owed
<1> QED
  BY <1>1, <1>2, <1>3, <1>4 DEF NoteInv

(* A packet more, and a packet taken. *)
LEMMA PacketComes ==
  ASSUME NEW q \in Seq(Packets), NEW p \in Packets, NEW s \in Slots, NEW id, Settles(q, s, id),
         p.of = s => p.id = None
  PROVE  Settles(Append(q, p), s, id)
<1>1. /\ Append(q, p) \in Seq(Packets) /\ Len(q) \in Nat /\ DOMAIN q = 1 .. Len(q)
      /\ DOMAIN Append(q, p) = 1 .. Len(q) + 1 /\ Append(q, p)[Len(q) + 1] = p
      /\ \A i \in DOMAIN q : Append(q, p)[i] = q[i]
  BY Lengthened
<1> DEFINE r == Append(q, p)
<1> HIDE DEF r
<1>2. ASSUME NEW from, Quiet(q, from, s)
      PROVE  Quiet(r, from, s)
  <2> SUFFICES ASSUME NEW j \in DOMAIN r, from < j, r[j].of = s PROVE r[j].id = None
    BY DEF Quiet
  <2>1. j \in DOMAIN q \/ j = Len(q) + 1
    BY <1>1 DEF r
  <2> QED
    BY <1>1, <1>2, <2>1 DEF r, Quiet
<1>3. CASE id = None /\ Quiet(q, 0, s)
  BY <1>2, <1>3 DEF Settles, r
<1>4. ASSUME NEW i \in DOMAIN q, Closes(q[i], s), Quiet(q, i, s)
      PROVE  Settles(r, s, id)
  <2>1. i \in DOMAIN r /\ r[i] = q[i]
    BY <1>1 DEF r
  <2> QED
    BY <1>2, <1>4, <2>1 DEF Settles
<1> QED
  BY <1>3, <1>4 DEF Settles, r

LEMMA PacketTaken ==
  ASSUME NEW q \in Seq(Packets), q # <<>>, NEW s \in Slots, NEW id, Settles(q, s, id),
         NEW after, Head(q) = Lost => after = None,
         Head(q) # Lost => after = IF Head(q).of = s THEN Head(q).id ELSE id
  PROVE  Settles(Tail(q), s, after)
<1>1. /\ Tail(q) \in Seq(Packets) /\ Len(q) \in Nat \ {0} /\ DOMAIN q = 1 .. Len(q)
      /\ DOMAIN Tail(q) = 1 .. Len(q) - 1 /\ Head(q) = q[1]
      /\ \A i \in DOMAIN Tail(q) : Tail(q)[i] = q[i + 1]
  BY Shortened
<1> DEFINE r == Tail(q)
<1> HIDE DEF r
<1>2. ASSUME NEW i \in Nat, Quiet(q, i + 1, s)
      PROVE  Quiet(r, i, s)
  <2> SUFFICES ASSUME NEW j \in DOMAIN r, i < j, r[j].of = s PROVE r[j].id = None
    BY DEF Quiet
  <2>1. j + 1 \in DOMAIN q /\ i + 1 < j + 1 /\ r[j] = q[j + 1]
    BY <1>1 DEF r
  <2> QED
    BY <1>2, <2>1 DEF Quiet
<1>3. CASE id = None /\ Quiet(q, 0, s)
  <2>1. Quiet(q, 1, s) /\ (q[1].of = s => q[1].id = None)
    BY <1>1, <1>3 DEF Quiet
  <2>2. Quiet(r, 0, s)
    BY <1>2, <2>1
  <2>3. after = None
    BY <1>1, <1>3, <2>1
  <2> QED
    BY <2>2, <2>3 DEF Settles, r
<1>4. ASSUME NEW i \in DOMAIN q, Closes(q[i], s), Quiet(q, i, s)
      PROVE  Settles(r, s, after)
  <2>1. CASE i = 1
    <3>1. Quiet(r, 0, s)
      BY <1>2, <1>4, <2>1
    <3>2. after = None
      BY <1>1, <1>4, <2>1 DEF Closes
    <3> QED
      BY <3>1, <3>2 DEF Settles
  <2>2. CASE i # 1
    <3>1. i - 1 \in Nat /\ i - 1 \in DOMAIN r /\ r[i - 1] = q[i] /\ i - 1 + 1 = i
      BY <1>1, <2>2 DEF r
    <3>2. Quiet(r, i - 1, s)
      BY <1>2, <1>4, <3>1
    <3> QED
      BY <1>4, <3>1, <3>2 DEF Settles
  <2> QED
    BY <2>1, <2>2
<1> QED
  BY <1>3, <1>4 DEF Settles, r

(* What the display thread does to the keyboard keeps what is owed. *)
LEMMA BoardPlays ==
  ASSUME NoteShapes, Owed, calls = <<>>, NEW b, BoardInv(b),
         \A x : HeldOn(board, x) => Owes(b, x), Play(b),
         UNCHANGED <<notes, noteOverflow, noteBlock, voices>>
  PROVE  /\ Owed' /\ BoardInv(board') /\ board'.out = <<>> /\ calls' \in Seq(NoteEvents)
         /\ board'.pointer = b.pointer
<1>1. /\ DOMAIN b = BoardFields /\ board' = [b EXCEPT !.out = <<>>] /\ calls' = b.out
      /\ b.out \in Seq(NoteEvents)
  BY DEF Play, BoardInv, BoardShape
<1>2. /\ DOMAIN board' = BoardFields /\ board'.out = <<>> /\ board'.pointer = b.pointer
      /\ board'.held = b.held /\ board'.note = b.note /\ board'.nextId = b.nextId
      /\ board'.octave = b.octave
  BY <1>1 DEF BoardFields
<1>3. \A x : HeldOn(board', x) <=> HeldOn(b, x)
  BY <1>2 DEF HeldOn
<1>4. BoardInv(board')
  <2>1. BoardShape(board')
    BY <1>2, EmptySeq DEF BoardInv, BoardShape
  <2>2. BoardFits(board')
    BY <1>2 DEF BoardInv, BoardFits
  <2>3. Emitted(board')
    BY <1>2 DEF Emitted
  <2> QED
    BY <2>1, <2>2, <2>3 DEF BoardInv
<1>5. ASSUME NEW x, Rest(x)
      PROVE  Rest(x)'
  <2>1. ~ Has(calls, Off(x)) /\ ~ Has(calls, Overflowed)
    BY DEF Has
  <2>2. CASE HeldOn(board, x)
    <3>1. HeldOn(b, x) \/ Has(b.out, Off(x))
      BY <2>2 DEF Owes
    <3> QED
      BY <1>1, <1>3, <3>1 DEF Rest
  <2>3. CASE noteOverflow
    BY <2>3 DEF Rest, FlagComing
  <2> QED
    BY <1>5, <2>1, <2>2, <2>3 DEF Rest, FlagComing
<1>6. CallsOwed'
  <2>1. Emitted(b)
    BY DEF BoardInv
  <2> QED
    BY <1>1, <1>3, <2>1 DEF Emitted, CallsOwed
<1>7. NotesOwed'
  BY <1>5 DEF Owed, NotesOwed, Flagged
<1>8. BlockOwed'
  BY <1>5 DEF Owed, BlockOwed, Flagged
<1>9. VoicesOwed'
  BY <1>5 DEF Owed, VoicesOwed, Flagged
<1> QED
  BY <1>1, <1>2, <1>4, <1>6, <1>7, <1>8, <1>9 DEF Owed

LEMMA KernelStep ==
  ASSUME NoteInv, ~ misled, NEW s \in Slots, NEW k \in Keys, KernelReports(s, k)
  PROVE  NoteInv'
<1>0. NoteShapes /\ PointersReported /\ ReaderOff /\ KernelSync /\ Owed
  BY DEF NoteInv
<1> DEFINE p == [of |-> s, named |-> s # kernelSlot, key |-> k,
                 id |-> IF k = None THEN None ELSE contactIds']
<1>1. /\ finger' = [finger EXCEPT ![s] = k] /\ kernelSlot' = s
      /\ contactIds' = IF k = None THEN contactIds ELSE contactIds + 1
      /\ packets' = IF display # "running" THEN packets
                    ELSE IF Len(packets) < KernelBuffer THEN Append(packets, p) ELSE <<Lost>>
      /\ UNCHANGED <<slot, contact, board, calls, display, notes, noteOverflow, noteBlock, voices, misled>>
  BY DEF KernelReports, panelVars, synthVars
<1>2. contactIds' \in Nat /\ p \in Packets /\ p.of = s /\ (p.id = None <=> k = None)
  <2>1. contactIds \in Nat
    BY <1>0 DEF NoteShapes
  <2>2. contactIds' \in Nat
    BY <1>1, <2>1
  <2> QED
    BY <2>2 DEF Packets, None
<1> HIDE DEF p
<1>3. Lost \in Packets /\ <<Lost>> \in Seq(Packets) /\ DOMAIN <<Lost>> = {1} /\ <<Lost>>[1] = Lost
  BY DEF Packets
<1>4. NoteShapes'
  <2>1. packets' \in Seq(Packets)
    BY <1>0, <1>1, <1>2, <1>3, AppendProperties DEF NoteShapes
  <2>2. finger' \in [Slots -> Keys]
    BY <1>0, <1>1 DEF NoteShapes
  <2> QED
    BY <1>0, <1>1, <1>2, <2>1, <2>2 DEF NoteShapes
<1>5. PointersReported' /\ ReaderOff'
  BY <1>0, <1>1 DEF PointersReported, ReaderOff
<1>6. KernelSync'
  <2> SUFFICES ASSUME NEW t \in Slots, finger'[t] = None
               PROVE  Settles(packets', t, contact'[t])
    BY DEF KernelSync
  <2>0. packets \in Seq(Packets) /\ finger \in [Slots -> Keys]
    BY <1>0 DEF NoteShapes
  <2>1. t = s => k = None
    BY <1>1, <2>0
  <2>2. t # s => Settles(packets, t, contact[t])
    BY <1>0, <1>1, <2>0 DEF KernelSync
  <2>3. CASE display # "running"
    <3>1. packets = <<>> /\ contact[t] = None
      BY <1>0, <2>3 DEF ReaderOff
    <3> QED
      BY <1>1, <2>3, <3>1 DEF Settles, Quiet
  <2>4. CASE display = "running" /\ Len(packets) < KernelBuffer
    <3>1. packets' = Append(packets, p)
      BY <1>1, <2>4
    <3>2. CASE t # s
      BY <1>1, <1>2, <2>0, <2>2, <3>1, <3>2, PacketComes
    <3>3. CASE t = s
      <4>1. /\ Len(packets) \in Nat /\ DOMAIN packets' = 1 .. Len(packets) + 1
            /\ packets'[Len(packets) + 1] = p
        BY <1>2, <2>0, <3>1, Lengthened
      <4>2. Closes(p, t)
        BY <1>2, <2>1, <3>3 DEF Closes
      <4>3. Quiet(packets', Len(packets) + 1, t)
        BY <4>1 DEF Quiet
      <4> QED
        BY <4>1, <4>2, <4>3 DEF Settles
    <3> QED
      BY <3>2, <3>3
  <2>5. CASE display = "running" /\ ~ (Len(packets) < KernelBuffer)
    <3>1. packets' = <<Lost>>
      BY <1>1, <2>5
    <3>2. Closes(Lost, t) /\ Quiet(<<Lost>>, 1, t)
      BY <1>3 DEF Closes, Quiet
    <3> QED
      BY <1>3, <3>1, <3>2 DEF Settles
  <2> QED
    BY <2>3, <2>4, <2>5
<1>7. Owed'
  BY <1>0, <1>1 DEF Owed, CallsOwed, NotesOwed, BlockOwed, VoicesOwed, Rest, FlagComing, Flagged
<1> QED
  BY <1>4, <1>5, <1>6, <1>7 DEF NoteInv

LEMMA ConsumeStep ==
  ASSUME NoteInv, ~ misled, Consume, ~ misled'
  PROVE  NoteInv'
<1>0. NoteShapes /\ PointersReported /\ ReaderOff /\ KernelSync /\ Owed
  BY DEF NoteInv
<1> DEFINE p == Head(packets)
           c == IF p.named THEN p.of ELSE slot
           ended == IF contact[c] # None /\ contact[c] # p.id THEN Release(board, c) ELSE board
           begins == p.id # None /\ contact[c] # p.id
           b == IF begins THEN Press(ended, c, p.key) ELSE ended
<1>1. /\ p # Lost /\ packets # <<>> /\ calls = <<>> /\ c = p.of
      /\ slot' = c /\ contact' = [contact EXCEPT ![c] = p.id] /\ Play(b) /\ packets' = Tail(packets)
      /\ display = "running" /\ display' = display
      /\ UNCHANGED <<finger, kernelSlot, contactIds, notes, noteOverflow, noteBlock, voices>>
  BY DEF Consume, ReadsTouch, kernelVars, synthVars
<1>2. /\ p \in Packets /\ Tail(packets) \in Seq(Packets)
      /\ contact \in [Slots -> Nat \cup {None}]
  BY <1>0, <1>1, Shortened DEF NoteShapes
<1>3. /\ c \in Slots /\ p.id \in Nat \cup {None} /\ (p.id # None => p.key \in Semitones)
  BY <1>1, <1>2 DEF Packets, Keys
<1> HIDE DEF p, c
<1>4. BoardInv(board) /\ (\A x : HeldOn(board, x) => Owes(board, x)) /\ board.pointer \in [Slots -> Keys]
  BY <1>0 DEF NoteShapes, BoardInv, BoardShape, Owes
<1>5. /\ BoardInv(ended) /\ (\A x : HeldOn(board, x) => Owes(ended, x))
      /\ \A d \in Slots \ {c} : ended.pointer[d] = board.pointer[d]
      /\ (contact[c] = p.id /\ p.id # None) \/ ended.pointer[c] = None
  <2>1. CASE contact[c] # None /\ contact[c] # p.id
    <3>1. ended = Release(board, c)
      BY <2>1
    <3>2. BoardInv(Release(board, c)) /\ (\A x : Owes(board, x) => Owes(Release(board, c), x))
          /\ Release(board, c).pointer = [board.pointer EXCEPT ![c] = None]
      BY <1>3, <1>4, Releasing
    <3> QED
      BY <1>3, <1>4, <3>1, <3>2
  <2>2. CASE ~ (contact[c] # None /\ contact[c] # p.id)
    <3>1. ended = board
      BY <2>2
    <3>2. contact[c] = None => board.pointer[c] = None
      BY <1>0, <1>3 DEF PointersReported
    <3> QED
      BY <1>4, <2>2, <3>1, <3>2
  <2> QED
    BY <2>1, <2>2
<1>6. ended.pointer \in [Slots -> Keys]
  BY <1>5 DEF BoardInv, BoardShape
<1> HIDE DEF ended
<1>7. /\ BoardInv(b) /\ (\A x : HeldOn(board, x) => Owes(b, x))
      /\ \A d \in Slots \ {c} : b.pointer[d] = board.pointer[d]
      /\ p.id = None => b.pointer[c] = None
  <2>1. CASE begins
    <3>1. b = Press(ended, c, p.key) /\ ended.pointer[c] = None /\ p.key \in Semitones /\ p.id # None
      BY <1>3, <1>5, <2>1
    <3>2. /\ BoardInv(Press(ended, c, p.key))
          /\ \A x : Owes(ended, x) => Owes(Press(ended, c, p.key), x)
          /\ Press(ended, c, p.key).pointer = [ended.pointer EXCEPT ![c] = p.key]
      BY <1>3, <1>5, <3>1, Pressing
    <3> HIDE DEF b
    <3> QED
      BY <1>3, <1>5, <1>6, <3>1, <3>2
  <2>2. CASE ~ begins
    <3>1. b = ended
      BY <2>2
    <3> HIDE DEF b
    <3> QED
      BY <1>5, <3>1
  <2> QED
    BY <2>1, <2>2
<1> HIDE DEF b
<1>8. Owed' /\ BoardInv(board') /\ board'.out = <<>> /\ calls' \in Seq(NoteEvents) /\ board'.pointer = b.pointer
  BY <1>0, <1>1, <1>7, BoardPlays
<1>9. NoteShapes'
  <2>1. contact' \in [Slots -> Nat \cup {None}]
    BY <1>1, <1>2, <1>3
  <2> QED
    BY <1>0, <1>1, <1>2, <1>3, <1>8, <2>1 DEF NoteShapes
<1>10. PointersReported'
  <2> SUFFICES ASSUME NEW d \in Slots, contact'[d] = None PROVE board'.pointer[d] = None
    BY DEF PointersReported
  <2>1. CASE d = c
    BY <1>1, <1>2, <1>3, <1>7, <1>8, <2>1
  <2>2. CASE d # c
    BY <1>0, <1>1, <1>2, <1>7, <1>8, <2>2 DEF PointersReported
  <2> QED
    BY <2>1, <2>2
<1>11. ReaderOff'
  BY <1>1 DEF ReaderOff
<1>12. KernelSync'
  <2> SUFFICES ASSUME NEW t \in Slots, finger'[t] = None
               PROVE  Settles(packets', t, contact'[t])
    BY DEF KernelSync
  <2>1. Settles(packets, t, contact[t]) /\ packets \in Seq(Packets)
    BY <1>0, <1>1 DEF KernelSync, NoteShapes
  <2>2. contact'[t] = IF Head(packets).of = t THEN Head(packets).id ELSE contact[t]
    BY <1>1, <1>2, <1>3 DEF p
  <2>3. Head(packets) # Lost
    BY <1>1 DEF p
  <2> QED
    BY <1>1, <2>1, <2>2, <2>3, PacketTaken
<1> QED
  BY <1>8, <1>9, <1>10, <1>11, <1>12 DEF NoteInv

(* All contacts are given up. *)
LEMMA CancelStep ==
  ASSUME NoteInv, ~ misled, calls = <<>>, contact' = [s \in Slots |-> None], Play(ReleaseAll(board)),
         \/ packets' = <<>>
         \/ display' = "running" /\ packets # <<>> /\ Head(packets) = Lost /\ packets' = Tail(packets),
         UNCHANGED <<finger, kernelSlot, contactIds, slot, notes, noteOverflow, noteBlock, voices>>
  PROVE  NoteInv'
<1>0. NoteShapes /\ PointersReported /\ ReaderOff /\ KernelSync /\ Owed
  BY DEF NoteInv
<1>1. BoardInv(board) /\ (\A x : HeldOn(board, x) => Owes(board, x)) /\ packets \in Seq(Packets)
  BY <1>0 DEF NoteShapes, Owes
<1>2. /\ BoardInv(ReleaseAll(board)) /\ \A x : Owes(board, x) => Owes(ReleaseAll(board), x)
      /\ \A c \in Slots : ReleaseAll(board).pointer[c] = None
  BY <1>1, ReleasingAll
<1>3. /\ Owed' /\ BoardInv(board') /\ board'.out = <<>> /\ calls' \in Seq(NoteEvents)
      /\ board'.pointer = ReleaseAll(board).pointer
  BY <1>0, <1>1, <1>2, BoardPlays
<1>4. NoteShapes'
  <2>1. packets' \in Seq(Packets)
    BY <1>1, EmptySeq, Shortened
  <2>2. contact' \in [Slots -> Nat \cup {None}]
    BY DEF None
  <2> QED
    BY <1>0, <1>3, <2>1, <2>2 DEF NoteShapes
<1>5. PointersReported' /\ \A s \in Slots : contact'[s] = None
  BY <1>2, <1>3 DEF PointersReported
<1>6. ReaderOff'
  BY <1>5 DEF ReaderOff
<1>7. KernelSync'
  <2> SUFFICES ASSUME NEW t \in Slots, finger'[t] = None
               PROVE  Settles(packets', t, contact'[t])
    BY DEF KernelSync
  <2>1. CASE packets' = <<>>
    BY <1>5, <2>1 DEF Settles, Quiet
  <2>2. CASE packets # <<>> /\ Head(packets) = Lost /\ packets' = Tail(packets)
    <3>1. Settles(packets, t, contact[t])
      BY <1>0 DEF KernelSync
    <3> QED
      BY <1>1, <1>5, <2>2, <3>1, PacketTaken
  <2> QED
    BY <2>1, <2>2
<1> QED
  BY <1>3, <1>4, <1>5, <1>6, <1>7 DEF NoteInv

LEMMA OctaveStep == ASSUME NoteInv, ~ misled, OctaveButton PROVE NoteInv'
<1>0. NoteShapes /\ PointersReported /\ ReaderOff /\ KernelSync /\ Owed
  BY DEF NoteInv
<1>1. PICK o \in Octaves : board' = [board EXCEPT !.octave = o]
  BY DEF OctaveButton
<1>2. /\ UNCHANGED <<finger, kernelSlot, contactIds, packets, slot, contact, calls, display, notes,
                     noteOverflow, noteBlock, voices, misled>>
  BY DEF OctaveButton, kernelVars, synthVars
<1>3. DOMAIN board = BoardFields /\ BoardShape(board)
  BY <1>0 DEF NoteShapes, BoardInv, BoardShape
<1>4. /\ DOMAIN board' = BoardFields /\ board'.out = board.out /\ board'.pointer = board.pointer
      /\ board'.held = board.held /\ board'.note = board.note /\ board'.nextId = board.nextId
      /\ board'.octave = o
  BY <1>1, <1>3 DEF BoardFields
<1>5. \A x : HeldOn(board', x) <=> HeldOn(board, x)
  BY <1>4 DEF HeldOn
<1>6. BoardInv(board') /\ board'.out = <<>>
  <2>1. BoardShape(board')
    BY <1>3, <1>4 DEF BoardShape
  <2>2. BoardFits(board')
    BY <1>0, <1>4 DEF NoteShapes, BoardInv, BoardFits
  <2>3. Emitted(board') /\ board'.out = <<>>
    BY <1>0, <1>4 DEF NoteShapes, Emitted
  <2> QED
    BY <2>1, <2>2, <2>3 DEF BoardInv
<1>7. NoteShapes' /\ PointersReported' /\ ReaderOff' /\ KernelSync'
  <2>1. NoteShapes'
    BY <1>0, <1>2, <1>6 DEF NoteShapes
  <2>2. PointersReported' /\ ReaderOff' /\ KernelSync'
    BY <1>0, <1>2, <1>4 DEF PointersReported, ReaderOff, KernelSync
  <2> QED
    BY <2>1, <2>2
<1>8. Owed'
  <2>1. \A x : Rest(x)' <=> Rest(x)
    BY <1>2, <1>5 DEF Rest, FlagComing
  <2>2. CallsOwed'
    BY <1>0, <1>2, <1>5 DEF Owed, CallsOwed
  <2>3. NotesOwed' /\ BlockOwed' /\ VoicesOwed'
    BY <1>0, <1>2, <2>1 DEF Owed, NotesOwed, BlockOwed, VoicesOwed, Flagged
  <2> QED
    BY <2>2, <2>3 DEF Owed
<1> QED
  BY <1>7, <1>8 DEF NoteInv

(* A board without a contact holds no note. *)
LEMMA NothingHeld ==
  ASSUME NEW b, BoardInv(b), \A c \in Slots : b.pointer[c] = None
  PROVE  \A x : ~ HeldOn(b, x)
<1>1. ASSUME NEW k \in Semitones PROVE b.note[k].id = 0
  <2>1. \A c \in Slots : c \notin b.held[k]
    BY NoteTypes DEF BoardInv, BoardFits
  <2>2. b.held[k] \in SUBSET Slots
    BY DEF BoardInv, BoardShape
  <2> QED
    BY <2>1, <2>2 DEF BoardInv, BoardFits
<1> QED
  BY <1>1 DEF HeldOn

LEMMA EnableStep == ASSUME NoteInv, ~ misled, Enable PROVE NoteInv'
<1>0. NoteShapes /\ PointersReported /\ ReaderOff /\ KernelSync /\ Owed
  BY DEF NoteInv
<1>1. /\ calls = <<>> /\ slot' = kernelSlot /\ board' = FreshBoard /\ display = "stopped"
      /\ UNCHANGED <<finger, kernelSlot, contactIds, packets, contact, calls, notes, noteOverflow,
                     noteBlock, voices, misled>>
  BY DEF Enable, kernelVars, synthVars
<1>2. \A c \in Slots : contact[c] = None /\ board.pointer[c] = None
  BY <1>0, <1>1 DEF ReaderOff, PointersReported
<1>3. \A x : ~ HeldOn(board, x)
  BY <1>0, <1>2, NothingHeld DEF NoteShapes
<1>4. NoteShapes'
  BY <1>0, <1>1, FreshBoardFits DEF NoteShapes
<1>5. PointersReported' /\ ReaderOff' /\ KernelSync'
  BY <1>0, <1>1, <1>2, FreshBoardFits DEF PointersReported, ReaderOff, KernelSync
<1>6. Owed'
  <2>1. \A x : Rest(x) => Rest(x)'
    BY <1>1, <1>3 DEF Rest, FlagComing
  <2>2. CallsOwed'
    BY <1>1 DEF CallsOwed
  <2>3. NotesOwed' /\ BlockOwed' /\ VoicesOwed'
    BY <1>0, <1>1, <2>1 DEF Owed, NotesOwed, BlockOwed, VoicesOwed, Flagged
  <2> QED
    BY <2>2, <2>3 DEF Owed
<1> QED
  BY <1>4, <1>5, <1>6 DEF NoteInv

(* A note moves a stage on: the reader and the board are not concerned. *)
LEMMA ReaderAside ==
  ASSUME NoteInv, ~ misled,
         UNCHANGED <<finger, kernelSlot, contactIds, packets, slot, contact, board, display>>
  PROVE  /\ NoteShapes /\ Owed /\ PointersReported' /\ ReaderOff' /\ KernelSync'
         /\ \A x : HeldOn(board', x) <=> HeldOn(board, x)
<1>1. NoteShapes /\ PointersReported /\ ReaderOff /\ KernelSync /\ Owed
  BY DEF NoteInv
<1>2. PointersReported' /\ ReaderOff' /\ KernelSync'
  BY <1>1 DEF PointersReported, ReaderOff, KernelSync
<1> QED
  BY <1>1, <1>2

LEMMA HasHeadOrTail ==
  ASSUME NEW S, NEW q \in Seq(S), q # <<>>, NEW e, Has(q, e)
  PROVE  Head(q) = e \/ Has(Tail(q), e)
<1>1. /\ Len(q) \in Nat \ {0} /\ DOMAIN q = 1 .. Len(q) /\ DOMAIN Tail(q) = 1 .. Len(q) - 1
      /\ Head(q) = q[1] /\ \A i \in DOMAIN Tail(q) : Tail(q)[i] = q[i + 1]
  BY Shortened
<1>2. PICK i \in DOMAIN q : q[i] = e
  BY DEF Has
<1>3. CASE i = 1
  BY <1>1, <1>2, <1>3
<1>4. CASE i # 1
  <2>1. i - 1 \in DOMAIN Tail(q) /\ Tail(q)[i - 1] = q[i - 1 + 1] /\ i - 1 + 1 = i
    BY <1>1, <1>4
  <2> QED
    BY <1>2, <2>1 DEF Has
<1> QED
  BY <1>3, <1>4

LEMMA LaterInTail ==
  ASSUME NEW S, NEW q \in Seq(S), q # <<>>, NEW e
  PROVE  /\ Later(q, 1, e) => Has(Tail(q), e)
         /\ \A i \in DOMAIN Tail(q) : i + 1 \in DOMAIN q /\ Tail(q)[i] = q[i + 1]
                                      /\ (Later(q, i + 1, e) => Later(Tail(q), i, e))
<1>1. /\ Len(q) \in Nat \ {0} /\ DOMAIN q = 1 .. Len(q) /\ DOMAIN Tail(q) = 1 .. Len(q) - 1
      /\ \A i \in DOMAIN Tail(q) : Tail(q)[i] = q[i + 1]
  BY Shortened
<1> DEFINE r == Tail(q)
<1> HIDE DEF r
<1>2. ASSUME NEW i \in Nat, Later(q, i + 1, e)
      PROVE  \E j \in DOMAIN r : i < j /\ r[j] = e
  <2>1. PICK j \in DOMAIN q : i + 1 < j /\ q[j] = e
    BY <1>2 DEF Later
  <2>2. j - 1 \in DOMAIN r /\ i < j - 1 /\ r[j - 1] = q[j - 1 + 1] /\ j - 1 + 1 = j
    BY <1>1, <2>1 DEF r
  <2> QED
    BY <2>1, <2>2
<1>3. Later(q, 1, e) => Has(r, e)
  <2>1. 0 \in Nat /\ 0 + 1 = 1
    OBVIOUS
  <2>2. Later(q, 1, e) => \E j \in DOMAIN r : 0 < j /\ r[j] = e
    BY <1>2, <2>1
  <2> QED
    BY <2>2 DEF Has
<1>4. ASSUME NEW i \in DOMAIN r
      PROVE  /\ i + 1 \in DOMAIN q /\ r[i] = q[i + 1]
             /\ Later(q, i + 1, e) => Later(r, i, e)
  <2>1. i \in Nat /\ i + 1 \in DOMAIN q /\ r[i] = q[i + 1]
    BY <1>1, <1>4 DEF r
  <2> QED
    BY <1>2, <2>1 DEF Later
<1> QED
  BY <1>3, <1>4 DEF r

LEMMA HasInLonger ==
  ASSUME NEW S, NEW q \in Seq(S), NEW x \in S
  PROVE  /\ Has(Append(q, x), x) /\ \A e : Has(q, e) => Has(Append(q, x), e)
         /\ \A i \in DOMAIN q : Later(Append(q, x), i, x)
         /\ \A i \in DOMAIN q : \A e : Later(q, i, e) => Later(Append(q, x), i, e)
         /\ \A i \in DOMAIN Append(q, x) : i \in DOMAIN q \/ i = Len(q) + 1
<1>1. /\ Len(q) \in Nat /\ DOMAIN q = 1 .. Len(q)
      /\ DOMAIN Append(q, x) = 1 .. Len(q) + 1 /\ Append(q, x)[Len(q) + 1] = x
      /\ \A i \in DOMAIN q : Append(q, x)[i] = q[i]
  BY Lengthened
<1> DEFINE r == Append(q, x)
<1> HIDE DEF r
<1>2. Len(q) + 1 \in DOMAIN r /\ r[Len(q) + 1] = x /\ \A i \in DOMAIN q : i < Len(q) + 1 /\ i \in DOMAIN r /\ r[i] = q[i]
  BY <1>1 DEF r
<1>3. Has(r, x) /\ (\A e : Has(q, e) => Has(r, e)) /\ \A i \in DOMAIN q : Later(r, i, x)
  BY <1>2 DEF Has, Later
<1>4. \A i \in DOMAIN q : \A e : Later(q, i, e) => Later(r, i, e)
  BY <1>2 DEF Later
<1>5. \A i \in DOMAIN r : i \in DOMAIN q \/ i = Len(q) + 1
  BY <1>1 DEF r
<1> QED
  BY <1>3, <1>4, <1>5 DEF r

LEMMA QueueNoteStep == ASSUME NoteInv, ~ misled, QueueNote PROVE NoteInv'
<1>1. /\ calls # <<>> /\ Head(calls) # Overflowed
      /\ UNCHANGED <<finger, kernelSlot, contactIds, packets, slot, contact, board, display,
                     noteOverflow, noteBlock, voices, misled>>
  BY DEF QueueNote, kernelVars, panelVars, synthVars
<1>2. /\ NoteShapes /\ Owed /\ PointersReported' /\ ReaderOff' /\ KernelSync'
      /\ \A x : HeldOn(board', x) <=> HeldOn(board, x)
  BY <1>1, ReaderAside
<1> DEFINE e == Head(calls)
<1>3. /\ calls \in Seq(NoteEvents) /\ notes \in Seq(NoteEvents) /\ NoteQueue \in Nat \ {0}
      /\ Len(calls) \in Nat \ {0} /\ DOMAIN calls = 1 .. Len(calls) /\ e = calls[1] /\ e \in NoteEvents
      /\ Tail(calls) \in Seq(NoteEvents)
  BY <1>1, <1>2, NoteTypes, Shortened DEF NoteShapes
<1> HIDE DEF e
<1>4. CASE Len(notes) < NoteQueue
  <2>1. notes' = Append(notes, e) /\ calls' = Tail(calls)
    BY <1>4 DEF QueueNote, e
  <2>2. notes' \in Seq(NoteEvents) /\ Len(notes') <= NoteQueue /\ calls' \in Seq(NoteEvents)
    <3>1. Len(Append(notes, e)) = Len(notes) + 1 /\ Len(notes) \in Nat
      BY <1>3, AppendProperties, LenProperties
    <3> QED
      BY <1>3, <1>4, <2>1, <3>1, AppendProperties
  <2>3. ASSUME NEW x, Rest(x)
        PROVE  Rest(x)' \/ e = Off(x)
    <3>1. CASE Has(calls, Off(x))
      BY <1>1, <1>3, <2>1, <3>1, HasHeadOrTail DEF Rest, e
    <3>2. CASE Has(calls, Overflowed)
      BY <1>1, <1>3, <2>1, <3>2, HasHeadOrTail DEF Rest, FlagComing
    <3> QED
      BY <1>1, <1>2, <2>3, <3>1, <3>2 DEF Rest, FlagComing
  <2>4. CallsOwed'
    <3> SUFFICES ASSUME NEW i \in DOMAIN calls', calls'[i].on
                 PROVE  Later(calls', i, Off(calls'[i])) \/ HeldOn(board', calls'[i])
      BY DEF CallsOwed
    <3>1. /\ i + 1 \in DOMAIN calls /\ calls'[i] = calls[i + 1]
          /\ Later(calls, i + 1, Off(calls'[i])) => Later(calls', i, Off(calls'[i]))
      BY <1>1, <1>3, <2>1, LaterInTail
    <3>2. Later(calls, i + 1, Off(calls'[i])) \/ HeldOn(board, calls'[i])
      BY <1>2, <3>1 DEF Owed, CallsOwed
    <3> QED
      BY <1>2, <3>1, <3>2
  <2>5. NotesOwed'
    <3> SUFFICES ASSUME NEW i \in DOMAIN notes', NEW y, y = notes'[i], y.on
                 PROVE  \/ Later(notes', i, Off(y)) \/ Rest(y)'
                        \/ Flagged' /\ i + Len(noteBlock'.events) <= NoteQueue
      BY DEF NotesOwed, Rest, FlagComing
    <3>1. CASE i \in DOMAIN notes
      <4>1. y = notes[i]
        BY <1>3, <2>1, <3>1, Lengthened
      <4>2. \/ Later(notes, i, Off(y)) \/ Rest(y)
            \/ Flagged /\ i + Len(noteBlock.events) <= NoteQueue
        BY <1>2, <3>1, <4>1 DEF Owed, NotesOwed
      <4>3. CASE Later(notes, i, Off(y))
        BY <1>3, <2>1, <3>1, <4>3, HasInLonger
      <4>4. CASE Rest(y)
        <5>1. Rest(y)' \/ e = Off(y)
          BY <2>3, <4>4
        <5> QED
          BY <1>3, <2>1, <3>1, <5>1, HasInLonger
      <4>5. CASE Flagged /\ i + Len(noteBlock.events) <= NoteQueue
        BY <1>1, <4>5 DEF Flagged
      <4> QED
        BY <4>2, <4>3, <4>4, <4>5
    <3>2. CASE i \notin DOMAIN notes
      <4>1. y = e
        <5>1. i = Len(notes) + 1
          BY <1>3, <2>1, <3>2, HasInLonger
        <5> QED
          BY <1>3, <2>1, <5>1, Lengthened
      <4>2. Later(calls, 1, Off(y)) \/ HeldOn(board, y)
        <5>1. 1 \in DOMAIN calls /\ calls[1] = y
          BY <1>3, <4>1
        <5> QED
          BY <1>2, <5>1 DEF Owed, CallsOwed
      <4>3. Later(calls, 1, Off(y)) => Has(calls', Off(y))
        BY <1>1, <1>3, <2>1, LaterInTail
      <4> QED
        BY <1>2, <4>2, <4>3 DEF Rest
    <3> QED
      BY <3>1, <3>2
  <2>6. \A x : Rest(x) \/ Has(notes, Off(x)) => Rest(x)' \/ Has(notes', Off(x))
    BY <1>3, <2>1, <2>3, HasInLonger
  <2>7. BlockOwed'
    BY <1>1, <1>2, <2>6 DEF Owed, BlockOwed, Flagged
  <2>8. VoicesOwed'
    BY <1>1, <1>2, <2>6 DEF Owed, VoicesOwed, Flagged
  <2>9. NoteShapes'
    BY <1>1, <1>2, <2>2 DEF NoteShapes
  <2> QED
    BY <1>2, <2>4, <2>5, <2>7, <2>8, <2>9 DEF NoteInv, Owed
<1>5. CASE ~ (Len(notes) < NoteQueue)
  <2>1. notes' = notes /\ calls' = [calls EXCEPT ![1] = Overflowed]
    BY <1>5 DEF QueueNote
  <2>2. Overflowed \in NoteEvents /\ ~ Overflowed.on
    BY DEF Overflowed, NoteEvents
  <2>3. /\ calls' \in Seq(NoteEvents) /\ DOMAIN calls' = DOMAIN calls /\ calls'[1] = Overflowed
        /\ \A i \in DOMAIN calls : i # 1 => calls'[i] = calls[i]
    <3>1. calls' \in Seq(NoteEvents)
      BY <1>3, <2>1, <2>2, ExceptSeq
    <3> QED
      BY <1>3, <2>1, <3>1
  <2>4. FlagComing'
    BY <1>3, <2>3 DEF FlagComing, Has
  <2>5. CallsOwed'
    <3> SUFFICES ASSUME NEW i \in DOMAIN calls', calls'[i].on
                 PROVE  Later(calls', i, Off(calls'[i])) \/ HeldOn(board', calls'[i])
      BY DEF CallsOwed
    <3>1. i # 1 /\ i \in DOMAIN calls /\ calls'[i] = calls[i] /\ i > 1
      BY <1>3, <2>2, <2>3
    <3>2. CASE HeldOn(board, calls[i])
      BY <1>2, <3>1, <3>2
    <3>3. CASE Later(calls, i, Off(calls[i]))
      <4>1. PICK j \in DOMAIN calls : i < j /\ calls[j] = Off(calls[i])
        BY <3>3 DEF Later
      <4>2. j # 1 /\ calls'[j] = calls[j]
        BY <1>3, <2>3, <3>1, <4>1
      <4> QED
        BY <2>3, <3>1, <4>1, <4>2 DEF Later
    <3> QED
      BY <1>2, <3>1, <3>2, <3>3 DEF Owed, CallsOwed
  <2>6. NotesOwed' /\ BlockOwed' /\ VoicesOwed'
    BY <2>4 DEF NotesOwed, BlockOwed, VoicesOwed, Rest
  <2>7. NoteShapes'
    BY <1>1, <1>2, <2>1, <2>3 DEF NoteShapes
  <2> QED
    BY <1>2, <2>5, <2>6, <2>7 DEF NoteInv, Owed
<1> QED
  BY <1>4, <1>5

LEMMA QueueFullStep == ASSUME NoteInv, ~ misled, QueueFull PROVE NoteInv'
<1>1. /\ calls # <<>> /\ noteOverflow' = TRUE /\ calls' = Tail(calls)
      /\ UNCHANGED <<finger, kernelSlot, contactIds, packets, slot, contact, board, display,
                     notes, noteBlock, voices, misled>>
  BY DEF QueueFull, kernelVars, panelVars, synthVars
<1>2. /\ NoteShapes /\ Owed /\ PointersReported' /\ ReaderOff' /\ KernelSync'
      /\ \A x : HeldOn(board', x) <=> HeldOn(board, x)
  BY <1>1, ReaderAside
<1>3. calls \in Seq(NoteEvents) /\ Tail(calls) \in Seq(NoteEvents)
  BY <1>1, <1>2, Shortened DEF NoteShapes
<1>4. CallsOwed'
  <2> SUFFICES ASSUME NEW i \in DOMAIN calls', calls'[i].on
               PROVE  Later(calls', i, Off(calls'[i])) \/ HeldOn(board', calls'[i])
    BY DEF CallsOwed
  <2>1. /\ i + 1 \in DOMAIN calls /\ calls'[i] = calls[i + 1]
        /\ Later(calls, i + 1, Off(calls'[i])) => Later(calls', i, Off(calls'[i]))
    BY <1>1, <1>3, LaterInTail
  <2>2. Later(calls, i + 1, Off(calls'[i])) \/ HeldOn(board, calls'[i])
    BY <1>2, <2>1 DEF Owed, CallsOwed
  <2> QED
    BY <1>2, <2>1, <2>2
<1>5. NotesOwed' /\ BlockOwed' /\ VoicesOwed'
  BY <1>1 DEF NotesOwed, BlockOwed, VoicesOwed, Rest, FlagComing
<1>6. NoteShapes'
  BY <1>1, <1>2, <1>3 DEF NoteShapes
<1> QED
  BY <1>2, <1>4, <1>5, <1>6 DEF NoteInv, Owed

LEMMA OpenBlockStep == ASSUME NoteInv, ~ misled, OpenBlock PROVE NoteInv'
<1>1. /\ ~ noteBlock.open /\ noteOverflow' = FALSE
      /\ noteBlock' = [open |-> TRUE, flagged |-> noteOverflow, events |-> <<>>]
      /\ UNCHANGED <<finger, kernelSlot, contactIds, packets, slot, contact, board, display, calls,
                     notes, voices, misled>>
  BY DEF OpenBlock, kernelVars, panelVars, synthVars
<1>2. /\ NoteShapes /\ Owed /\ PointersReported' /\ ReaderOff' /\ KernelSync'
      /\ \A x : HeldOn(board', x) <=> HeldOn(board, x)
  BY <1>1, ReaderAside
<1>3. /\ noteBlock.events = <<>> /\ ~ Flagged /\ noteBlock'.events = <<>>
      /\ noteBlock'.open = TRUE /\ noteBlock'.flagged = noteOverflow
      /\ DOMAIN noteBlock' = {"open", "flagged", "events"}
  BY <1>1, <1>2 DEF NoteShapes, NoBlock, Flagged
<1>4. \A x : Rest(x) => Rest(x)' \/ Flagged'
  BY <1>1, <1>2, <1>3 DEF Rest, FlagComing, Flagged
<1>5. CallsOwed'
  BY <1>1, <1>2 DEF Owed, CallsOwed
<1>6. NotesOwed'
  <2> SUFFICES ASSUME NEW i \in DOMAIN notes, NEW y, y = notes[i], y.on
               PROVE  \/ Later(notes, i, Off(y)) \/ Rest(y)'
                      \/ Flagged' /\ i + Len(noteBlock'.events) <= NoteQueue
    BY <1>1 DEF NotesOwed, Rest, FlagComing
  <2>1. Later(notes, i, Off(y)) \/ Rest(y)
    BY <1>2, <1>3 DEF Owed, NotesOwed
  <2>2. i + Len(noteBlock'.events) <= NoteQueue
    <3>1. /\ Len(notes) \in Nat /\ DOMAIN notes = 1 .. Len(notes) /\ Len(notes) <= NoteQueue
          /\ NoteQueue \in Nat /\ Len(<<>>) = 0
      BY <1>2, NoteTypes, LenProperties, EmptySeq DEF NoteShapes
    <3> QED
      BY <1>3, <3>1
  <2>3. Rest(y) => Rest(y)' \/ Flagged'
    BY <1>4
  <2> QED
    BY <2>1, <2>2, <2>3
<1>7. BlockOwed'
  BY <1>3 DEF BlockOwed
<1>8. VoicesOwed'
  <2>1. \A x : ~ Has(noteBlock.events, Off(x))
    BY <1>3 DEF Has
  <2> QED
    BY <1>1, <1>2, <1>3, <1>4, <2>1 DEF Owed, VoicesOwed
<1>9. NoteShapes'
  <2>1. noteBlock'.events \in Seq(NoteEvents)
    BY <1>3, EmptySeq
  <2>2. noteOverflow \in BOOLEAN
    BY <1>2 DEF NoteShapes
  <2> QED
    BY <1>1, <1>2, <1>3, <2>1, <2>2 DEF NoteShapes
<1> QED
  BY <1>2, <1>5, <1>6, <1>7, <1>8, <1>9 DEF NoteInv, Owed

LEMMA FillBlockStep == ASSUME NoteInv, ~ misled, FillBlock PROVE NoteInv'
<1>1. /\ noteBlock.open /\ notes # <<>> /\ notes' = Tail(notes)
      /\ noteBlock' = [noteBlock EXCEPT !.events = Append(@, Head(notes))]
      /\ UNCHANGED <<finger, kernelSlot, contactIds, packets, slot, contact, board, display, calls,
                     noteOverflow, voices, misled>>
  BY DEF FillBlock, kernelVars, panelVars, synthVars
<1>2. /\ NoteShapes /\ Owed /\ PointersReported' /\ ReaderOff' /\ KernelSync'
      /\ \A x : HeldOn(board', x) <=> HeldOn(board, x)
  BY <1>1, ReaderAside
<1> DEFINE e == Head(notes)  q == noteBlock.events
<1>3. /\ q \in Seq(NoteEvents) /\ notes \in Seq(NoteEvents) /\ e \in NoteEvents
      /\ Tail(notes) \in Seq(NoteEvents) /\ Len(notes) \in Nat \ {0} /\ e = notes[1]
      /\ DOMAIN notes = 1 .. Len(notes)
  BY <1>1, <1>2, Shortened DEF NoteShapes
<1>4. /\ DOMAIN noteBlock' = {"open", "flagged", "events"} /\ noteBlock'.events = Append(q, e)
      /\ noteBlock'.open = noteBlock.open /\ noteBlock'.flagged = noteBlock.flagged
  <2>1. DOMAIN noteBlock = {"open", "flagged", "events"}
    BY <1>2 DEF NoteShapes
  <2> QED
    BY <1>1, <2>1
<1> HIDE DEF e, q
<1>5. /\ Append(q, e) \in Seq(NoteEvents) /\ Len(Append(q, e)) = Len(q) + 1 /\ Len(q) \in Nat
      /\ Len(Tail(notes)) = Len(notes) - 1
  BY <1>1, <1>3, AppendProperties, LenProperties, HeadTailProperties
<1>6. \A x : Rest(x)' <=> Rest(x)
  BY <1>1, <1>2 DEF Rest, FlagComing
<1>7. Flagged' <=> Flagged
  BY <1>4 DEF Flagged
<1>8. CallsOwed'
  BY <1>1, <1>2 DEF Owed, CallsOwed
<1>9. NotesOwed'
  <2> SUFFICES ASSUME NEW i \in DOMAIN notes', NEW y, y = notes'[i], y.on
               PROVE  \/ Later(notes', i, Off(y)) \/ Rest(y)'
                      \/ Flagged' /\ i + Len(noteBlock'.events) <= NoteQueue
    BY DEF NotesOwed, Rest, FlagComing
  <2>1. /\ i + 1 \in DOMAIN notes /\ y = notes[i + 1]
        /\ Later(notes, i + 1, Off(y)) => Later(notes', i, Off(y))
    BY <1>1, <1>3, LaterInTail
  <2>2. \/ Later(notes, i + 1, Off(y)) \/ Rest(y)
        \/ Flagged /\ i + 1 + Len(q) <= NoteQueue
    BY <1>2, <2>1 DEF Owed, NotesOwed, q
  <2>3. i \in Nat
    <3>1. DOMAIN notes' = 1 .. Len(notes) - 1
      BY <1>1, <1>3, Shortened
    <3> QED
      BY <1>3, <3>1
  <2>4. i + Len(noteBlock'.events) = i + 1 + Len(q)
    BY <1>4, <1>5, <2>3
  <2>5. Rest(y)' <=> Rest(y)
    BY <1>6
  <2> QED
    BY <1>7, <2>1, <2>2, <2>4, <2>5
<1>10. \A x : Has(notes, Off(x)) => e = Off(x) \/ Has(notes', Off(x))
  BY <1>1, <1>3, HasHeadOrTail DEF e
<1>11. BlockOwed'
  <2> DEFINE r == noteBlock'.events
  <2> SUFFICES ASSUME NEW i \in DOMAIN r, NEW y, y = r[i], y.on
               PROVE  \/ Later(r, i, Off(y)) \/ Has(notes', Off(y)) \/ Rest(y)' \/ Flagged'
    BY DEF BlockOwed, Rest, FlagComing
  <2>0. r = Append(q, e)
    BY <1>4
  <2> HIDE DEF r
  <2>1. Rest(y)' <=> Rest(y)
    BY <1>6
  <2>2. CASE i \in DOMAIN q
    <3>1. y = q[i]
      BY <1>3, <2>0, <2>2, Lengthened
    <3>2. \/ Later(q, i, Off(y)) \/ Has(notes, Off(y)) \/ Rest(y) \/ Flagged
      BY <1>2, <2>2, <3>1 DEF Owed, BlockOwed, q
    <3>3. Later(q, i, Off(y)) \/ e = Off(y) => Later(r, i, Off(y))
      BY <1>3, <2>0, <2>2, HasInLonger
    <3>4. Has(notes, Off(y)) => e = Off(y) \/ Has(notes', Off(y))
      BY <1>10
    <3> QED
      BY <1>7, <2>1, <3>2, <3>3, <3>4
  <2>3. CASE i \notin DOMAIN q
    <3>1. y = e
      <4>1. i = Len(q) + 1
        BY <1>3, <2>0, <2>3, HasInLonger
      <4> QED
        BY <1>3, <2>0, <4>1, Lengthened
    <3>2. Later(notes, 1, Off(y)) \/ Rest(y) \/ Flagged
      <4>1. 1 \in DOMAIN notes /\ notes[1] = y
        BY <1>3, <3>1
      <4> QED
        BY <1>2, <4>1 DEF Owed, NotesOwed
    <3>3. Later(notes, 1, Off(y)) => Has(notes', Off(y))
      BY <1>1, <1>3, LaterInTail
    <3> QED
      BY <1>7, <2>1, <3>2, <3>3
  <2> QED
    BY <2>2, <2>3
<1>12. VoicesOwed'
  <2>1. \A x : Has(q, Off(x)) \/ e = Off(x) => Has(noteBlock'.events, Off(x))
    BY <1>3, <1>4, HasInLonger
  <2>2. \A x : HeldIn(voices, x) => Has(q, Off(x)) \/ Has(notes, Off(x)) \/ Rest(x) \/ Flagged
    BY <1>2 DEF Owed, VoicesOwed, q
  <2> QED
    BY <1>1, <1>6, <1>7, <1>10, <2>1, <2>2 DEF VoicesOwed
<1>13. NoteShapes'
  <2>1. /\ noteBlock'.events \in Seq(NoteEvents) /\ noteBlock'.open \in BOOLEAN
        /\ noteBlock'.flagged \in BOOLEAN /\ noteBlock'.open
    BY <1>1, <1>2, <1>4, <1>5 DEF NoteShapes
  <2>2. notes' \in Seq(NoteEvents) /\ Len(notes') <= NoteQueue
    <3>1. Len(notes) <= NoteQueue /\ NoteQueue \in Nat
      BY <1>2, NoteTypes DEF NoteShapes
    <3> QED
      BY <1>1, <1>3, <1>5, <3>1
  <2> QED
    BY <1>1, <1>2, <1>4, <2>1, <2>2 DEF NoteShapes
<1> QED
  BY <1>2, <1>8, <1>9, <1>11, <1>12, <1>13 DEF NoteInv, Owed

(* The block closes full or with nothing left behind it, so the notes that  *)
(* counted on its flag are in it.                                           *)
LEMMA SynthesizeStep ==
  ASSUME NoteInv, ~ misled, NEW valid \in BOOLEAN, Synthesize(valid), ~ misled'
  PROVE  NoteInv'
<1> DEFINE q == noteBlock.events
<1>1. /\ noteBlock.open /\ (notes = <<>> \/ Len(q) = NoteQueue) /\ noteBlock' = NoBlock
      /\ valid \/ q = <<>>
      /\ voices' = (IF noteBlock.flagged THEN Cleared
                    ELSE IF ~ valid THEN Bank ELSE Sounded(Bank, q)).v
      /\ UNCHANGED <<finger, kernelSlot, contactIds, packets, slot, contact, board, display, calls,
                     notes, noteOverflow>>
  <2> DEFINE bank == IF noteBlock.flagged THEN Cleared ELSE IF ~ valid THEN Bank ELSE Sounded(Bank, q)
  <2>1. voices' = bank.v
    BY DEF Synthesize, Sounded
  <2>2. /\ noteBlock.open /\ (notes = <<>> \/ Len(q) = NoteQueue) /\ noteBlock' = NoBlock
        /\ misled' = (misled \/ (~ valid /\ q # <<>>))
        /\ UNCHANGED <<finger, kernelSlot, contactIds, packets, slot, contact, board, display, calls,
                       notes, noteOverflow>>
    BY DEF Synthesize, kernelVars, panelVars
  <2>3. valid \/ q = <<>>
    BY <2>2
  <2> QED
    BY <2>1, <2>2, <2>3
<1>2. /\ NoteShapes /\ Owed /\ PointersReported' /\ ReaderOff' /\ KernelSync'
      /\ \A x : HeldOn(board', x) <=> HeldOn(board, x)
  BY <1>1, ReaderAside
<1>3. /\ q \in Seq(NoteEvents) /\ voices \in [1 .. Voices -> VoiceRecords]
      /\ Bank.v = voices /\ DOMAIN Bank = {"v", "steal"}
      /\ NoBlock.events = <<>> /\ NoBlock.open = FALSE /\ NoBlock.flagged = FALSE
      /\ DOMAIN NoBlock = {"open", "flagged", "events"}
  BY <1>2 DEF NoteShapes, Bank, NoBlock
<1>4. \A x : Rest(x)' <=> Rest(x)
  BY <1>1, <1>2 DEF Rest, FlagComing
<1>5. CallsOwed'
  BY <1>1, <1>2 DEF Owed, CallsOwed
<1>6. NotesOwed'
  <2> SUFFICES ASSUME NEW i \in DOMAIN notes, NEW y, y = notes[i], y.on
               PROVE  Later(notes, i, Off(y)) \/ Rest(y)'
    BY <1>1 DEF NotesOwed, Rest, FlagComing
  <2>1. Later(notes, i, Off(y)) \/ Rest(y) \/ i + Len(q) <= NoteQueue
    BY <1>2 DEF Owed, NotesOwed
  <2>2. Len(q) = NoteQueue /\ NoteQueue \in Nat
    BY <1>1, NoteTypes
  <2>3. i \in Nat \ {0}
    BY <1>2, LenProperties DEF NoteShapes
  <2>4. Rest(y) => Rest(y)'
    BY <1>4
  <2>5. ~ (i + Len(q) <= NoteQueue)
    BY <2>2, <2>3
  <2> QED
    BY <2>1, <2>4, <2>5
<1>7. BlockOwed'
  BY <1>1, <1>3 DEF BlockOwed
<1>8. /\ voices' \in [1 .. Voices -> VoiceRecords]
      /\ \A x : HeldIn(voices', x) => ~ noteBlock.flagged
                /\ ((HeldIn(voices, x) /\ ~ Has(q, Off(x))) \/ OpenNote(q, x))
  <2>1. CASE noteBlock.flagged
    <3>1. voices' = [i \in 1 .. Voices |-> Silent]
      BY <1>1, <2>1 DEF Cleared
    <3>2. Silent \in VoiceRecords /\ Silent.stage # "held"
      BY DEF Silent, VoiceRecords
    <3> QED
      BY <3>1, <3>2 DEF HeldIn
  <2>2. CASE ~ noteBlock.flagged /\ ~ valid
    <3>1. voices' = voices /\ q = <<>>
      BY <1>1, <1>3, <2>2
    <3> QED
      BY <1>3, <2>2, <3>1 DEF Has
  <2>3. CASE ~ noteBlock.flagged /\ valid
    <3>1. voices' = Sounded(Bank, q).v
      BY <1>1, <2>3
    <3> HIDE DEF q
    <3> QED
      BY <1>3, <2>3, <3>1, BatchEffect
  <2> QED
    BY <2>1, <2>2, <2>3
<1>9. VoicesOwed'
  <2> SUFFICES ASSUME NEW x, HeldIn(voices', x)
               PROVE  Has(notes, Off(x)) \/ Rest(x)'
    BY <1>1 DEF VoicesOwed
  <2>1. ~ Flagged
    BY <1>8 DEF Flagged
  <2>2. CASE HeldIn(voices, x) /\ ~ Has(q, Off(x))
    BY <1>2, <1>4, <2>1, <2>2 DEF Owed, VoicesOwed
  <2>3. CASE OpenNote(q, x)
    <3>1. PICK i \in DOMAIN q : Starts(q[i], x) /\ ~ Later(q, i, Off(x))
      BY <2>3 DEF OpenNote
    <3> DEFINE y == q[i]
    <3>2. y.on /\ y.id = x.id /\ y.key = x.key
      BY <3>1 DEF Starts
    <3>3. Later(q, i, Off(y)) \/ Has(notes, Off(y)) \/ Rest(y) \/ Flagged
      BY <1>2, <3>2 DEF Owed, BlockOwed
    <3> HIDE DEF y, q
    <3>4. Off(y) = Off(x) /\ (HeldOn(board, y) => HeldOn(board, x))
      BY <3>2 DEF Off, HeldOn
    <3>5. Rest(y) => Rest(x)
      BY <3>4 DEF Rest
    <3> QED
      BY <1>4, <2>1, <3>1, <3>3, <3>4, <3>5
  <2> QED
    BY <1>8, <2>2, <2>3
<1>10. NoteShapes'
  <2>1. noteBlock'.events \in Seq(NoteEvents)
    BY <1>1, <1>3, EmptySeq
  <2> QED
    BY <1>1, <1>2, <1>3, <1>8, <2>1 DEF NoteShapes
<1> QED
  BY <1>2, <1>5, <1>6, <1>7, <1>9, <1>10 DEF NoteInv, Owed

LEMMA VoiceEndsStep == ASSUME NoteInv, ~ misled, VoiceEnds PROVE NoteInv'
<1>1. PICK i \in 1 .. Voices : voices[i].stage = "release" /\ voices' = [voices EXCEPT ![i] = Silent]
  BY DEF VoiceEnds
<1>2. UNCHANGED <<finger, kernelSlot, contactIds, packets, slot, contact, board, display, calls,
                  notes, noteOverflow, noteBlock, misled>>
  BY DEF VoiceEnds, kernelVars, panelVars
<1>3. /\ NoteShapes /\ Owed /\ PointersReported' /\ ReaderOff' /\ KernelSync'
      /\ \A x : HeldOn(board', x) <=> HeldOn(board, x)
  BY <1>2, ReaderAside
<1>4. Silent \in VoiceRecords /\ Silent.stage # "held" /\ voices \in [1 .. Voices -> VoiceRecords]
  BY <1>3 DEF Silent, VoiceRecords, NoteShapes
<1>5. voices' \in [1 .. Voices -> VoiceRecords] /\ \A x : HeldIn(voices', x) => HeldIn(voices, x)
  BY <1>1, <1>4 DEF HeldIn
<1>6. Owed'
  <2>1. \A x : Rest(x)' <=> Rest(x)
    BY <1>2, <1>3 DEF Rest, FlagComing
  <2>2. CallsOwed' /\ NotesOwed' /\ BlockOwed'
    BY <1>2, <1>3, <2>1 DEF Owed, CallsOwed, NotesOwed, BlockOwed, Flagged
  <2>3. VoicesOwed'
    BY <1>2, <1>3, <1>5, <2>1 DEF Owed, VoicesOwed, Flagged
  <2> QED
    BY <2>2, <2>3 DEF Owed
<1>7. NoteShapes'
  BY <1>2, <1>3, <1>5 DEF NoteShapes
<1> QED
  BY <1>3, <1>6, <1>7 DEF NoteInv

LEMMA NoteInvStep == ASSUME NoteInv, [NoteNext]_noteVars PROVE NoteInv'
<1>1. CASE misled
  <2>1. misled'
    BY <1>1 DEF NoteNext, FingerDown, FingerUp, KernelReports, Consume, EventsLost, TouchReadFails,
                CancelAll, OctaveButton, Disable, Enable, QueueNote, QueueFull, OpenBlock, FillBlock,
                Synthesize, VoiceEnds, noteVars
  <2> QED
    BY <2>1 DEF NoteInv
<1>2. CASE misled'
  BY <1>2 DEF NoteInv
<1>3. CASE ~ misled /\ ~ misled'
  <2> USE <1>3
  <2>0. None \in Keys /\ Semitones \subseteq Keys
    BY DEF Keys
  <2>1. CASE FingerDown
    BY <2>0, <2>1, KernelStep DEF FingerDown
  <2>2. CASE FingerUp
    BY <2>0, <2>2, KernelStep DEF FingerUp
  <2>3. CASE Consume
    BY <2>3, ConsumeStep
  <2>4. CASE EventsLost
    <3>1. /\ calls = <<>> /\ contact' = [s \in Slots |-> None] /\ Play(ReleaseAll(board))
          /\ display' = "running" /\ packets # <<>> /\ Head(packets) = Lost /\ packets' = Tail(packets)
          /\ UNCHANGED <<finger, kernelSlot, contactIds, slot, notes, noteOverflow, noteBlock, voices>>
      BY <2>4 DEF EventsLost, CancelAll, ReadsTouch, kernelVars, synthVars
    <3> QED
      BY <3>1, CancelStep
  <2>5. CASE TouchReadFails
    <3>1. /\ calls = <<>> /\ contact' = [s \in Slots |-> None] /\ Play(ReleaseAll(board)) /\ packets' = <<>>
          /\ UNCHANGED <<finger, kernelSlot, contactIds, slot, notes, noteOverflow, noteBlock, voices>>
      BY <2>5 DEF TouchReadFails, CancelAll, ReadsTouch, kernelVars, synthVars
    <3> QED
      BY <3>1, CancelStep
  <2>6. CASE OctaveButton
    BY <2>6, OctaveStep
  <2>7. CASE Disable
    <3>1. /\ calls = <<>> /\ contact' = [s \in Slots |-> None] /\ Play(ReleaseAll(board)) /\ packets' = <<>>
          /\ UNCHANGED <<finger, kernelSlot, contactIds, slot, notes, noteOverflow, noteBlock, voices>>
      BY <2>7 DEF Disable, kernelVars, synthVars
    <3> QED
      BY <3>1, CancelStep
  <2>8. CASE Enable
    BY <2>8, EnableStep
  <2>9. CASE QueueNote
    BY <2>9, QueueNoteStep
  <2>10. CASE QueueFull
    BY <2>10, QueueFullStep
  <2>11. CASE OpenBlock
    BY <2>11, OpenBlockStep
  <2>12. CASE FillBlock
    BY <2>12, FillBlockStep
  <2>13. CASE \E valid \in BOOLEAN : Synthesize(valid)
    BY <2>13, SynthesizeStep
  <2>14. CASE VoiceEnds
    BY <2>14, VoiceEndsStep
  <2>15. CASE UNCHANGED noteVars
    BY <2>15 DEF noteVars, kernelVars, panelVars, synthVars, NoteInv, NoteShapes, PointersReported,
                 ReaderOff, KernelSync, Owed, CallsOwed, NotesOwed, BlockOwed, VoicesOwed, Rest,
                 FlagComing, Flagged
  <2> QED
    BY <2>1, <2>2, <2>3, <2>4, <2>5, <2>6, <2>7, <2>8, <2>9, <2>10, <2>11, <2>12, <2>13, <2>14, <2>15
       DEF NoteNext
<1> QED
  BY <1>1, <1>2, <1>3

LEMMA NoneHangs == NoteInv => NoHangingNote
<1> SUFFICES ASSUME NoteInv, ~ misled, \A s \in Slots : finger[s] = None,
                    packets = <<>>, calls = <<>>, notes = <<>>, ~ noteOverflow, ~ noteBlock.open,
                    NEW i \in 1 .. Voices, voices[i].stage = "held"
             PROVE  FALSE
  BY DEF NoHangingNote
<1>1. NoteShapes /\ PointersReported /\ KernelSync /\ Owed
  BY DEF NoteInv
<1>2. \A s \in Slots : contact[s] = None
  BY <1>1 DEF KernelSync, Settles
<1>3. \A s \in Slots : board.pointer[s] = None
  BY <1>1, <1>2 DEF PointersReported
<1>4. \A x : ~ HeldOn(board, x)
  BY <1>1, <1>3, NothingHeld DEF NoteShapes
<1>5. HeldIn(voices, voices[i])
  BY DEF HeldIn
<1>6. noteBlock.events = <<>> /\ ~ Flagged
  BY <1>1 DEF NoteShapes, NoBlock, Flagged
<1> QED
  BY <1>1, <1>4, <1>5, <1>6 DEF Owed, VoicesOwed, Rest, FlagComing, Has

(* Once no finger touches and nothing is on its way no voice sounds        *)
(* unreleased: whatever the kernel dropped, the queue refused or the       *)
(* display's lifecycle cut short, for any number of slots, keys and voices *)
(* and any size of the buffers (unless a packet went to the wrong contact  *)
(* or notes were lost with refused parameters).                            *)
THEOREM NoNoteHangs == NoteSpec => []NoHangingNote
<1>1. NoteInit => NoteInv
  BY NoteInvInit
<1>2. NoteInv /\ [NoteNext]_noteVars => NoteInv'
  BY NoteInvStep
<1>3. NoteInv => NoHangingNote
  BY NoneHangs
<1> QED
  BY <1>1, <1>2, <1>3, PTL DEF NoteSpec

-----------------------------------------------------------------------------
(* The recording in a WAV file                                             *)

SinkBlocks == Nat \X Nat
Bytes(b) == [i \in 1 .. b[2] |-> b[1]]

(* As long as the disk did not spoil it, the open file holds the blocks    *)
(* that were counted as written, and the count is its length.              *)
RecordingInv ==
  /\ recorder \in [open : BOOLEAN, bytes : 0 .. WordSize - 1]
  /\ recorded \in [riff : Nat, data : Nat, body : Seq(Nat)]
  /\ kept \in Seq(SinkBlocks) /\ offered \in Nat /\ spoilt \in BOOLEAN
  /\ ~ spoilt /\ recorder.open => recorded.body = Body(kept) /\ Len(recorded.body) = recorder.bytes
  /\ RecordingPlaysBack

(* The body is put together block by block. *)
LEMMA BlocksInOrder ==
  ASSUME NEW S, NEW q \in Seq(S)
  PROVE  \E g : /\ g[0] = <<>>
                /\ \A k \in 1 .. Len(q) : g[k] = g[k - 1] \o Bytes(q[k])
                /\ g[Len(q)] = Body(q)
<1> DEFINE Then(f, s) == IF s = {} THEN <<>>
                         ELSE f[s \ {Max(s)}] \o Bytes(q[Max(s)])
           Folds(n, f) == f = [s \in SUBSET (1 .. n) |-> Then(f, s)]
           n == Len(q)
           bad == {m \in Nat : ~ \E f : Folds(m, f)}
<1>1. n \in Nat /\ DOMAIN q = 1 .. n
  BY LenProperties
<1>2. \E f : Folds(0, f)
  <2> DEFINE f == [s \in SUBSET (1 .. 0) |-> <<>>]
  <2>1. \A s \in SUBSET (1 .. 0) : Then(f, s) = <<>>
    OBVIOUS
  <2>2. Folds(0, f)
    BY <2>1
  <2> QED
    BY <2>2
<1>3. ASSUME NEW m \in Nat, NEW f, Folds(m, f)
      PROVE  \E h : Folds(m + 1, h)
  <2> DEFINE h == [s \in SUBSET (1 .. m + 1) |->
                     IF m + 1 \in s THEN (f[s \ {m + 1}] \o Bytes(q[m + 1])) ELSE f[s]]
  <2>1. ASSUME NEW s \in SUBSET (1 .. m + 1)
        PROVE  h[s] = Then(h, s)
    <3>1. CASE m + 1 \in s
      <4>1. Max(s) = m + 1
        <5>1. \A y \in s : m + 1 >= y
          OBVIOUS
        <5>2. \A x \in s : (\A y \in s : x >= y) => x = m + 1
          BY <3>1, <5>1
        <5> QED
          BY <3>1, <5>1, <5>2 DEF Max
      <4>2. s \ {m + 1} \in SUBSET (1 .. m) /\ s \ {m + 1} \in SUBSET (1 .. m + 1)
        OBVIOUS
      <4>3. h[s \ {m + 1}] = f[s \ {m + 1}]
        BY <4>2
      <4>4. h[s] = (f[s \ {m + 1}] \o Bytes(q[m + 1]))
        BY <3>1
      <4> HIDE DEF h
      <4> QED
        BY <3>1, <4>1, <4>3, <4>4
    <3>2. CASE m + 1 \notin s
      <4>1. s \in SUBSET (1 .. m)
        BY <3>2
      <4>2. h[s] = f[s] /\ h[s \ {Max(s)}] = f[s \ {Max(s)}]
        BY <3>2
      <4>3. f[s] = Then(f, s)
        BY <1>3, <4>1
      <4> HIDE DEF h
      <4> QED
        BY <4>2, <4>3
    <3> QED
      BY <3>1, <3>2
  <2>2. Folds(m + 1, h)
    <3>1. h = [s \in SUBSET (1 .. m + 1) |-> h[s]]
      OBVIOUS
    <3> HIDE DEF h, Then
    <3> QED
      BY <2>1, <3>1
  <2> QED
    BY <2>2
<1>4. \E f : Folds(n, f)
  <2> HIDE DEF Folds, n
  <2>1. SUFFICES ASSUME n \in bad PROVE FALSE
    BY <1>1
  <2>2. PICK m \in bad : \A k \in bad : m <= k
    BY <2>1, SmallestNumber
  <2>3. m # 0 /\ m \in Nat
    BY <1>2, <2>2
  <2>4. m - 1 \in Nat /\ m - 1 \notin bad
    BY <2>2, <2>3
  <2>5. PICK f : Folds(m - 1, f)
    BY <2>4
  <2>6. \E h : Folds(m - 1 + 1, h)
    BY <1>3, <2>4, <2>5
  <2> QED
    BY <2>2, <2>3, <2>6
<1> DEFINE f == CHOOSE f : Folds(n, f)
<1>5. Folds(n, f)
  BY <1>4
<1>6. Body(q) = f[1 .. n]
  BY <1>1, Zenon DEF Body, Bytes, FoldLeft, MapThenFoldSet
<1> HIDE DEF f
<1> DEFINE g == [k \in 0 .. n |-> f[1 .. k]]
<1>7. g[0] = <<>>
  <2>1. 1 .. 0 = {} /\ {} \in SUBSET (1 .. n)
    OBVIOUS
  <2>2. f[{}] = <<>>
    BY <1>5, <2>1
  <2> HIDE DEF n
  <2> QED
    BY <1>1, <2>1, <2>2
<1>8. ASSUME NEW k \in 1 .. n
      PROVE  g[k] = g[k - 1] \o Bytes(q[k])
  <2> HIDE DEF n, Then
  <2>1. 1 .. k \in SUBSET (1 .. n) /\ k \in 1 .. k /\ (1 .. k) \ {k} = 1 .. k - 1
        /\ k - 1 \in 0 .. n /\ k \in 0 .. n
    BY <1>1
  <2>2. Max(1 .. k) = k
    <3>1. \A y \in 1 .. k : k >= y
      OBVIOUS
    <3>2. \A x \in 1 .. k : (\A y \in 1 .. k : x >= y) => x = k
      BY <1>1, <2>1
    <3> QED
      BY <2>1, <3>1, <3>2 DEF Max
  <2>3. f[1 .. k] = Then(f, 1 .. k)
    BY <1>5, <2>1
  <2>4. Then(f, 1 .. k) = f[1 .. k - 1] \o Bytes(q[k])
    BY <2>1, <2>2 DEF Then
  <2> QED
    BY <2>1, <2>3, <2>4
<1>9. g[n] = f[1 .. n]
  BY <1>1
<1> HIDE DEF g
<1> QED
  BY <1>6, <1>7, <1>8, <1>9

(* One more block adds its bytes. *)
LEMMA BodyGrows ==
  ASSUME NEW q \in Seq(SinkBlocks), NEW b \in SinkBlocks
  PROVE  Body(Append(q, b)) = Body(q) \o Bytes(b)
<1> DEFINE n == Len(q)
           p == Append(q, b)
<1>1. /\ p \in Seq(SinkBlocks) /\ Len(p) = n + 1 /\ n \in Nat /\ p[n + 1] = b
      /\ \A k \in 1 .. n : p[k] = q[k]
  BY LenProperties, AppendProperties
<1> HIDE DEF p
<1>2. PICK g : /\ g[0] = <<>> /\ g[n] = Body(q)
               /\ \A k \in 1 .. n : g[k] = g[k - 1] \o Bytes(q[k])
  BY BlocksInOrder
<1>3. PICK h : /\ h[0] = <<>> /\ h[Len(p)] = Body(p)
               /\ \A k \in 1 .. Len(p) : h[k] = h[k - 1] \o Bytes(p[k])
  BY <1>1, BlocksInOrder
<1> HIDE DEF n
<1> DEFINE bad == {k \in 0 .. n : g[k] # h[k]}
<1>4. bad = {}
  <2>1. SUFFICES ASSUME bad # {} PROVE FALSE
    OBVIOUS
  <2>2. bad \subseteq Nat
    BY <1>1
  <2>3. PICK k \in bad : \A m \in bad : k <= m
    <3> HIDE DEF bad
    <3> QED
      BY <2>1, <2>2, SmallestNumber
  <2>4. k \in 1 .. n
    BY <1>2, <1>3, <1>1
  <2>5. k - 1 \in 0 .. n /\ k - 1 \notin bad
    BY <1>1, <2>3, <2>4
  <2>6. g[k - 1] = h[k - 1] /\ k \in 1 .. Len(p) /\ p[k] = q[k]
    BY <1>1, <2>4, <2>5
  <2>7. g[k] = h[k]
    BY <1>2, <1>3, <2>4, <2>6
  <2> QED
    BY <2>7
<1>5. g[n] = h[n]
  BY <1>1, <1>4
<1>6. h[n + 1] = h[n] \o Bytes(b)
  <2>1. PICK k : k = n + 1
    OBVIOUS
  <2>2. k \in 1 .. Len(p) /\ k - 1 = n /\ p[k] = b
    BY <1>1, <2>1
  <2>3. h[k] = h[k - 1] \o Bytes(p[k])
    BY <1>3, <2>2
  <2> QED
    BY <2>1, <2>2, <2>3
<1> QED
  BY <1>1, <1>2, <1>3, <1>5, <1>6 DEF p

(* No block, no bytes. *)
LEMMA NoBlocks == Body(<<>>) = <<>>
<1>1. <<>> \in Seq(SinkBlocks) /\ Len(<<>>) = 0
  OBVIOUS
<1> QED
  BY <1>1, BlocksInOrder

(* A file that was just opened is whole. *)
LEMMA FreshFile ==
  /\ NewFile \in [riff : Nat, data : Nat, body : Seq(Nat)]
  /\ NewFile.body = Body(<<>>) /\ Len(NewFile.body) = 0 /\ <<>> \in Seq(SinkBlocks)
  /\ Playable(NewFile, <<>>)
<1>1. HeaderRest \in Nat
  BY RecordingBounds
<1>2. /\ NewFile.body = <<>> /\ NewFile.data = 0 /\ NewFile.riff = HeaderRest
      /\ Len(<<>>) = 0 /\ <<>> \in Seq(Nat) /\ <<>> \in Seq(SinkBlocks)
  BY DEF NewFile
<1>3. NewFile \in [riff : Nat, data : Nat, body : Seq(Nat)]
  BY <1>1, <1>2 DEF NewFile
<1>4. SubSeq(<<>>, 1, 0) = <<>>
  OBVIOUS
<1>5. Playable(NewFile, <<>>)
  <2>1. NewFile.data <= Len(NewFile.body) /\ HeaderRest + NewFile.data = HeaderRest
    BY <1>1, <1>2
  <2>2. SubSeq(NewFile.body, 1, NewFile.data) = Body(<<>>)
    BY <1>2, <1>4, NoBlocks
  <2> QED
    BY <1>2, <2>1, <2>2 DEF Playable
<1> QED
  BY <1>2, <1>3, <1>5, NoBlocks

(* Nothing is recorded at the start. *)
LEMMA RecordingInvInit == RecordingInit => RecordingInv
<1> SUFFICES ASSUME RecordingInit PROVE RecordingInv
  OBVIOUS
<1>1. recorder = ClosedWriter /\ recorded = NewFile /\ kept = <<>> /\ offered = 0 /\ spoilt = FALSE
  BY DEF RecordingInit
<1>2. recorder \in [open : BOOLEAN, bytes : 0 .. WordSize - 1] /\ ~ recorder.open
  BY <1>1, RecordingBounds DEF ClosedWriter
<1> QED
  BY <1>1, <1>2, FreshFile DEF RecordingInv, RecordingPlaysBack

(* A block is added whole or the file is spoilt; one that is rejected changes nothing. *)
LEMMA RecordBlockStep ==
  ASSUME RecordingInv, NEW bytes \in 1 .. LargestBlock + 1, NEW wellFormed \in BOOLEAN,
         RecordBlock(bytes, wellFormed)
  PROVE  RecordingInv'
<1>0. /\ recorder \in [open : BOOLEAN, bytes : 0 .. WordSize - 1]
      /\ recorded \in [riff : Nat, data : Nat, body : Seq(Nat)]
      /\ kept \in Seq(SinkBlocks) /\ offered \in Nat /\ spoilt \in BOOLEAN
      /\ offered' = offered + 1 /\ offered' \in Nat /\ bytes \in Nat
  BY RecordingBounds DEF RecordingInv, RecordBlock
<1>1. CASE ~ recorder.open \/ ~ wellFormed \/ ~ Fits32(bytes)
  <2>1. UNCHANGED <<recorder, recorded, kept, spoilt>>
    BY <1>1 DEF RecordBlock
  <2> QED
    BY <1>0, <2>1 DEF RecordingInv, RecordingPlaysBack
<1>2. CASE recorder.open /\ wellFormed /\ Fits32(bytes)
  <2>1. PICK reached \in 0 .. bytes :
          /\ recorded' = [recorded EXCEPT !.body = @ \o [i \in 1 .. reached |-> offered']]
          /\ IF reached < bytes
             THEN spoilt' = TRUE /\ UNCHANGED <<recorder, kept>>
             ELSE /\ recorder' = [recorder EXCEPT !.bytes = (@ + bytes) % WordSize]
                  /\ kept' = Append(kept, <<offered', bytes>>) /\ UNCHANGED spoilt
    BY <1>2 DEF RecordBlock
  <2> DEFINE tail == [i \in 1 .. reached |-> offered']
  <2>2. tail \in Seq(Nat) /\ Len(tail) = reached
    BY <1>0
  <2>3. /\ recorded' \in [riff : Nat, data : Nat, body : Seq(Nat)]
        /\ recorded'.body = recorded.body \o tail /\ Len(recorded'.body) = Len(recorded.body) + reached
    <3>1. recorded' = [recorded EXCEPT !.body = @ \o tail]
      BY <2>1
    <3> HIDE DEF tail
    <3>2. recorded.body \in Seq(Nat)
      BY <1>0
    <3>3. recorded.body \o tail \in Seq(Nat) /\ Len(recorded.body \o tail) = Len(recorded.body) + reached
      BY <2>2, <3>2, ConcatProperties
    <3> QED
      BY <1>0, <3>1, <3>2, <3>3
  <2>4. CASE reached < bytes
    BY <1>0, <2>1, <2>3, <2>4 DEF RecordingInv, RecordingPlaysBack
  <2>5. CASE ~ (reached < bytes)
    <3>1. reached = bytes /\ tail = Bytes(<<offered', bytes>>)
      BY <1>0, <2>1, <2>5 DEF Bytes
    <3>2. /\ recorder' \in [open : BOOLEAN, bytes : 0 .. WordSize - 1] /\ recorder'.open
          /\ recorder'.bytes = recorder.bytes + bytes
      <4>1. recorder.bytes + bytes \in 0 .. WordSize - 1 /\ WordSize \in Nat \ {0} /\ recorder.bytes \in Nat
        BY <1>0, <1>2, RecordingBounds DEF Fits32
      <4>2. (recorder.bytes + bytes) % WordSize = recorder.bytes + bytes
        BY <4>1
      <4> QED
        BY <1>0, <1>2, <2>1, <2>5, <4>1, <4>2
    <3>3. kept' \in Seq(SinkBlocks) /\ Body(kept') = Body(kept) \o Bytes(<<offered', bytes>>)
      <4>1. <<offered', bytes>> \in SinkBlocks /\ kept' = Append(kept, <<offered', bytes>>)
        BY <1>0, <2>1, <2>5 DEF SinkBlocks
      <4>2. Append(kept, <<offered', bytes>>) \in Seq(SinkBlocks)
        BY <1>0, <4>1, AppendProperties
      <4> QED
        BY <1>0, <4>1, <4>2, BodyGrows
    <3>4. spoilt' = spoilt
      BY <2>1, <2>5
    <3>5. ~ spoilt => recorded'.body = Body(kept') /\ Len(recorded'.body) = recorder'.bytes
      BY <1>2, <2>3, <3>1, <3>2, <3>3 DEF RecordingInv
    <3> HIDE DEF tail
    <3> QED
      BY <1>0, <2>3, <3>2, <3>3, <3>4, <3>5 DEF RecordingInv, RecordingPlaysBack
  <2> QED
    BY <2>4, <2>5
<1> QED
  BY <1>1, <1>2

(* A file is closed with the sizes of what it holds, unless a patch fails. *)
LEMMA DisableRecordingStep == ASSUME RecordingInv, DisableRecording PROVE RecordingInv'
<1>0. /\ recorder \in [open : BOOLEAN, bytes : 0 .. WordSize - 1]
      /\ recorded \in [riff : Nat, data : Nat, body : Seq(Nat)]
      /\ kept \in Seq(SinkBlocks) /\ offered \in Nat /\ spoilt \in BOOLEAN
      /\ recorder.open /\ recorder' = ClosedWriter /\ UNCHANGED <<kept, offered>>
      /\ WordSize \in Nat \ {0} /\ HeaderRest \in 0 .. WordSize - 1
  BY RecordingBounds DEF RecordingInv, DisableRecording
<1>1. PICK riff \in {RiffSize, recorded.riff}, data \in {recorder.bytes, recorded.data} :
        /\ recorded' = [recorded EXCEPT !.riff = riff, !.data = data]
        /\ spoilt' = (spoilt \/ riff # RiffSize \/ data # recorder.bytes)
  BY DEF DisableRecording
<1>2. /\ RiffSize \in Nat /\ recorder.bytes \in Nat
      /\ HeaderRest + recorder.bytes < WordSize => RiffSize = HeaderRest + recorder.bytes
  <2> DEFINE size == HeaderRest + recorder.bytes
  <2>1. size \in Nat /\ WordSize \in Nat \ {0} /\ recorder.bytes \in Nat
    BY <1>0
  <2>2. RiffSize = size % WordSize
    BY DEF RiffSize
  <2> HIDE DEF size
  <2>3. size % WordSize \in Nat /\ (size < WordSize => size % WordSize = size)
    BY <2>1
  <2> QED
    BY <2>1, <2>2, <2>3 DEF size
<1>3. recorded' \in [riff : Nat, data : Nat, body : Seq(Nat)] /\ spoilt' \in BOOLEAN
      /\ recorded'.body = recorded.body /\ recorded'.riff = riff /\ recorded'.data = data
  BY <1>0, <1>1, <1>2
<1>4. ~ spoilt' => Playable(recorded', kept')
  <2> SUFFICES ASSUME ~ spoilt' PROVE Playable(recorded', kept')
    OBVIOUS
  <2>1. ~ spoilt /\ riff = RiffSize /\ data = recorder.bytes
    BY <1>1
  <2>2. recorded.body = Body(kept) /\ Len(recorded.body) = recorder.bytes
    BY <1>0, <2>1 DEF RecordingInv
  <2>3. SubSeq(recorded.body, 1, recorder.bytes) = recorded.body
    BY <1>0, <2>2, SubSeqProperties
  <2> QED
    BY <1>0, <1>2, <1>3, <2>1, <2>2, <2>3 DEF Playable
<1>5. 0 \in 0 .. WordSize - 1
  BY <1>0
<1> QED
  BY <1>0, <1>3, <1>4, <1>5 DEF RecordingInv, RecordingPlaysBack, ClosedWriter

(* Every step keeps the file as counted. *)
LEMMA RecordingInvStep == RecordingInv /\ [RecordingNext]_recordingVars => RecordingInv'
<1> SUFFICES ASSUME RecordingInv, [RecordingNext]_recordingVars PROVE RecordingInv'
  OBVIOUS
<1>0. 0 \in 0 .. WordSize - 1
  BY RecordingBounds
<1>1. CASE EnableRecording
  <2>1. /\ recorder' = [open |-> TRUE, bytes |-> 0] /\ recorded' = NewFile /\ kept' = <<>>
        /\ offered' = 0 /\ spoilt' = FALSE
    BY <1>1 DEF EnableRecording
  <2>2. recorder' \in [open : BOOLEAN, bytes : 0 .. WordSize - 1] /\ recorder'.bytes = 0 /\ recorder'.open
    BY <1>0, <2>1
  <2> QED
    BY <2>1, <2>2, FreshFile DEF RecordingInv, RecordingPlaysBack
<1>2. CASE DisableRecording
  BY <1>2, DisableRecordingStep
<1>3. CASE RecordingDies
  BY <1>0, <1>3 DEF RecordingDies, RecordingInv, RecordingPlaysBack, ClosedWriter
<1>4. CASE \E bytes \in 1 .. LargestBlock + 1, wellFormed \in BOOLEAN : RecordBlock(bytes, wellFormed)
  BY <1>4, RecordBlockStep
<1>5. CASE UNCHANGED recordingVars
  BY <1>5 DEF recordingVars, RecordingInv, RecordingPlaysBack
<1> QED
  BY <1>1, <1>2, <1>3, <1>4, <1>5 DEF RecordingNext

(* A recording that was closed and that the disk did not spoil plays back  *)
(* as the blocks the sink counted as written, for every width of the size  *)
(* fields and every length of blocks and recordings.                       *)
THEOREM RecordingsPlayBack == RecordingSpec => []RecordingPlaysBack
<1>1. RecordingInv => RecordingPlaysBack
  BY DEF RecordingInv
<1> QED
  BY <1>1, RecordingInvInit, RecordingInvStep, PTL DEF RecordingSpec
=============================================================================
