------------------------------- MODULE NotePath -------------------------------
(***************************************************************************)
(* A note from the finger to the voice: the kernel reports touches in      *)
(* slots, LvglTouchInput turns a slot into a contact with a pointer of its *)
(* own, the keyboard widget turns contacts on a key into one note, the     *)
(* display sink queues the notes for its process call and flags the block  *)
(* when the queue was full, the synthesizer gives each note a voice.       *)
(*                                                                         *)
(* A packet is what the kernel reports between two SYN_REPORT; a finger's  *)
(* position is the key under it.  LVGL and the kernel are external.        *)
(***************************************************************************)
EXTENDS Integers, Sequences, SequencesExt, FiniteSetsExt

CONSTANTS
  Slots,          \* the kernel's contact slots, also LvglTouchInput's contacts
  Semitones,      \* keys of the keyboard
  Octaves,        \* octaves the buttons reach
  KernelBuffer,   \* packets the kernel keeps for a reader
  NoteQueue,      \* NoteEventBlock::MAX_EVENTS, also the usable queue
  Voices,         \* NoteVoiceBank::voice_count
  MaxContacts,    \* bound: fingers put down
  MaxLifecycles   \* bound: times the sink is disabled

ASSUME NoteBounds ==
  /\ {KernelBuffer, NoteQueue, Voices, MaxContacts} \subseteq Nat \ {0}
  /\ Slots \cup Semitones \cup Octaves \subseteq Nat
  /\ Slots # {} /\ Octaves # {} /\ IsFiniteSet(Slots)

VARIABLES
  finger,      \* kernel: the key under the finger in each slot
  kernelSlot,  \* kernel: the slot ABS_MT_SLOT named last
  contactIds,  \* kernel: tracking ids given out
  packets,     \* kernel: packets the reader has not taken
  slot,        \* LvglTouchInput::slot_
  contact,     \* LvglTouchInput::contacts_: the reported tracking id
  board,       \* the keyboard: pointers, contacts per key, notes, octave
  calls,       \* notes the display thread still has to queue
  display,     \* ui_state_ and whether the touch device is still read
  lifecycles,
  notes,       \* note_events_
  noteOverflow,
  noteBlock,   \* note_output while process() fills it
  voices,      \* NoteVoiceBank::voices_
  nextSteal,   \* next_voice_to_steal_
  misled       \* history: see NoHangingNote

kernelVars == <<finger, kernelSlot, contactIds>>
panelVars == <<slot, contact, board>>
synthVars == <<voices, nextSteal>>
noteVars == <<kernelVars, packets, panelVars, calls, display, lifecycles, notes, noteOverflow, noteBlock, synthVars, misled>>

None == -1
Lost == [of |-> None, named |-> FALSE, id |-> None, key |-> None]   \* SYN_DROPPED up to its SYN_REPORT
Overflowed == [id |-> 0, key |-> 0, on |-> FALSE]    \* note_overflow_ is still to be set
NoBlock == [open |-> FALSE, flagged |-> FALSE, events |-> <<>>]
Silent == [id |-> 0, key |-> 0, stage |-> "idle"]

FreshBoard == [pointer |-> [c \in Slots |-> None], held |-> [k \in Semitones |-> {}],
               note |-> [k \in Semitones |-> [id |-> 0, key |-> 0]], nextId |-> 1,
               octave |-> Min(Octaves), out |-> <<>>]

NoteInit ==
  /\ finger = [s \in Slots |-> None] /\ kernelSlot = Min(Slots) /\ contactIds = 0 /\ packets = <<>>
  /\ slot = Min(Slots) /\ contact = [c \in Slots |-> None] /\ board = FreshBoard
  /\ calls = <<>> /\ display = "running" /\ lifecycles = 0
  /\ notes = <<>> /\ noteOverflow = FALSE /\ noteBlock = NoBlock
  /\ voices = [v \in 1 .. Voices |-> Silent] /\ nextSteal = 1
  /\ misled = FALSE

(* The kernel names a slot only when it changes.  A packet that finds no   *)
(* room empties the buffer and leaves SYN_DROPPED in it.                   *)
KernelReports(s, k) ==
  /\ finger' = [finger EXCEPT ![s] = k] /\ kernelSlot' = s
  /\ contactIds' = IF k = None THEN contactIds ELSE contactIds + 1
  /\ LET p == [of |-> s, named |-> s # kernelSlot, key |-> k,
               id |-> IF k = None THEN None ELSE contactIds']
     IN packets' = IF display # "running" THEN packets
                   ELSE IF Len(packets) < KernelBuffer THEN Append(packets, p) ELSE <<Lost>>
  /\ UNCHANGED <<panelVars, calls, display, lifecycles, notes, noteOverflow, noteBlock, synthVars, misled>>
FingerDown == contactIds < MaxContacts /\ \E s \in Slots, k \in Semitones : KernelReports(s, k)
FingerUp == \E s \in Slots : finger[s] # None /\ KernelReports(s, None)

-----------------------------------------------------------------------------
(* handle_keyboard_key_event *)
NoteEvent(n, on) == [id |-> n.id, key |-> n.key, on |-> on]
Emit(b, n, on) == [b EXCEPT !.out = Append(@, NoteEvent(n, on))]
MidiKey(b, k) == 12 * (b.octave + 1) + k
Press(b, c, k) ==
  LET touched == [b EXCEPT !.held[k] = @ \cup {c}, !.pointer[c] = k]
      n == [id |-> b.nextId, key |-> MidiKey(b, k)]
  IN IF b.held[k] # {} THEN touched
     ELSE Emit([touched EXCEPT !.nextId = @ + 1, !.note[k] = n], n, TRUE)
(* Mutant: the release names the key the octave shows now. *)
M_Release(b, c) ==
  LET k == b.pointer[c]  rest == [b EXCEPT !.held[k] = @ \ {c}, !.pointer[c] = None]
  IN IF k = None THEN b
     ELSE IF rest.held[k] # {} THEN rest
     ELSE [Emit(rest, [b.note[k] EXCEPT !.key = MidiKey(b, k)], FALSE) EXCEPT !.note[k].id = 0]
Release(b, c) ==
  LET k == b.pointer[c]  rest == [b EXCEPT !.held[k] = @ \ {c}, !.pointer[c] = None]
  IN IF k = None THEN b
     ELSE IF rest.held[k] # {} THEN rest
     ELSE [Emit(rest, b.note[k], FALSE) EXCEPT !.note[k].id = 0]

(* release_all: every pressed contact is read released. *)
ReleaseAll(b) == FoldSet(LAMBDA c, x : Release(x, c), b, Slots)

(* What the display thread does to the keyboard, the notes it emits are    *)
(* the calls it makes next.                                                *)
Play(b) == board' = [b EXCEPT !.out = <<>>] /\ calls' = b.out

ReadsTouch == display = "running" /\ calls = <<>>

(* consume and report: the old contact ends before the new one begins *)
Consume ==
  /\ ReadsTouch /\ packets # <<>> /\ Head(packets) # Lost
  /\ LET p == Head(packets)  c == IF p.named THEN p.of ELSE slot
         ended == IF contact[c] # None /\ contact[c] # p.id THEN Release(board, c) ELSE board
         begins == p.id # None /\ contact[c] # p.id
     IN /\ slot' = c /\ contact' = [contact EXCEPT ![c] = p.id]
        /\ Play(IF begins THEN Press(ended, c, p.key) ELSE ended)
        /\ misled' = (misled \/ c # p.of)
  /\ packets' = Tail(packets)
  /\ UNCHANGED <<kernelVars, display, lifecycles, notes, noteOverflow, noteBlock, synthVars>>

(* SYN_DROPPED; a read that fails does the same and pauses the timer. *)
CancelAll(readOn) ==
  /\ contact' = [c \in Slots |-> None] /\ Play(ReleaseAll(board))
  /\ display' = (IF readOn THEN display ELSE "unread")
  /\ UNCHANGED <<slot, kernelVars, lifecycles, notes, noteOverflow, noteBlock, synthVars, misled>>
EventsLost == ReadsTouch /\ packets # <<>> /\ Head(packets) = Lost
              /\ packets' = Tail(packets) /\ CancelAll(TRUE)
TouchReadFails == ReadsTouch /\ lifecycles < MaxLifecycles /\ packets' = <<>> /\ CancelAll(FALSE)

(* handle_keyboard_octave_event: the note of a held key stays its own. *)
OctaveButton ==
  /\ display \in {"running", "unread"} /\ calls = <<>>
  /\ \E o \in {board.octave - 1, board.octave + 1} \cap Octaves : board' = [board EXCEPT !.octave = o]
  /\ UNCHANGED <<kernelVars, packets, slot, contact, calls, display, lifecycles, notes, noteOverflow, noteBlock, synthVars, misled>>

(* on_disable joins the display thread, which releases the contacts when   *)
(* it destroys the display; on_enable starts it with a new device reader.  *)
Disable ==
  /\ display \in {"running", "unread"} /\ calls = <<>> /\ lifecycles < MaxLifecycles /\ ~ noteBlock.open
  /\ lifecycles' = lifecycles + 1 /\ display' = "stopped" /\ packets' = <<>>
  /\ contact' = [c \in Slots |-> None] /\ Play(ReleaseAll(board))
  /\ UNCHANGED <<slot, kernelVars, notes, noteOverflow, noteBlock, synthVars, misled>>
Enable ==
  /\ display = "stopped" /\ calls = <<>> /\ display' = "running"
  /\ slot' = kernelSlot /\ board' = FreshBoard
  /\ UNCHANGED <<contact, kernelVars, packets, calls, lifecycles, notes, noteOverflow, noteBlock, synthVars, misled>>

-----------------------------------------------------------------------------
(* queue_note_interaction: the push fails and then the flag is set. *)
QueueNote ==
  /\ calls # <<>> /\ Head(calls) # Overflowed
  /\ IF Len(notes) < NoteQueue THEN notes' = Append(notes, Head(calls)) /\ calls' = Tail(calls)
                               ELSE notes' = notes /\ calls' = [calls EXCEPT ![1] = Overflowed]
  /\ UNCHANGED <<kernelVars, packets, panelVars, display, lifecycles, noteOverflow, noteBlock, synthVars, misled>>
QueueFull ==
  /\ calls # <<>> /\ Head(calls) = Overflowed
  /\ noteOverflow' = TRUE /\ calls' = Tail(calls)
  /\ UNCHANGED <<kernelVars, packets, panelVars, display, lifecycles, notes, noteBlock, synthVars, misled>>

(* LvglWidgetSink::process *)
OpenBlock ==
  /\ ~ noteBlock.open /\ display # "stopped"
  /\ noteBlock' = [open |-> TRUE, flagged |-> noteOverflow, events |-> <<>>] /\ noteOverflow' = FALSE
  /\ UNCHANGED <<kernelVars, packets, panelVars, calls, display, lifecycles, notes, synthVars, misled>>
FillBlock ==
  /\ noteBlock.open /\ notes # <<>> /\ Len(noteBlock.events) < NoteQueue
  /\ noteBlock' = [noteBlock EXCEPT !.events = Append(@, Head(notes))] /\ notes' = Tail(notes)
  /\ UNCHANGED <<kernelVars, packets, panelVars, calls, display, lifecycles, noteOverflow, synthVars, misled>>

-----------------------------------------------------------------------------
(* NoteVoiceBank::apply on a bank [v, steal] *)
Matches(voice, e) == voice.stage # "idle" /\ voice.id = e.id /\ voice.key = e.key
Selected(bank, e) ==
  LET same == {i \in 1 .. Voices : Matches(bank.v[i], e)}
      free == {i \in 1 .. Voices : bank.v[i].stage = "idle"}
  IN IF same # {} THEN Min(same) ELSE IF free # {} THEN Min(free) ELSE bank.steal
Apply(bank, e) ==
  IF e.on
  THEN LET i == Selected(bank, e)
           stolen == \A j \in 1 .. Voices : bank.v[j].stage # "idle" /\ ~ Matches(bank.v[j], e)
       IN [v |-> [bank.v EXCEPT ![i] = [id |-> e.id, key |-> e.key, stage |-> "held"]],
           steal |-> IF stolen THEN 1 + (bank.steal % Voices) ELSE bank.steal]
  ELSE [bank EXCEPT !.v = [i \in 1 .. Voices |->
          IF Matches(bank.v[i], e) THEN [bank.v[i] EXCEPT !.stage = "release"] ELSE bank.v[i]]]
Cleared == [v |-> [i \in 1 .. Voices |-> Silent], steal |-> 1]
Bank == [v |-> voices, steal |-> nextSteal]

(* The synthesizer's process: a flagged block resets it, a parameter block *)
(* it refuses takes the notes that came with it along.                     *)
Synthesize(parametersValid) ==
  LET bank == IF noteBlock.flagged THEN Cleared
              ELSE IF ~ parametersValid THEN Bank ELSE FoldLeft(Apply, Bank, noteBlock.events)
  IN /\ noteBlock.open /\ (notes = <<>> \/ Len(noteBlock.events) = NoteQueue)
     /\ voices' = bank.v /\ nextSteal' = bank.steal /\ noteBlock' = NoBlock
     /\ misled' = (misled \/ (~ parametersValid /\ noteBlock.events # <<>>))
     /\ UNCHANGED <<kernelVars, packets, panelVars, calls, display, lifecycles, notes, noteOverflow>>

(* AdsrEnvelope: only a released voice ends. *)
VoiceEnds ==
  /\ \E i \in 1 .. Voices : voices[i].stage = "release" /\ voices' = [voices EXCEPT ![i] = Silent]
  /\ UNCHANGED <<kernelVars, packets, panelVars, calls, display, lifecycles, notes, noteOverflow, noteBlock, nextSteal, misled>>

NoteNext ==
  \/ FingerDown \/ FingerUp \/ Consume \/ EventsLost \/ TouchReadFails \/ OctaveButton
  \/ Disable \/ Enable \/ QueueNote \/ QueueFull \/ OpenBlock \/ FillBlock
  \/ (\E valid \in BOOLEAN : Synthesize(valid)) \/ VoiceEnds
NoteSpec == NoteInit /\ [][NoteNext]_noteVars

(* "Each key remains held until its last touching finger releases" and     *)
(* "queue overflow is explicitly flagged so a consumer can reject the      *)
(* incomplete batch rather than sustain a stuck note": once no finger      *)
(* touches and nothing is on its way, no voice sounds unreleased.  Said of *)
(* runs in which the reader never took a packet for the wrong slot (after  *)
(* SYN_DROPPED it does not ask the kernel for the current slot) and no     *)
(* note block came with refused parameters.                                *)
NoHangingNote ==
  /\ ~ misled /\ display # "stopped"
  /\ \A s \in Slots : finger[s] = None
  /\ packets = <<>> /\ calls = <<>> /\ notes = <<>> /\ ~ noteOverflow /\ ~ noteBlock.open
  => \A i \in 1 .. Voices : voices[i].stage # "held"
=============================================================================
