# MusicRaT in TLA+

MusicRaT is a set of real-time audio modules (deck player, synthesis, effects,
controls, LVGL views) that run on the CommRaT message framework. This directory
holds TLA+ models of its concurrent parts, the TLC configurations that check
them and the TLAPS proofs about them. All paths below are relative to the
repository root; `src/...` in PROJECT.json names the same files.

The first part modelled is the one everything else of a deck depends on: how a
worker thread decodes a file and an audio callback plays it, with no lock
between the two, while tracks are loaded, sought, replaced and unloaded. The
second is the other end: how the display's deck asks a player in another process
to do these things and finds out what became of it. Around these two stand the
parts behind the screens (browser, waveforms, CUE button, keyboard, the
designer's projects) and those on the signal's way (readers, output, recording,
tempo analysis, control mapping).

## Components of the system

| Component | State it keeps | Operations | Interacts with | What makes it correct |
|---|---|---|---|---|
| Decoded audio pool, `backends/media/decoded_audio_pool.hpp` | slots with an atomic state, metadata, audio; a frame counter; the next slot to write | reserve, publish, cancel, discard, count (worker); acquire, release, range (audio) | called by decode-ahead and its renderer | no audio block is touched by both threads; chunks appear whole and stay until released; the counter is exact |
| Decode-ahead, playback coordinator, decode-ahead renderer, `backends/media/decode_ahead.hpp`, `playback_coordinator.hpp`, `decode_ahead_renderer.hpp` | decoder position, generation, versioned snapshot; leases, adopted generation, media position | open, seek, close, refill (worker); render, diagnostics (audio) | pool, decoder, varispeed renderer | snapshots are whole, one generation plays, no frame is lost or doubled, the callback never waits, the deck does not starve |
| Prepared playback, `backends/media/prepared_playback_coordinator.hpp` | two coordinators, handoff word, load status cell | prepare, collect, cancel, seek, close (worker); render (audio) | file player | both threads agree on the active slot; the slot that is closed is not in use |
| Audio file player, `modules/audio_file_player.hpp` | pending and lifecycle request, load counter, two seek cells | load, seek, unload commands; enable, disable, start, stop; worker loop; process | everything above, quantizer, transport follower, tempo analysis | every accepted load has exactly one outcome; disabling empties the deck |
| Varispeed renderer, `dsp/varispeed_renderer.hpp` | position, rate ramp, cue, loop, seek request | render, underrun, controls | decode-ahead renderer | position stays on resident audio; a cue or loop return asks for a seek exactly when it has to |
| Decoders, `backends/media/*_reader.hpp`, `decoder_dispatcher.hpp` | open file, position, metadata | open, seek, read, close | decode-ahead | frames in order, refused seeks change nothing |
| Deck load control, `control/selection_load.hpp`, `backends/media/deck_load_worker.*` | one operation, its timeout, the session's certainty | submit, submit_seek, publish, run | player (commands and status), LVGL deck | an outcome shown is the outcome of that request |
| LVGL deck and directory browser, `src/backends/lvgl_deck*.cpp`, `directory_browser_worker.*` | control queue, cue release flag, gesture on a waveform, one-slot mailbox | UI callbacks, process, poll | load control | a held cue is released; a seek goes to what the finger was put on; no stale page |
| Tempo grid and waveform workers | request slot, result queue, serial | submit, poll | player, deck view | a result belongs to its request |
| Audio output, `modules/audio_device_sink.hpp`, `src/backends/audio/*` | frame ring, preroll, drift controller, stream state | open, write, close, device thread or callback | PCM, PipeWire | ring indices stay consistent through errors; playback starts and restarts |
| Controls, `dsp/deck_control_quantizer.hpp`, `control_mapper.hpp`, `transport_follower.hpp`, ... | pending events, mapping states, transport position | process one block | player, UI | bounded queues drop only what they report; events in order |
| Control loop, `dsp/control_mapper.hpp`, `control_feedback_router.hpp`, `parameter_state_ui_adapter.hpp`, `modules/lvgl_widget_sink.hpp` | a binding's value and pickup, parameter, update queue | process one block, synchronize, apply updates | widgets, processors, sources | widget, mapper and parameter come to agree; what is lost is announced |
| Synthesis and effects, `dsp/*` | voices, envelopes, filter states | process one block | keyboard, parameters | no note outlives its finger; envelopes end; sample arithmetic is out of scope |
| Touch input and keyboard, `src/backends/lvgl_touch_input.cpp`, `lvgl_widget_renderer.cpp` | contacts per slot, keys held, note queue | consume events, emit notes, disable | synthesizer | every note that is on has its off |
| WAV sink and writer, `backends/audio/wav_writer.hpp` | file, byte count | open, write, close | - | a closed file plays back what was accepted |
| Launcher, `launcher/audio_format_validation.hpp` | none | validate an application | - | exactly the consistent applications are accepted |
| Application designer, `tools/application-designer` | project files, pending writes; what each editor shows | open, save, import | several browser windows | a saved project is not lost |
| Rekordbox import, `src/backends/media/rekordbox_*.cpp`, `dsp/beat_grid.hpp` | none | import after a commit, read the track list; map frames to beats | deck load worker, directory browser | what is taken over fits the track; a library is read along its chain of pages; a grid maps back |
| Views, messages | drawing, fields | - | - | see PROJECT.json |

What is hard about this code: the worker and the audio thread share memory
without locks (interleavings and half-done updates); tracks are replaced while
they play (stale generations, stale intents); requests come from command
threads, lifecycle callbacks and the audio thread at once (lost or doubled
outcomes); and the audio thread may never wait. PROJECT.json lists these
hazards line by line with the property that covers each, or why none does yet.

## Modules

- **ChunkStore** - the abstract specification of the pool: a chunk is reserved,
  published whole, leased, returned, or dropped unread by a discard of older
  generations.
- **DecodedAudioPool** - the pool's two threads, one atomic access per step. A
  call is a record `w` (worker) or `r` (renderer): its `pc`, the slot it is at,
  its arguments. `...Call` actions start a call, which has ended when `pc` is
  `"idle"`. `Next` lets both threads make any legal calls in any order.
- **PlaybackCoordinator** - extends the pool with one deck: `wk` and `rk` are the
  program counters of the coordinator calls above `w` and `r`. Open, seek, close
  and refill drive the worker side as `DecodeAhead` does; render and
  `try_read_diagnostics` drive the audio side.
- **PreparedPlayback** - the handoff of two slots. A slot is a whole
  PlaybackCoordinator, of which only what the module before establishes is kept:
  generation, track, whether a transition runs, whether leases are held.
- **AudioFilePlayer** - extends PreparedPlayback with the player module: request
  slots, lifecycle callbacks, the worker loop step by step, `process`.
- **SelectionLoad** - the pure part of deck load control: a load as a record, and
  what `begin`, `accept`, `observe`, `outcome_unknown` and
  `unavailable_before_send` make of it. It has no state of its own.
- **DeckLoad** - extends SelectionLoad with the deck's load worker. Four parties
  interleave: the display (Submit, SubmitSeek, Poll), the process callback
  (Publish), the worker (`pc`: "drain" statuses and clocks, "take" one operation,
  "loading"/"seeking" while it waits for a reply, "finish" with the slot and the
  view) and the player in its own process, with its other clients, faults and
  restarts. The player is AudioFilePlayer seen from outside, one step per
  change of its status; what the run "player" shows of load outcomes (one each,
  never going back) is what these steps rely on. `rpc` is the request under way: sent, answered, late (past the
  500 ms deadline, but it may still be carried out) or lost with the process.
- **DecodedAudioPoolProofs**, **PlaybackCoordinatorProofs**, **AudioFilePlayerProofs**,
  **DeckLoadProofs** - theorems about the modules they are named after;
  **ApplicationProofs** - theorems about ProjectStore and AudioFormats;
  **MusicalTimeProofs** - theorems about SpscQueue, TempoAnalysis, BeatGrid,
  RekordboxImport, DeckControls, VarispeedLoop and Envelope;
  **ViewWorkersProofs** - theorems about WaveformAnalysis and DirectoryBrowsing;
  **InputOutputProofs** - theorems about SeekGesture, CueButton, AudioOutput,
  MediaReaders, NotePath and WavRecording (see "What is proved").

Behind the screens, composed in **Surface**:

- **DirectoryBrowsing** - the LVGL thread clicks, pages and polls; the worker
  (`finder`) sleeps on the wake sequence, takes the one request of the mailbox,
  scans or resolves; files are replaced, removed or turned into links meanwhile
  (`node`). A scan and a resolve see one state of the file system each.
- **WaveformAnalysis** - a client submits and polls; the worker reads the file
  block by block, drops the analysis when its serial is outdated, verifies the
  identity at the end and caches one overview. Samples are the file version they
  were read from, so that a mixture shows.
- **CueButton** - the CUE gesture from the view (`surface`) over the deck's queue
  and release flag (`deck`), the control block, the renderer (`cue`) and the seek
  the player's worker makes for it (`intent`, `landing`) back to the view
  (`sample`), with lost connections, other seeks, replaced tracks and restarts.
- **SeekGesture** - a finger on a waveform: the gesture the view keeps (`screen`),
  the views on their way to the display (`shelf`), the check the deck's worker
  makes before it sends (`sender`), and a player (`deckPlayer`) whose track,
  generation and position change meanwhile.
- **NotePath** - from the finger to the voice: kernel slots and packets, the
  contacts of LvglTouchInput, keys and octaves of the keyboard, the note queue of
  the display sink with its overflow flag and its disable, the block, the voices.
- **ProjectStore** - the host's writes with every await a step, the editors with
  replies that overtake one another, others who write the files, and the end of
  the host or of the power between any two steps.
- **UiObservation** (adapters and merger of widget updates), **BeatGrid** (a
  track's grid and the mapper between frames and beats), **RekordboxImport**
  (extends BeatGrid: what a deck takes over from a stick's ANLZ files) and
  **RekordboxLibrary** (the stick's track list) - sequential code, as operators.

On the signal's way, composed in **SignalPath**:

- **AudioOutput** - module thread (open, close, write), feeder (ALSA worker or
  PipeWire callback) and state callback over one ring; pre-roll, drift
  correction, short and failed device writes, recovery. Frames are numbered.
- **MediaReaders** - the readers and the dispatcher below DecodeAhead. A sample
  is the number of its frame; the codec library's position may differ from the
  one the reader believes in. Containers may declare a wrong length.
- **WavRecording** - the recording's file and its two sizes, in words of WordSize
  values; writes may be short, patches may fail, the process may die.
- **SpscQueue** - `push` and `pop` step by step; an element that is read while it
  is written is Torn. **TempoAnalysis** extends it with the thread that produces
  for it, and the submission slot.
- **ControlPath** - sliders, sink, mapper, processor, adapter, router and control
  sources, each a periodic step over the latest block of the one before. The mapper
  has any number of bindings of one parameter, each with its feedback route; a
  state carries the binding that set it (`by`), or none when it was written, and
  `Meant` is the filter on it in mapper and router.
- **DeckControls** (quantizer, transport source, follower, action mapper),
  **VarispeedLoop** (rates, loop and the chunks a loop retains), **Envelope** and
  **AudioFormats** (the preflight) - sequential code, as operators.

Sequential code has no interleavings; it is translated to operators and compared
with what it promises over bounded inputs, in assumptions TLC evaluates when the
run starts: ConfigurationWhole, LossIsAnnounced, MetersTellValidity, TimesAddUp
(UiObservation); GridMapsBack (BeatGrid); GridsTakenOverFit, MarkersTakenOverFit,
OthersDoNotMatter (RekordboxImport); ReadsTheChain, ListsInOrder
(RekordboxLibrary); QuantizerKeepsTime, PressesAccounted, BlocksContinue,
FollowerStaysInRange (DeckControls); LoopNeverDries, FloorIsEnough,
StarvingKeepsControls (VarispeedLoop); EnvelopeEnds; PreflightExact (AudioFormats);
LagsNearBest (TempoAnalysis).

Surface and SignalPath run one component at a time (`part`): their components
share no state, the product of their behaviours would say nothing more, and the
bounds stand in one place.

Each module holds its properties at its end. An operator `M_X` is a plausible
bug in `X` (a guard dropped, an index not wrapped); the properties are checked
to fail when it replaces `X`.

Correspondence: a variable's comment names the member it stands for; an action's
comment, or its entry under "map" in PROJECT.json, the lines. History variables
(`refused`, `outcome`, `accepted`; `source`, `fate`, `sought`, `forsaken`; `owed`, `sentSeek`,
`spoilt`, `strayed`, `flushRaced`, `excused`, `misled`, `fullOnce`) and bounds (`calls`, `MaxVersion`, ...) are
marked as such.

### What the models leave out

- Memory is sequentially consistent. The seqlock readers use relaxed loads
  without a fence before the second version load; reorderings of weakly ordered
  CPUs are not modelled.
- Audio samples. A chunk is the media frames it covers; the render loop advances
  one media frame per output frame. Interpolation and pitch lock are left out; in
  PlaybackCoordinator so are rates and loops (they are in VarispeedLoop, over
  given chunks), and jumps of the position (cues) go to any leased frame.
- Of the metadata only channel count and duration are kept (a track is
  identified by its length); the decode error is left out.
- In PreparedPlayback the load status cell is read in one step: what two
  attempts can return is the cell's last whole value, or nothing while it is
  written. `load_error_` is left out.
- Seek intents carry the track they were computed for instead of a frame.
- Tempo analysis, the quantizer and the transport follower beside the player:
  they have modules of their own and meet the player through messages.
- Floating point. Levels, rates, positions and gains are small integers or
  fractions with a fixed denominator (`Phase`, `Ticks`, `FrameTicks`); scaling,
  curves, filters and tempo estimation beyond the choice of the lag are left out.
- Which device formats are negotiated, the file headers of the codecs, names and
  permissions of files, layout and drawing.
- In ProjectStore the store's directory exists and is durable. The code makes it
  for a first save (project-store.mjs:318) and never synchronizes its parent, so
  that a power failure may take the directory with the save; nothing is said of it.
- In CueButton positions are whole frames and which chunks are resident when a
  block is rendered is any choice; in MediaReaders a packet has a fixed length.
- The byte layout and the text decoding of Rekordbox files: a file is the
  sections, pages and rows it has and whether each of them fits. A file has at
  most one section of beats, and paths are compared by equality.
- In SeekGesture each waveform takes one finger at a time, and the player does not
  restart: tracks and generations only grow.
- The designer's compilers and editors, the launcher's parsing and process start:
  sequential functions that tests reach.
- In DeckLoad clocks are choices: at any reading a second without a status or the
  timeout of an operation may have passed. A sequence number is compared as the
  session it belongs to: the first sample seen of a restarted player is assumed to be
  below the last one seen before, and a restart to take longer than the worker
  needs from draining the statuses to sending a command. Taking the slot and
  pushing the operation it permits is one step. The player's replies are well
  formed.

## Runs

| Run | Module, configuration | Bounds | Shows |
|---|---|---|---|
| pool | DecodedAudioPool | 2 slots, generations 0-1, chunks of one frame starting at 0 or 1 | all interleavings of two arbitrary callers, each call with any arguments: ExclusiveAudio, PublishedWhole, ResidentExact, LeaseFrozen, and the refinement of ChunkStore |
| playback | PlaybackCoordinator | 2 slots, 2 generations (open and one seek or close, or a reopen), a 3-frame track in chunks of 2 and 1, failing and invalid reads | whole snapshots and diagnostics, one generation, no overlap and no hole, the callback returns, the deck plays on |
| player | AudioFilePlayer | 2 load IDs, 3 commands, callbacks or intents in all, restart included | slots agreed on, one outcome per load, status goes forward, loads settle, disabling empties the deck |
| deck_load | DeckLoad | 2 operations, 2 disturbances, 2 load IDs per session, one restart, queues of one entry, 2 seek targets | a reported outcome or position is what the player did (OutcomeReal, SeekReal); one request outstanding; a doubtful session keeps the slot; the name shown is the track's |
| deck_live | DeckLoad, LiveSpec | 2 operations, 1 disturbance | every operation is decided or reported unknown, every outcome is shown, late results are reconciled |
| surface | Surface | one request more than a stale page needs (MaxBrowse 4, one file change); 2 paths, 2 submissions, 3 file versions; 2 touches and one trouble on a 2-frame track; one gesture on a waveform and one change of the player under it; 2 fingers on one key, a queue of one note, 2 voices; 2 projects, 2 editors, 3 requests, one accident | the file handed to the deck is the one shown; an overview is of one file version and the latest request; a seek goes to what the finger was put on; no preview and no note without a finger; what was reported as saved stays; the browser's worker misses no request |
| signal | SignalPath | blocks of 3 frames, 14 frames written, one open; files of 4 to 7 frames with right and wrong lengths, 4 opens and seeks; sizes modulo 8; a queue of 3 slots and 4 pushes; 2 moves or writes over values 0..2, up to 2 events in a block and 1 in the mapper's, one binding of every mode, or two of one parameter (of two widgets, or of one) | the ring's window is never overwritten; a chunk holds the frames its label says; a closed recording plays back; results in order while the queue has one consumer; playback starts; sliders, mapper, parameter and feedback settle on one value; a binding is advanced by what was sent and by nothing else |
| stale_name | DeckLoad | one load, a restart, a load of another client | violation: see below |
| rejected_seek | PlaybackCoordinator | 2 slots, one track, one refused seek | violation: see below |
| stale_chunks | PlaybackCoordinator | 2 slots, one accepted seek | violation |
| stale_seek_intent | AudioFilePlayer | two loads, one intent | violation |
| protected_when_unloaded | AudioFilePlayer | two loads and two other commands | violation |

Why these bounds are enough for what they check: the pool's calls look at one
slot at a time, so two slots give every order of two threads on the same slot
and on different ones, the wrap of `next_write_index_` and a full pool; two
generations give stale and current. A playback run needs one change of
generation while chunks of the old one are ready, leased or probed. A player run
needs two loads, so that one replaces the other, and one disturbance of each
kind between them. A deck_load run needs two operations, so that the second
meets what the first left behind, and two disturbances, so that a restart and
another client's load fall into one behaviour; a queue of one entry is full
whenever the other thread pauses. In the surface run two fingers meet on one key, a second request meets the first
one in the mailbox, and a save meets one that was compared before it. In the
signal run the ring wraps (14 frames through 12 slots), packets and chunks have
different lengths so that seeks land inside both, and the data size reaches the
largest number. The mapper's block is full at its second event,
from two events of one slider or from two bindings of one event; two moves let one
binding's change meet a write or the other's change. The theorems carry the results of the pool, of the playback path,
of the player, of the deck's load worker, of the project store, of the waveform
worker and of the tempo queue
to any number of slots, generations, frames, loads, operations, restarts, editors,
paths and places.

The type invariants TypeOK, PlayTypeOK, PlayerTypeOK and LoadTypeOK are no
properties of the runs: they are proved.

Deadlock is checked in every run but surface and signal: there workers stop for
good when they are told to, and a bounded user has nothing left to do.

Fairness. `AudioSpec` assumes that an audio call that started runs on
(`WF(AudioRuns)`) and nothing of the worker: the callback is a real-time thread,
and RenderReturns says it needs nobody. `PlaysOn` assumes in its premise
`ThreadsRun` that the worker loop comes round to a refill again and again (its
wait has a timeout of 2 ms) and that render is called for every block. It is
strong fairness because each call is enabled only between two others.
`LiveSpec` assumes weak fairness of the worker's thread, of `process` and
of `on_stop` (which joins the worker), and nothing of clients or lifecycle
callbacks. `LiveSpec` of DeckLoad assumes weak fairness of the worker's thread,
of the display's poll timer and of the process callback, and strong fairness of
the clock check that finds the timeout passed: the worker drains its queue faster
than blocks arrive, and time passes. It assumes nothing of the player.
SurfaceFairness assumes weak fairness of the browser's worker thread, of the wake
it was sent and of the display's poll timer. SignalFairness assumes it of the
device that asks for frames (a device that stops asking is an error the stream
reports), of a write that has begun, of a graph that delivers blocks, of each periodic module of
the control loop and of the display thread that drains its queue, and nothing of the
user; the mapper's is stated of the part of its step that takes its inputs
(MapperTakes), which no other step does.

### Disagreements found between the code and its documentation

1. `rejected_seek` - a seek that is refused still loses audio when a block is
   rendered during it: the suspended render releases its leases, the generation
   stays, and the position has nothing to play.
2. `stale_chunks` - the renderer's probing can hide chunks of the old generation
   from a discard; they fill the refill window and an accepted seek is followed
   by silence.
3. `stale_seek_intent` - a seek intent of the old track can be taken by the
   worker between the acknowledgement of the new one and the clearing of the
   intents.
4. `protected_when_unloaded` - an unloaded deck can keep its track ID and refuse
   the next load as protected.
5. `stale_name` - an idle player that restarts is not noticed; when its next load,
   of another client, gets the identity of the deck's last one, the deck shows
   the old selection's name and path for it.

One more was met and is excepted through `forsaken` in OneOutstanding: a decode
error in a status ends a seek as failed (deck_load_worker.cpp:77-79) although
the player may still have it queued, or have carried it out in a generation the
worker has not seen yet, and frees the slot, against
docs/MEDIA_PLAYBACK.md:491 "Loads and seeks share one outstanding-operation slot,
including accepted work whose outcome is unknown." A slot that stays taken
after an unknown outcome is documented and no disagreement.

NoHoleUnlessRefused, PlaysOn and NameUnlessRestarted are the same properties with exactly these cases
excepted, and hold.

Met while the other components were modelled, and listed in PROJECT.json with
the line and the sentence they disagree with; no run is spent on them:

- AudioOutput: `open` can overwrite the error callback's `open_ = false`.
- TempoAnalysis: the producer pops its own queue; its destructor can lose the
  wakeup it joins on.
- NotePath: after SYN_DROPPED events can go to the wrong slot; refused parameters
  take the notes of their block along.
- MediaReaders: a refused MP3 or FFmpeg seek leaves the library elsewhere; a late
  landing is reported at the target; WAV is probed first, not last.
- CueButton: a flagged release can overtake a press; `on_disable` is a second
  consumer; a refused cue seek leaves the renderer waiting for it.
- WavRecording: the RIFF size wraps before the data size does.
- ProjectStore: the reply to a save can attach the wrong project to an editor; a
  failed directory sync reports a save that happened as failed.
- RekordboxImport: a second PCO2 section of a file wipes the first one's cues; the
  bar position of the first beat is ignored.
- ControlPath: a parameter state set through one binding is not shown to the other
  bindings of the parameter; one with match pickup is picked up at the value the
  parameter had before, and a relative one goes on from it. LoopSettles says what is
  true: the mapper's state settles for the binding that set the parameter, or for
  all when it was written.
- DeckControls: one CUE-button action makes the action mapper refuse every binding.

Where one of these can break a property, the property names the case it excepts
(`flushRaced`, `fullOnce`, `misled`, `strayed`, `excused`, `spoilt`), a history
variable set by the step concerned and by no other.

## What is proved

Each module of proofs states its inductive invariant first, with a comment per
conjunct, then one lemma per conjunct or per kind of step with one step per
action, and the theorems last. Every conjunct was checked by TLC, as an invariant
of the component's run, before it was proved. The assumptions used are the named
ones of the modules, which TLC evaluates in the runs; they bound constants and say
nothing of behaviours.

### The chunk pool

`DecodedAudioPoolProofs`, for every ChunkCount > 1 and all bounds:

- TypeCorrect: `Spec => []TypeOK`
- Exclusive: `Spec => []ExclusiveAudio`
- Whole: `Spec => []PublishedWhole`
- LeasesFrozen: `Spec => LeaseFrozen`
- StoreImplemented: `Spec => Store`, the refinement of ChunkStore
- ResidentIsExact: `Spec => []ResidentExact`

They follow from one inductive invariant, `PoolInv` (theorem PoolInvariant).
ExclusiveAudio alone is not inductive: from a state where a call is at "clear"
with no slot, or where a discard checks a slot it never marked, the next step
breaks it. PoolInv is the conjunction of

- TypeOK, so that `w.at`, `w.slot` and `r.at` are slots where they index one;
- CallShape, which says for each `pc` whether the call owns a slot;
- ExclusiveAudio, what each slot state means: Writing is the worker's
  reservation, Reading is exactly one of discard, probe and lease;
- PublishedWhole with PublishShape: which of start, generation and count a
  running publish has stored already.

The proofs work on one slot at a time (SlotExclusive, SlotWhole).
The proof has a lemma per conjunct (TypeStep, ShapeStep, ExclusiveStep,
WholeStep), each with one step per action; FrozenStep does the same for the
action property. The refinement looks at what a step does to the abstract view of
one slot (`PhaseOf`, `ChunkOf`): it either leaves every slot as it was (`Same`,
`Kept`) and is a stutter, or changes exactly one of them as an action of ChunkStore
does.

ResidentExact has an invariant of its own, `ResidentInv`: PoolInv, that a release
holds the frame count of the chunk it gives back (ReleaseShape), and the equation
itself (Exact). The sum over the resident slots is the library's fold. It is unfolded
without an induction theorem: a set of slots of least size for which an equation
fails would have a smaller one (SmallestSet), so the fold has a value (SumExists), the
value is unique (SumsAgree), and any slot may be taken out first (TotalLess). No step
touches the audio of a resident slot (FrozenStep), so the sum only changes with
the set: a publication adds a slot, a discard and a release take one out, and the
frames of that slot are at that step among the updates under way.

### The playback path

`PlaybackCoordinatorProofs`, for every track, chunk length, watermark, set of seek
targets and decode faults:

- PlayInvariant: `PlaySpec => []CoordinatorInv`
- PoolUsedLegally: `PlaySpec => Spec`: the coordinator's calls are the calls the
  pool's specification allows, so the theorems above hold inside every deck
- SnapshotsAreWhole (SnapshotWhole), PlaysOneGeneration (OneGeneration), ChunksTile
  (NoOverlap), DiagnosticsAreWhole (DiagnosticsWhole), ReadsWhole (the two together:
  ReadsAreWhole), NothingIsLost (NoHoleUnlessRefused): all the invariants of the run "playback"

`PlayInv` says where in the pool each thread is when it is at a place of the
coordinator (WorkerPlace, AudioPlace); that the version is odd while a transition
runs and bounds the generation (Versions); that what is published is the worker's
but for the stores in `todo` (StoresFit); that a snapshot agrees with what is
published as long as the version is the one it began with (SnapFits); and that the
renderer is behind the worker only while it has not adopted a generation or a seek
was refused (Follows, Behind). SnapshotWhole and OneGeneration follow from it.
The other three stand on layers of their own above it:

- NoOverlap on `TileInv`: the chunks of the worker's generation lie between its
  start and the decoder, before the one being published (Tiled), and those of any
  generation are disjoint (NoneOverlap).
- DiagnosticsWhole on `RangeSeen`: while the version is unchanged, each word of a slot
  that `buffered_range` has loaded is still true of it (Seen), so the range it puts
  together is one of resident chunks (RangeFits).
- NoHoleUnlessRefused on `PositionInv`: no chunk of the generation ends before the
  position (Position), chunks in slots the search has passed come after the leases
  (Ahead), and every frame from the position, or from the start of the generation
  while it is not adopted, up to the decoder is in some chunk (Covered). Ahead is
  what makes it inductive: without it the renderer could lease a later chunk, play
  it, and leave an earlier one behind. A step of the worker either interrupts the
  playing, leaves the chunks alone, fills a slot or completes one (WorkerKinds).

### The handoff and the player

`AudioFilePlayerProofs`, for any number of loads, commands and lifecycle callbacks:

- PlayerInvariant: `PlayerSpec => []PlayerInv`; PlayerTypesHold
- SlotsAgree (HandoffSlots), RetiredUnused (RetiredSlotUnused), TrackAsHeard
  (NoForeignTrack), LoadHasOneOutcome (OneOutcome), StatusGoesForward
  (LoadStatusForward)

PlayerInv says which call the loop is in at each of its places (CallPlace), that one
request is under way at a time and what a stop may interrupt (OneRequest, StopPlace),
what the handoff word says from either side (HandoffPlace, AudioPlace), whose the two
slots then are and that leases are held in the audio slot only (HandoffSlots,
LeasesHere), which track belongs to it (TrackPlace), and the order of load IDs from
the counter through the queued and executed request to the status cell (IdsInOrder,
RequestsInOrder, StatusInOrder). The last three are what LoadStatusForward needs: a
status can only go back if an older ID is still on its way behind a newer one.

### The deck's load and seek worker

`DeckLoadProofs`, for any number of operations, disturbances, restarts, load IDs
and queue entries:

- DeckInvariant: `Spec => []DeckInv`; DeckTypesHold
- OutcomesReal (OutcomeReal), OneIsOutstanding (OneOutstanding), NameIsRight
  (NameUnlessRestarted), SeeksAreReal (SeekReal): all the properties of the run
  "deck_load"

None of the four is inductive. OutcomeReal says that a load the worker calls
committed was committed; but the worker learns of it from a number in a sample
that left the player some blocks ago, possibly in a session that is over. DeckInv
therefore relates the four parties:

- Slot and RequestPlace: one operation has the slot from its submission to its end,
  a session in doubt keeps it, and at most one request of it is on its way - sent,
  answered, lost, or late behind an operation whose outcome is unknown.
- Identities, Unissued and Prepares: a session and an ID stand for one operation,
  an operation has at most one of them, one that was never carried out has none,
  and the load the player prepares, if it is the deck's, is the one the worker
  waits for.
- SamplesPast, SamplesDecided and Landings, of every sample in the queue, in the
  worker and in the player: they are in order of session and generation, none is
  ahead of the player, an end one of them tells is the end of the operation, and
  within a track a generation newer than another began with a seek.
- Matched and Aimed: when the worker compares an ID or a generation with a sample,
  the sample is of the session the answer came from, or of a later one, which the
  worker notices first. This is where `uncertain` and the draining of the queue
  before a request matter.
- SeekPlace: unless a seek was given up too early (`forsaken`), the seek the worker
  waits for is the only one the player can still carry out, and it does so once.
- Ends and Names: an end that was reported is remembered with its operation, and
  the name with its track, as long as there was no restart; `stale_name` is what
  happens after one.

DeckLoad takes a late request that is still under way when the next one is sent
as lost. Only a seek that was given up too early can be, so this concerns no state
OneOutstanding is claimed for.

### The other components

- `ApplicationProofs`, NoSaveIsLost (SavedIsNotLost), for any number of editors,
  projects and documents. Only the first write of a name is past its queue
  (FirstRuns); one that has compared the revision still expects what is owed
  (Compared); one that renamed is what the file holds (Renamed); what is owed is on
  disk (OwedOnDisk). FirstRuns is the reason why the awaits between the comparison
  and the rename do no harm.
- `ViewWorkersProofs`, the two workers behind the deck's view:
  - OverviewIsOfOneAsset (OverviewOfOneAsset) and PollsTheLatest
    (WaveOfLatestRequest), for any number of paths, versions and submissions. What
    the worker identified before and after the reading bounds what it can have read
    in between, because a file only gets newer (Reading); only the worker with the
    last serial works for the last request (Serials).
  - SelectionIsWhatIsShown (HandsOffWhatIsShown), for any tree of directories,
    catalog, page size and scan limit. View and worker share one request, and the
    mailbox is in use exactly while the view waits (Boxed); so only asking for the
    selection keeps the row while an answer is on its way, and the page under the
    row stays (Selected). A page with the snapshot's number shows entries of the
    snapshot, an older one has an older number (Listed). A scan lists one version of
    each path, so the entry that is compared with the file, found by its path, and
    the entry in the selected row carry the same version (Answered). What a scan
    lists is a recursive function over the names; EntriesOf unfolds it.
    BrowseAssumption asks that every directory but the root lies in one that can
    hold it, which is what `parent_path` relies on.
- `MusicalTimeProofs`, QueueIsFifo, for every capacity and number of pushes, and
  TempoResultsInOrder (ResultsInOrderUnlessFull). The slots from the tail on hold
  what is owed to the consumer (Held), the slot being written is never one of them
  (Ring), also while either side works with a stale copy of the other's index.
- `InputOutputProofs`, six components that share nothing:
  - SeeksWhatTheFingerMeant (SeeksWhatWasTouched), for any number of gestures and
    views. While a finger is down the view it sees is the one its gesture was
    aimed at, since a view of another track or generation ends the gesture (Aims),
    and what waits for the worker names what it was aimed at (ToAim).
  - WindowStaysIntact (WindowIntact), for every size of the ring, of a block and of
    the rate's phase. The writer keeps room for its block until it stores its
    position (WriterPlace); a round's cursor is the ring's, and no part of what it
    delivers, for any step of the servo, takes more than there was (FeederPlace,
    DeliverableFits). Frames less than a ring apart are in different slots
    (RemaindersDiffer).
  - NoPreviewIsOrphaned (NoOrphanPreview), for any number of touches, full queues,
    seeks and restarts. On the way through queue, output and block every press is
    answered by a release behind it (AllAnswered). What a block does to the renderer
    is a fold; ControlsInOrder unfolds it, by the smallest prefix that would
    contradict it (SmallestNumber).
  - EveryFrameAsLabelled (FramesAsLabelled), for every file, packet and chunk size,
    whatever reads, failures and seeks came before. The library, less what is
    pending, stands at the frame the reader says it is at (PositionedAt); for AAC
    that is the later of where it landed and where it was sent, because what it
    decodes before the target is thrown away (SoughtRight). What a packet adds to
    what is pending goes on where that ends (PacketsCover, DecodedTracks).
  - NoNoteHangs (NoHangingNote), for any number of slots, keys and voices and every
    size of the kernel's buffer and the note queue. A note-on in any stage
    (the calls to come, the queue, the block, a voice) is ended by a note-off behind
    it, or its key is held, or a flagged block is still to come (Owed). A
    key is only held by a contact whose finger is down or whose end is in a packet
    (KernelSync, PointersReported). A note past the queue's room counts on the flag of the open block
    only as far as it fits into it: a block closes full or with nothing left.
    Letting go of all contacts and applying a block are folds, unfolded as before
    (SlotsInTurn, EventsInOrder).
  - RecordingsPlayBack (RecordingPlaysBack), for any blocks and every limit of the
    data size. While the file is open and unspoilt its body is that of the accepted
    blocks and the writer's count is its length (RecordingInv), so what `close`
    patches into the header is the length of what was recorded. The body is a fold
    over the blocks; BlocksInOrder unfolds it.

### The operators

TLC checks what the pure operators promise over bounded inputs, as assumptions of
their modules. Some of these are also theorems, for all inputs:

- `MusicalTimeProofs`:
  - BeatsMapBack, the sense of GridMapsBack, for any valid grid: between the first frames of
    two segments a frame and its beat lie in the same segment (FrameSegment,
    BeatSegment), and inside one the two roundings undo each other (FrameInside).
  - ImportedGridsFit, that of GridsTakenOverFit, for whatever beats a file holds: set_grid
    keeps the segments so far in order, inside the track and each where the one
    before it led (Tiled, SegmentAdded), which BeatsMapBack needs. That the grid counts
    the beats of the file (KeepsBeatNumbers) stays with TLC.
  - EventsKeepTime, that of QuantizerKeepsTime, for any events, block and transport: what is in
    the block so far is allowed in it and in order (InBlock), and a step of the
    quantizer publishes an event, keeps it waiting or counts it (Counted).
  - FollowerInRange, that of FollowerStaysInRange.
  - LoopPlaysOn, that of LoopNeverDries, for any loop, position, rates, ramps and block.
    A ramp never passes its target, so rates stay positive (Ramping, RateStaysPositive);
    wrapping leads into the loop and never further back (Wrapped); the second frame of the
    loop's last is its first (LoopCanSample). The controls are those that neither start
    nor move a loop.
  - FloorSuffices, that of FloorIsEnough, for any controls but the start of a loop, which
    may ask for audio that was released and is then refused. Neither the position nor
    the start of a running loop goes below the floor (AtOrAbove).
  - NoteEnds, that of EnvelopeEnds but for how steep a step can be: stage and frame say how long
    the note was held or is released (HeldFor, ReleasedFor), and a ramp stays between
    its ends (RampBetween).
- `ApplicationProofs`, AcceptedFormatsAgree, one half of PreflightExact: what is accepted
  agrees. A round only adds what was not known (KeepsValues), and what a round left
  alone is settled (SettledAt). That everything which agrees is accepted after enough
  rounds stays with TLC.

### Only model-checked

- Out of reach of the prover: all liveness (RenderReturns, PlaysOn,
  PlaysOnAfterSeek, LoadsSettle, DisableEmptiesDeck, SlotDecided, OutcomeShown, LateResult, FinderServes,
  PlaybackStarts, LoopSettles).
- AdvancedAsSent: the mapper is a fold over the events of a block and over the
  bindings, and what it does to a block of any length takes an induction over it.
- The other half of PreflightExact, KeepsBeatNumbers, how steep an envelope can be,
  and the assumptions of the operators not named above, over bounded inputs: most of them say what a function
  computes over data of any length, which takes an induction over the data.

## Plan

1. Core (done): pool, playback, handoff, player.
2. Deck load control (done): SelectionLoad and DeckLoad.
3. Behind the screens (done): DirectoryBrowsing, WaveformAnalysis, CueButton,
   SeekGesture, NotePath, ProjectStore, UiObservation, BeatGrid, RekordboxImport,
   RekordboxLibrary, composed in Surface.
4. On the signal's way (done): AudioOutput, MediaReaders, WavRecording, SpscQueue,
   TempoAnalysis, ControlPath, DeckControls, VarispeedLoop, Envelope
   and AudioFormats, composed in SignalPath.
5. Proofs. Done: the pool with its refinement of ChunkStore and its frame count, the playback path,
   the handoff and the player, the deck's load and seek worker, SavedIsNotLost, the
   waveform worker, the queue and the tempo results, the seek gesture, the CUE
   button, the output ring, the media readers, the note path, the recording and the
   directory browser: every safety property of a passing run but AdvancedAsSent is also a theorem;
   the beat grid and its import, the quantizer, the follower, rates and loops, the
   envelope and the preflight.
