--------------------------- MODULE WaveformAnalysis ---------------------------
(***************************************************************************)
(* The waveform worker (backends/media/waveform_overview): the latest      *)
(* request replaces the pending one and cancels the running analysis by    *)
(* serial number; one overview is cached.                                  *)
(*                                                                         *)
(* Two threads and the environment: a client submits and polls, the worker *)
(* analyses block by block, files are rewritten meanwhile.  A region under *)
(* mutex_ is one step.  An overview is the file version it is filed under  *)
(* (asset) and the versions its samples were read from; 0 is no file.      *)
(* Every version has the length Length[version] in blocks.                 *)
(***************************************************************************)
EXTENDS Integers

CONSTANTS
  WavePaths,       \* paths of tracks
  Length,          \* file version -> its blocks; versions are 1 .. MaxVersion
  MaxWaveSubmits,  \* bound on submissions
  MaxVersion       \* bound on the versions of the files

ASSUME WaveAssumption == MaxWaveSubmits \in Nat /\ MaxVersion \in Nat \ {0} /\ Length \in [1 .. MaxVersion -> Nat \ {0}]

VARIABLES
  file,        \* the version of the file at each path, 0: missing
  serial,      \* serial_
  wavePending, \* pending_ with pending_ready_
  wave,        \* result_
  waveReady,   \* result_ready_
  cached,      \* cached_path_, cached_
  artist,      \* worker thread: pc, request, serial, identity before, overview
  stopWave,    \* stop was requested
  shownWave,   \* history: the last result polled
  lastWave     \* history: the last request submitted

waveVars == <<file, serial, wavePending, wave, waveReady, cached, artist, stopWave, shownWave, lastWave>>

NoOverview == [path |-> 0, asset |-> 0, from |-> {}, blocks |-> 0]
NoWaveRequest == [track |-> 0, path |-> 0, length |-> 0, expected |-> 0]
WaveResult(r, state, overview) == [request |-> r, state |-> state, overview |-> overview]

(* Track 0 is "no track"; a request carries what the player said of the track: *)
(* its length and, if the selection is known, the asset (0: none expected).   *)
Requests == {NoWaveRequest} \union
            {[track |-> t, path |-> p, length |-> Length[v], expected |-> x] :
               t \in 1 .. 1, p \in WavePaths, v \in 1 .. MaxVersion, x \in {0, 1}}

Idle == [pc |-> "wait", request |-> NoWaveRequest, serial |-> 0, before |-> 0, reading |-> 0, draft |-> NoOverview]

WaveInit ==
  /\ file = [p \in WavePaths |-> 1]
  /\ serial = 0
  /\ wavePending = [ready |-> FALSE, request |-> NoWaveRequest]
  /\ wave = WaveResult(NoWaveRequest, "Unavailable", NoOverview) /\ waveReady = FALSE
  /\ cached = NoOverview
  /\ artist = Idle
  /\ stopWave = FALSE
  /\ shownWave = wave /\ lastWave = NoWaveRequest

----------------------------------------------------------------------------
(* The client *)

SubmitWave(r) ==
  /\ serial < MaxWaveSubmits /\ ~ stopWave
  /\ serial' = serial + 1
  /\ wavePending' = [ready |-> TRUE, request |-> r]
  /\ wave' = WaveResult(r, IF r.track # 0 THEN "Analyzing" ELSE "Unavailable", NoOverview)
  /\ waveReady' = TRUE /\ lastWave' = r
  /\ UNCHANGED <<file, cached, artist, stopWave, shownWave>>

PollWave ==
  /\ waveReady /\ ~ stopWave
  /\ shownWave' = wave /\ waveReady' = FALSE
  /\ UNCHANGED <<file, serial, wavePending, wave, cached, artist, stopWave, lastWave>>

StopWave ==
  /\ ~ stopWave /\ stopWave' = TRUE
  /\ UNCHANGED <<file, serial, wavePending, wave, waveReady, cached, artist, shownWave, lastWave>>

(* A version that was replaced or removed does not come back. *)
FileRewritten(p) ==
  /\ file[p] < MaxVersion
  /\ \E v \in IF file[p] = 0 THEN {MaxVersion} ELSE {0, file[p] + 1} : file' = [file EXCEPT ![p] = v]
  /\ UNCHANGED <<serial, wavePending, wave, waveReady, cached, artist, stopWave, shownWave, lastWave>>

----------------------------------------------------------------------------
(* The worker *)

WorkerOnly == UNCHANGED <<file, serial, stopWave, shownWave, lastWave>>
Cancelled == stopWave \/ serial # artist.serial
NoPublish == UNCHANGED <<wave, waveReady>>

(* publish: a result of an older serial is dropped. *)
M_PublishWave(state, overview) ==
  wave' = WaveResult(artist.request, state, overview) /\ waveReady' = TRUE
PublishWave(state, overview) ==
  IF artist.serial = serial
  THEN wave' = WaveResult(artist.request, state, overview) /\ waveReady' = TRUE
  ELSE NoPublish

(* The stop-aware wait returns when a request is pending or stop was requested. *)
WaveTake ==
  /\ artist.pc = "wait" /\ (wavePending.ready \/ stopWave)
  /\ artist' = IF stopWave THEN [Idle EXCEPT !.pc = "returned"]
               ELSE [Idle EXCEPT !.pc = IF wavePending.request.track = 0 THEN "wait" ELSE "identify",
                                 !.request = wavePending.request, !.serial = serial]
  /\ wavePending' = IF stopWave THEN wavePending ELSE [wavePending EXCEPT !.ready = FALSE]
  /\ WorkerOnly /\ NoPublish /\ UNCHANGED cached

Fails == artist' = Idle /\ PublishWave("Failed", NoOverview) /\ UNCHANGED cached
GoesTo(pc) == artist' = [artist EXCEPT !.pc = pc]
FiledUnder(o, path, asset) == [o EXCEPT !.path = path, !.asset = asset]
WithBlock(o, v) ==
  [path |-> o.path, asset |-> o.asset, from |-> o.from \union {v}, blocks |-> o.blocks + 1]

(* identity before, expected asset and cache; then the decoder is opened. *)
WaveIdentify ==
  /\ artist.pc = "identify"
  /\ LET before == file[artist.request.path]
         hit == /\ cached.asset = before /\ cached.path = artist.request.path
                /\ cached.blocks = artist.request.length
     IN \/ /\ before = 0 \/ (artist.request.expected # 0 /\ artist.request.expected # before)
           /\ Fails
        \/ /\ before # 0 /\ artist.request.expected \in {0, before} /\ hit
           /\ artist' = Idle /\ PublishWave("Ready", cached) /\ UNCHANGED cached
        \/ /\ before # 0 /\ artist.request.expected \in {0, before} /\ ~ hit
           /\ artist' = [artist EXCEPT !.pc = "open", !.before = before] /\ NoPublish /\ UNCHANGED cached
  /\ WorkerOnly /\ UNCHANGED wavePending

(* The decoder keeps the file it opened; its length must be the one requested. *)
WaveOpen ==
  /\ artist.pc = "open"
  /\ LET v == file[artist.request.path]
     IN \/ v = 0 /\ Fails
        \/ v # 0 /\ Cancelled /\ artist' = Idle /\ NoPublish /\ UNCHANGED cached
        \/ v # 0 /\ ~ Cancelled /\ Length[v] # artist.request.length /\ Fails
        \/ /\ v # 0 /\ ~ Cancelled /\ Length[v] = artist.request.length
           /\ artist' = [artist EXCEPT !.pc = "read", !.reading = v, !.draft = FiledUnder(@, artist.request.path, artist.before)]
           /\ NoPublish /\ UNCHANGED cached
  /\ WorkerOnly /\ UNCHANGED wavePending

(* One block: a file rewritten in place is read as it is now, a replaced one *)
(* as it was; the read may fail; now and then progress is published.         *)
WaveRead ==
  /\ artist.pc = "read"
  /\ \/ Cancelled /\ artist' = Idle /\ NoPublish
     \/ ~ Cancelled /\ artist.draft.blocks = artist.request.length /\ GoesTo("verify") /\ NoPublish
     \/ /\ ~ Cancelled /\ artist.draft.blocks < artist.request.length
        /\ \E v \in {artist.reading, file[artist.request.path]} \ {0}, progress \in BOOLEAN :
             /\ artist' = [artist EXCEPT !.draft = WithBlock(@, v)]
             /\ IF progress THEN PublishWave("Analyzing", NoOverview) ELSE NoPublish
     \/ ~ Cancelled /\ artist' = Idle /\ PublishWave("Failed", NoOverview)
  /\ WorkerOnly /\ UNCHANGED <<wavePending, cached>>

(* The file must still be the one identified before. *)
M_WaveVerify ==
  /\ artist.pc = "verify"
  /\ IF Cancelled THEN artist' = Idle ELSE GoesTo("finish")
  /\ NoPublish /\ WorkerOnly /\ UNCHANGED <<wavePending, cached>>
WaveVerify ==
  /\ artist.pc = "verify"
  /\ \/ Cancelled /\ artist' = Idle /\ NoPublish
     \/ ~ Cancelled /\ file[artist.request.path] # artist.before /\ artist' = Idle /\ PublishWave("Failed", NoOverview)
     \/ ~ Cancelled /\ file[artist.request.path] = artist.before /\ GoesTo("finish") /\ NoPublish
  /\ WorkerOnly /\ UNCHANGED <<wavePending, cached>>

(* The coarser levels are built, checking for cancellation, then the cache *)
(* is replaced and the result published.                                   *)
WaveFinish ==
  /\ artist.pc = "finish" /\ artist' = Idle
  /\ \/ Cancelled /\ NoPublish /\ UNCHANGED cached
     \/ cached' = artist.draft /\ PublishWave("Ready", artist.draft)
  /\ WorkerOnly /\ UNCHANGED wavePending

Artist == WaveTake \/ WaveIdentify \/ WaveOpen \/ WaveRead \/ WaveVerify \/ WaveFinish

WaveNext == \/ \E r \in Requests : SubmitWave(r)
            \/ PollWave \/ StopWave \/ Artist
            \/ \E p \in WavePaths : FileRewritten(p)
WaveSpec == WaveInit /\ [][WaveNext]_waveVars

----------------------------------------------------------------------------
(* A poll never shows a result of a request that was replaced before it:   *)
(* the old analysis goes on for a while, but its serial keeps it out.      *)
WaveOfLatestRequest == [][shownWave' # shownWave => shownWave'.request = lastWave]_waveVars

(* An overview that is shown, or kept for the next request of that file,   *)
(* holds the samples of one version of one file, the one it is filed under *)
(* and the one the request expects, although the file may be rewritten at  *)
(* any moment of the analysis.                                             *)
OneAsset(o) == o.from \subseteq {o.asset}
OverviewOfOneAsset ==
  /\ OneAsset(cached)
  /\ shownWave.state = "Ready" => /\ OneAsset(shownWave.overview)
                                  /\ shownWave.overview.path = shownWave.request.path
                                  /\ shownWave.request.expected \in {0, shownWave.overview.asset}
                                  /\ shownWave.overview.blocks = shownWave.request.length
=============================================================================
