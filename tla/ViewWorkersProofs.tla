--------------------------- MODULE ViewWorkersProofs ---------------------------
(***************************************************************************)
(* Proofs about the two workers behind the deck's view.                    *)
(*                                                                         *)
(* The waveform worker: an overview holds the samples of one version of    *)
(* one file, and a poll never shows a result of a request that was         *)
(* replaced -- for any number of paths, versions and submissions.          *)
(* The first rests on what the worker knows while it reads (Reading): a    *)
(* file only ever gets newer, so what lies between the version identified  *)
(* before and the one found after can only be that version.  The second    *)
(* rests on the serial numbers (Serials): only the worker whose serial is  *)
(* the last one works for the last request.                                *)
(*                                                                         *)
(* The directory browser: the track handed to the load handler is the one  *)
(* the view shows as selected, as the file listed under that name -- for   *)
(* any tree, catalog, page size and scan limit.                            *)
(***************************************************************************)
EXTENDS WaveformAnalysis, DirectoryBrowsing, SequenceTheorems, WellFoundedInduction, TLAPS

Versions == 0 .. MaxVersion
WaveRequests == [track : {0, 1}, path : WavePaths \cup {0}, length : Nat, expected : {0, 1}]
Overviews == [path : WavePaths \cup {0}, asset : Versions, from : SUBSET Versions, blocks : Nat]
WaveResults == [request : WaveRequests, state : {"Unavailable", "Analyzing", "Ready", "Failed"},
                overview : Overviews]
ArtistPcs == {"wait", "identify", "open", "read", "verify", "finish", "returned"}
Artists == [pc : ArtistPcs, request : WaveRequests, serial : Nat, before : Versions,
            reading : Versions, draft : Overviews]

(* Every variable has its type. *)
WaveTypeOK ==
  /\ file \in [WavePaths -> Versions]
  /\ serial \in Nat
  /\ wavePending \in [ready : BOOLEAN, request : WaveRequests]
  /\ wave \in WaveResults /\ waveReady \in BOOLEAN
  /\ cached \in Overviews
  /\ artist \in Artists
  /\ stopWave \in BOOLEAN
  /\ shownWave \in WaveResults /\ lastWave \in WaveRequests

Busy == artist.pc \notin {"wait", "returned"}

(* A request without a track is never worked on. *)
OnlyTracks ==
  /\ Busy => artist.request.path \in WavePaths
  /\ wavePending.request.track # 0 => wavePending.request.path \in WavePaths

Serials ==
  /\ Busy => artist.serial <= serial
  /\ Busy /\ artist.serial = serial => artist.request = lastWave
  /\ wavePending.ready => wavePending.request = lastWave
  /\ waveReady => wave.request = lastWave

(* Versions read so far lie between the one identified and the present one. *)
Newer(v) == file[artist.request.path] # 0 => v <= file[artist.request.path]
Reading ==
  /\ artist.pc = "identify" => artist.draft = NoOverview
  /\ artist.pc \in {"open", "read", "verify", "finish"} =>
       /\ artist.before # 0 /\ Newer(artist.before)
       /\ artist.request.expected \in {0, artist.before}
       /\ \A v \in artist.draft.from : artist.before <= v /\ Newer(v)
  /\ artist.pc = "open" => artist.draft = NoOverview
  /\ artist.pc \in {"read", "verify", "finish"} =>
       /\ artist.before <= artist.reading /\ Newer(artist.reading)
       /\ artist.draft.path = artist.request.path /\ artist.draft.asset = artist.before
  /\ artist.pc \in {"verify", "finish"} => artist.draft.blocks = artist.request.length
  /\ artist.pc = "finish" => artist.draft.from \subseteq {artist.before}

(* What is published, and what is kept, is of one asset. *)
Fits(result) ==
  result.state = "Ready" =>
    /\ OneAsset(result.overview)
    /\ result.overview.path = result.request.path
    /\ result.request.expected \in {0, result.overview.asset}
    /\ result.overview.blocks = result.request.length
Drawn == OneAsset(cached) /\ Fits(wave) /\ Fits(shownWave)

WaveInv == WaveTypeOK /\ OnlyTracks /\ Serials /\ Reading /\ Drawn

-----------------------------------------------------------------------------
(* Publishing                                                              *)

(* What is published is of the request the worker works for, and only the  *)
(* last request is published (publish).                                    *)
LEMMA Published ==
  ASSUME WaveInv, Busy, NEW state \in {"Analyzing", "Ready", "Failed"},
         NEW overview \in Overviews, PublishWave(state, overview),
         Fits(WaveResult(artist.request, state, overview))
  PROVE  /\ wave' \in WaveResults /\ waveReady' \in BOOLEAN
         /\ waveReady' => wave'.request = lastWave
         /\ Fits(wave')
<1>1. CASE artist.serial = serial
  <2>1. wave' = WaveResult(artist.request, state, overview) /\ artist.request = lastWave
    BY <1>1 DEF PublishWave, WaveInv, Serials
  <2>2. waveReady' = TRUE /\ artist.request \in WaveRequests
    BY <1>1 DEF PublishWave, WaveInv, WaveTypeOK, Artists
  <2> QED
    BY <2>1, <2>2 DEF WaveResult, WaveResults
<1>2. CASE artist.serial # serial
  BY <1>2 DEF PublishWave, NoPublish, WaveInv, WaveTypeOK, Serials, Drawn
<1> QED
  BY <1>1, <1>2

(* Nothing fits better than no overview. *)
LEMMA NothingFits ==
  ASSUME NEW r, NEW state \in {"Analyzing", "Unavailable", "Failed"}
  PROVE  NoOverview \in Overviews /\ Fits(WaveResult(r, state, NoOverview))
BY WaveAssumption DEF Fits, WaveResult, NoOverview, Overviews, Versions

(* The worker at rest. *)
LEMMA Resting ==
  /\ Idle \in Artists /\ Idle.pc = "wait" /\ Idle.draft = NoOverview
  /\ [Idle EXCEPT !.pc = "returned"] \in Artists
  /\ [Idle EXCEPT !.pc = "returned"].pc = "returned"
BY WaveAssumption DEF Idle, Artists, ArtistPcs, NoWaveRequest, NoOverview, WaveRequests, Overviews,
   Versions

(* A worker that goes to rest leaves the invariant to what was published. *)
LEMMA RestKeeps ==
  ASSUME WaveInv, artist' = Idle, WorkerOnly, UNCHANGED wavePending,
         wave' \in WaveResults, waveReady' \in BOOLEAN,
         waveReady' => wave'.request = lastWave, Fits(wave'),
         cached' \in Overviews, OneAsset(cached')
  PROVE  WaveInv'
<1>1. WaveTypeOK'
  BY Resting DEF WaveInv, WaveTypeOK, WorkerOnly
<1>2. OnlyTracks' /\ Serials'
  BY Resting DEF WaveInv, OnlyTracks, Serials, Busy, WorkerOnly
<1>3. Reading'
  BY Resting DEF Reading
<1>4. Drawn'
  BY DEF WaveInv, Drawn, WorkerOnly, Fits, OneAsset
<1> QED
  BY <1>1, <1>2, <1>3, <1>4 DEF WaveInv

(* So does one that fails, or that is cancelled. *)
LEMMA FailsKeeps ==
  ASSUME WaveInv, Busy, Fails, WorkerOnly, UNCHANGED wavePending
  PROVE  WaveInv'
<1>1. PublishWave("Failed", NoOverview) /\ artist' = Idle /\ cached' = cached
  BY DEF Fails
<1>2. NoOverview \in Overviews /\ Fits(WaveResult(artist.request, "Failed", NoOverview))
  BY NothingFits
<1>3. /\ wave' \in WaveResults /\ waveReady' \in BOOLEAN
      /\ waveReady' => wave'.request = lastWave
      /\ Fits(wave')
  BY <1>1, <1>2, Published
<1>4. cached' \in Overviews /\ OneAsset(cached')
  BY <1>1 DEF WaveInv, WaveTypeOK, Drawn
<1> QED
  BY <1>1, <1>3, <1>4, RestKeeps

LEMMA CancelKeeps ==
  ASSUME WaveInv, artist' = Idle, NoPublish, WorkerOnly, UNCHANGED <<wavePending, cached>>
  PROVE  WaveInv'
<1>1. /\ wave' \in WaveResults /\ waveReady' \in BOOLEAN
      /\ waveReady' => wave'.request = lastWave
      /\ Fits(wave') /\ cached' \in Overviews /\ OneAsset(cached')
  BY DEF NoPublish, WaveInv, WaveTypeOK, Serials, Drawn
<1> QED
  BY <1>1, RestKeeps

(* The draft of an overview, with its title and block by block. *)
LEMMA WithTitle ==
  ASSUME NEW o \in Overviews, NEW path \in WavePaths \cup {0}, NEW asset \in Versions
  PROVE  /\ FiledUnder(o, path, asset) \in Overviews
         /\ FiledUnder(o, path, asset).path = path /\ FiledUnder(o, path, asset).asset = asset
         /\ FiledUnder(o, path, asset).from = o.from
BY DEF FiledUnder, Overviews

LEMMA OneBlockMore ==
  ASSUME NEW o \in Overviews, NEW v \in Versions
  PROVE  /\ WithBlock(o, v) \in Overviews
         /\ WithBlock(o, v).path = o.path /\ WithBlock(o, v).asset = o.asset
         /\ WithBlock(o, v).from = o.from \cup {v}
<1>1. /\ o.from \cup {v} \in SUBSET Versions /\ o.blocks + 1 \in Nat
      /\ o.path \in WavePaths \cup {0} /\ o.asset \in Versions
  BY DEF Overviews
<1> QED
  BY <1>1 DEF WithBlock, Overviews

-----------------------------------------------------------------------------
(* The worker                                                              *)

(* A worker that goes on publishes nothing and keeps its request. *)
LEMMA OnwardKeeps ==
  ASSUME WaveInv, Busy, artist' \in Artists, artist'.pc \in ArtistPcs \ {"wait", "returned"},
         artist'.request = artist.request, artist'.serial = artist.serial, Reading',
         NoPublish, WorkerOnly, UNCHANGED <<wavePending, cached>>
  PROVE  WaveInv'
<1>1. WaveTypeOK'
  BY DEF WaveInv, WaveTypeOK, WorkerOnly, NoPublish
<1>2. OnlyTracks' /\ Serials' /\ Drawn'
  BY DEF WaveInv, OnlyTracks, Serials, Drawn, Busy, WorkerOnly, NoPublish, Fits, OneAsset
<1> QED
  BY <1>1, <1>2 DEF WaveInv

(* The worker takes the last request with its serial. *)
LEMMA WaveTakeKeeps == WaveInv /\ WaveTake => WaveInv'
<1> SUFFICES ASSUME WaveInv, WaveTake PROVE WaveInv'
  OBVIOUS
<1>1. CASE stopWave
  <2>1. artist' = [Idle EXCEPT !.pc = "returned"] /\ wavePending' = wavePending
    BY <1>1 DEF WaveTake
  <2>2. WaveTypeOK'
    BY <2>1, Resting DEF WaveInv, WaveTypeOK, WaveTake, WorkerOnly, NoPublish
  <2>3. OnlyTracks' /\ Serials' /\ Reading' /\ Drawn'
    BY <2>1, Resting DEF WaveInv, OnlyTracks, Serials, Reading, Drawn, Busy, WaveTake, WorkerOnly,
       NoPublish, Fits, OneAsset
  <2> QED
    BY <2>2, <2>3 DEF WaveInv
<1>2. CASE ~ stopWave
  <2> DEFINE pc == IF wavePending.request.track = 0 THEN "wait" ELSE "identify"
  <2>1. artist' = [Idle EXCEPT !.pc = pc, !.request = wavePending.request, !.serial = serial]
    BY <1>2 DEF WaveTake
  <2>2. /\ artist' \in Artists /\ artist'.pc = pc /\ artist'.draft = NoOverview
        /\ artist'.request = wavePending.request /\ artist'.serial = serial
    <3>1. wavePending.request \in WaveRequests /\ serial \in Nat /\ pc \in ArtistPcs
      BY DEF WaveInv, WaveTypeOK, ArtistPcs
    <3>2. artist' = [pc |-> pc, request |-> wavePending.request, serial |-> serial, before |-> 0,
                     reading |-> 0, draft |-> NoOverview]
      BY <2>1 DEF Idle
    <3>3. NoOverview \in Overviews /\ 0 \in Versions
      BY WaveAssumption, NothingFits DEF Versions
    <3> HIDE DEF pc
    <3> QED
      BY <3>1, <3>2, <3>3 DEF Artists
  <2>3. /\ wavePending' \in [ready : BOOLEAN, request : WaveRequests]
        /\ wavePending'.request = wavePending.request /\ ~ wavePending'.ready
        /\ wavePending.ready
    BY <1>2 DEF WaveInv, WaveTypeOK, WaveTake
  <2>4. WaveTypeOK'
    BY <2>2, <2>3 DEF WaveInv, WaveTypeOK, WaveTake, WorkerOnly, NoPublish
  <2>5. Reading'
    BY <2>2 DEF Reading
  <2>6. OnlyTracks' /\ Serials' /\ Drawn'
    BY <2>2, <2>3 DEF WaveInv, WaveTypeOK, OnlyTracks, Serials, Drawn, Busy, WaveTake, WorkerOnly,
       NoPublish, Fits, OneAsset
  <2> QED
    BY <2>4, <2>5, <2>6 DEF WaveInv
<1> QED
  BY <1>1, <1>2

(* The version identified is the present one; what is cached for it fits. *)
LEMMA WaveIdentifyKeeps == WaveInv /\ WaveIdentify => WaveInv'
<1> SUFFICES ASSUME WaveInv, WaveIdentify PROVE WaveInv'
  OBVIOUS
<1> DEFINE before == file[artist.request.path]
<1>1. /\ artist.pc = "identify" /\ Busy /\ artist.request.path \in WavePaths
      /\ before \in Versions /\ artist.draft = NoOverview
      /\ WorkerOnly /\ wavePending' = wavePending
  BY DEF WaveIdentify, WaveInv, WaveTypeOK, OnlyTracks, Reading, Busy
<1>2. CASE Fails
  BY <1>1, <1>2, FailsKeeps
<1>3. CASE /\ before # 0 /\ artist.request.expected \in {0, before}
           /\ cached.asset = before /\ cached.path = artist.request.path
           /\ cached.blocks = artist.request.length
           /\ artist' = Idle /\ PublishWave("Ready", cached) /\ UNCHANGED cached
  <2>1. cached \in Overviews /\ Fits(WaveResult(artist.request, "Ready", cached))
    BY <1>3 DEF WaveInv, WaveTypeOK, Drawn, Fits, WaveResult
  <2>2. /\ wave' \in WaveResults /\ waveReady' \in BOOLEAN
        /\ waveReady' => wave'.request = lastWave
        /\ Fits(wave')
    BY <1>1, <1>3, <2>1, Published
  <2> QED
    BY <1>1, <1>3, <2>2, RestKeeps DEF WaveInv, WaveTypeOK, Drawn
<1>4. CASE /\ before # 0 /\ artist.request.expected \in {0, before}
           /\ artist' = [artist EXCEPT !.pc = "open", !.before = before]
           /\ NoPublish /\ UNCHANGED cached
  <2>1. /\ artist' \in Artists /\ artist'.pc = "open" /\ artist'.before = before
        /\ artist'.request = artist.request /\ artist'.serial = artist.serial
        /\ artist'.draft = NoOverview
    BY <1>1, <1>4 DEF WaveInv, WaveTypeOK, Artists, ArtistPcs
  <2>2. Reading'
    BY <1>1, <1>4, <2>1 DEF Reading, Newer, NoOverview, WorkerOnly, Versions
  <2> QED
    BY <1>1, <1>4, <2>1, <2>2, OnwardKeeps DEF ArtistPcs
<1> QED
  BY <1>2, <1>3, <1>4 DEF WaveIdentify

(* The file opened is the one identified, or a newer one. *)
LEMMA WaveOpenKeeps == WaveInv /\ WaveOpen => WaveInv'
<1> SUFFICES ASSUME WaveInv, WaveOpen PROVE WaveInv'
  OBVIOUS
<1> DEFINE v == file[artist.request.path]
<1>1. /\ artist.pc = "open" /\ Busy /\ artist.request.path \in WavePaths
      /\ v \in Versions /\ artist.draft = NoOverview
      /\ WorkerOnly /\ wavePending' = wavePending
  BY DEF WaveOpen, WaveInv, WaveTypeOK, OnlyTracks, Reading, Busy
<1>2. CASE Fails
  BY <1>1, <1>2, FailsKeeps
<1>3. CASE artist' = Idle /\ NoPublish /\ UNCHANGED cached
  BY <1>1, <1>3, CancelKeeps
<1>4. CASE /\ v # 0
           /\ artist' = [artist EXCEPT !.pc = "read", !.reading = v,
                           !.draft = FiledUnder(@, artist.request.path, artist.before)]
           /\ NoPublish /\ UNCHANGED cached
  <2> DEFINE draft == FiledUnder(artist.draft, artist.request.path, artist.before)
  <2>3. artist \in Artists /\ artist.request.path \in WavePaths \cup {0} /\ artist.before \in Versions
    BY <1>1 DEF WaveInv, WaveTypeOK, Artists
  <2>6. artist.draft \in Overviews
    BY DEF WaveInv, WaveTypeOK, Artists
  <2>4. /\ draft \in Overviews /\ draft.path = artist.request.path /\ draft.asset = artist.before
        /\ draft.from = {}
    BY <1>1, <2>3, <2>6, WithTitle DEF NoOverview
  <2>5. artist' = [artist EXCEPT !.pc = "read", !.reading = v, !.draft = draft]
    BY <1>4
  <2> HIDE DEF draft
  <2>1. /\ artist' \in Artists /\ artist'.pc = "read" /\ artist'.before = artist.before
        /\ artist'.request = artist.request /\ artist'.serial = artist.serial
        /\ artist'.reading = v /\ artist'.draft.path = artist.request.path
        /\ artist'.draft.asset = artist.before /\ artist'.draft.from = {}
    BY <1>1, <2>3, <2>4, <2>5 DEF Artists, ArtistPcs
  <2>2. Reading'
    BY <1>1, <1>4, <2>1 DEF WaveInv, Reading, Newer, WorkerOnly, Versions
  <2> QED
    BY <1>1, <1>4, <2>1, <2>2, OnwardKeeps DEF ArtistPcs
<1> QED
  BY <1>2, <1>3, <1>4 DEF WaveOpen

(* A block is of the version opened or of the present one. *)
LEMMA WaveReadKeeps == WaveInv /\ WaveRead => WaveInv'
<1> SUFFICES ASSUME WaveInv, WaveRead PROVE WaveInv'
  OBVIOUS
<1>1. /\ artist.pc = "read" /\ Busy /\ artist.request.path \in WavePaths
      /\ file[artist.request.path] \in Versions /\ cached' = cached
      /\ WorkerOnly /\ wavePending' = wavePending
  BY DEF WaveRead, WaveInv, WaveTypeOK, OnlyTracks, Busy
<1>2. CASE artist' = Idle /\ NoPublish
  BY <1>1, <1>2, CancelKeeps
<1>3. CASE artist.draft.blocks = artist.request.length /\ GoesTo("verify") /\ NoPublish
  <2>1. /\ artist' \in Artists /\ artist'.pc = "verify" /\ artist'.before = artist.before
        /\ artist'.request = artist.request /\ artist'.serial = artist.serial
        /\ artist'.reading = artist.reading /\ artist'.draft = artist.draft
    BY <1>3 DEF GoesTo, WaveInv, WaveTypeOK, Artists, ArtistPcs
  <2>2. Reading'
    BY <1>1, <1>3, <2>1 DEF WaveInv, Reading, Newer, WorkerOnly
  <2> QED
    BY <1>1, <1>3, <2>1, <2>2, OnwardKeeps DEF ArtistPcs
<1>4. ASSUME NEW v \in {artist.reading, file[artist.request.path]} \ {0}, NEW progress \in BOOLEAN,
             artist' = [artist EXCEPT !.draft = WithBlock(@, v)],
             IF progress THEN PublishWave("Analyzing", NoOverview) ELSE NoPublish
      PROVE  WaveInv'
  <2>1. v \in Versions
    BY <1>1 DEF WaveInv, WaveTypeOK, Artists
  <2> DEFINE draft == WithBlock(artist.draft, v)
  <2>9. artist \in Artists /\ artist.draft \in Overviews
    BY <1>1 DEF WaveInv, WaveTypeOK, Artists
  <2>10. /\ draft \in Overviews /\ draft.path = artist.draft.path
         /\ draft.asset = artist.draft.asset /\ draft.from = artist.draft.from \cup {v}
    BY <2>1, <2>9, OneBlockMore
  <2>11. artist' = [artist EXCEPT !.draft = draft]
    BY <1>4
  <2> HIDE DEF draft
  <2>2. /\ artist' \in Artists /\ artist'.pc = "read" /\ artist'.before = artist.before
        /\ artist'.request = artist.request /\ artist'.serial = artist.serial
        /\ artist'.reading = artist.reading /\ artist'.draft.path = artist.draft.path
        /\ artist'.draft.asset = artist.draft.asset
        /\ artist'.draft.from = artist.draft.from \cup {v}
    BY <1>1, <2>9, <2>10, <2>11 DEF Artists
  <2>3. artist.before <= v /\ Newer(v)
    BY <1>1, <2>1 DEF WaveInv, WaveTypeOK, Artists, Reading, Newer, Versions
  <2>4. Reading'
    BY <1>1, <2>2, <2>3 DEF WaveInv, Reading, Newer, WorkerOnly
  <2>5. /\ wave' \in WaveResults /\ waveReady' \in BOOLEAN
        /\ waveReady' => wave'.request = lastWave
        /\ Fits(wave')
    <3>1. NoOverview \in Overviews /\ Fits(WaveResult(artist.request, "Analyzing", NoOverview))
      BY NothingFits
    <3>2. CASE progress
      BY <1>1, <1>4, <3>1, <3>2, Published
    <3>3. CASE ~ progress
      BY <1>4, <3>3 DEF NoPublish, WaveInv, WaveTypeOK, Serials, Drawn
    <3> QED
      BY <3>2, <3>3
  <2>6. WaveTypeOK'
    BY <1>1, <2>2, <2>5 DEF WaveInv, WaveTypeOK, WorkerOnly
  <2>7. OnlyTracks' /\ Serials'
    BY <1>1, <2>2, <2>5 DEF WaveInv, OnlyTracks, Serials, Busy, WorkerOnly
  <2>8. Drawn'
    BY <1>1, <2>5 DEF WaveInv, Drawn, WorkerOnly, OneAsset, Fits
  <2> QED
    BY <2>4, <2>6, <2>7, <2>8 DEF WaveInv
<1>5. CASE artist' = Idle /\ PublishWave("Failed", NoOverview)
  BY <1>1, <1>5, FailsKeeps DEF Fails
<1> QED
  BY <1>2, <1>3, <1>4, <1>5 DEF WaveRead

(* If the file is still the one identified, so was every block. *)
LEMMA WaveVerifyKeeps == WaveInv /\ WaveVerify => WaveInv'
<1> SUFFICES ASSUME WaveInv, WaveVerify PROVE WaveInv'
  OBVIOUS
<1>1. /\ artist.pc = "verify" /\ Busy /\ cached' = cached
      /\ WorkerOnly /\ wavePending' = wavePending
  BY DEF WaveVerify, Busy
<1>2. CASE artist' = Idle /\ NoPublish
  BY <1>1, <1>2, CancelKeeps
<1>3. CASE artist' = Idle /\ PublishWave("Failed", NoOverview)
  BY <1>1, <1>3, FailsKeeps DEF Fails
<1>4. CASE file[artist.request.path] = artist.before /\ GoesTo("finish") /\ NoPublish
  <2>1. /\ artist' \in Artists /\ artist'.pc = "finish" /\ artist'.before = artist.before
        /\ artist'.request = artist.request /\ artist'.serial = artist.serial
        /\ artist'.reading = artist.reading /\ artist'.draft = artist.draft
    BY <1>4 DEF GoesTo, WaveInv, WaveTypeOK, Artists, ArtistPcs
  <2>2. artist.before \in Int /\ artist.draft.from \subseteq Int
    BY DEF WaveInv, WaveTypeOK, Artists, Overviews, Versions
  <2>3. artist.draft.from \subseteq {artist.before}
    BY <1>1, <1>4, <2>2 DEF WaveInv, Reading, Newer
  <2>4. Reading'
    BY <1>1, <2>1, <2>3 DEF WaveInv, Reading, Newer, WorkerOnly
  <2> QED
    BY <1>1, <1>4, <2>1, <2>4, OnwardKeeps DEF ArtistPcs
<1> QED
  BY <1>2, <1>3, <1>4 DEF WaveVerify

(* The overview is published, and kept. *)
LEMMA WaveFinishKeeps == WaveInv /\ WaveFinish => WaveInv'
<1> SUFFICES ASSUME WaveInv, WaveFinish PROVE WaveInv'
  OBVIOUS
<1>1. /\ artist.pc = "finish" /\ Busy /\ artist' = Idle
      /\ WorkerOnly /\ wavePending' = wavePending
  BY DEF WaveFinish, Busy
<1>2. CASE NoPublish /\ UNCHANGED cached
  BY <1>1, <1>2, CancelKeeps
<1>3. CASE cached' = artist.draft /\ PublishWave("Ready", artist.draft)
  <2>1. artist.draft \in Overviews /\ OneAsset(artist.draft)
    BY <1>1 DEF WaveInv, WaveTypeOK, Artists, Reading, OneAsset
  <2>2. Fits(WaveResult(artist.request, "Ready", artist.draft))
    BY <1>1, <2>1 DEF WaveInv, Reading, Fits, WaveResult
  <2>3. /\ wave' \in WaveResults /\ waveReady' \in BOOLEAN
        /\ waveReady' => wave'.request = lastWave
        /\ Fits(wave')
    BY <1>1, <1>3, <2>1, <2>2, Published
  <2> QED
    BY <1>1, <1>3, <2>1, <2>3, RestKeeps
<1> QED
  BY <1>2, <1>3 DEF WaveFinish

-----------------------------------------------------------------------------
(* The client and the files                                                *)

(* A submission replaces the request and the result, and raises the serial. *)
LEMMA SubmitWaveKeeps ==
  ASSUME WaveInv, NEW r \in Requests, SubmitWave(r)
  PROVE  WaveInv'
<1>1. r \in WaveRequests /\ (r.track # 0 => r.path \in WavePaths)
  BY WaveAssumption DEF Requests, WaveRequests, NoWaveRequest
<1>2. /\ wave' = WaveResult(r, IF r.track # 0 THEN "Analyzing" ELSE "Unavailable", NoOverview)
      /\ wave' \in WaveResults /\ Fits(wave')
      /\ wave'.request = r
  BY <1>1, NothingFits DEF SubmitWave, WaveResult, WaveResults
<1>3. /\ wavePending' \in [ready : BOOLEAN, request : WaveRequests]
      /\ wavePending'.request = r /\ lastWave' = r /\ serial' = serial + 1 /\ serial \in Nat
      /\ artist' = artist /\ artist \in Artists
  BY <1>1 DEF SubmitWave, WaveInv, WaveTypeOK
<1>4. WaveTypeOK'
  BY <1>1, <1>2, <1>3 DEF SubmitWave, WaveInv, WaveTypeOK
<1>5. OnlyTracks'
  BY <1>1, <1>3 DEF WaveInv, OnlyTracks, Busy
<1>6. Serials'
  BY <1>2, <1>3 DEF WaveInv, Serials, Busy, Artists
<1>7. Reading' /\ Drawn'
  BY <1>2 DEF SubmitWave, WaveInv, Reading, Newer, Drawn, OneAsset, Fits
<1> QED
  BY <1>4, <1>5, <1>6, <1>7 DEF WaveInv

LEMMA ClientKeeps ==
  ASSUME WaveInv, PollWave \/ StopWave
  PROVE  WaveInv'
<1>1. /\ shownWave' \in {wave, shownWave} /\ waveReady' \in BOOLEAN /\ (waveReady' => waveReady)
      /\ stopWave' \in BOOLEAN
      /\ UNCHANGED <<file, serial, wavePending, wave, cached, artist, lastWave>>
  <2>1. CASE PollWave
    BY <2>1 DEF PollWave, WaveInv, WaveTypeOK
  <2>2. CASE StopWave
    BY <2>2 DEF StopWave, WaveInv, WaveTypeOK
  <2> QED
    BY <2>1, <2>2
<1>2. WaveTypeOK'
  BY <1>1 DEF WaveInv, WaveTypeOK
<1>3. OnlyTracks' /\ Serials'
  BY <1>1 DEF WaveInv, WaveTypeOK, OnlyTracks, Serials, Busy
<1>4. Reading' /\ Drawn'
  BY <1>1 DEF WaveInv, Reading, Newer, Drawn, OneAsset, Fits
<1> QED
  BY <1>2, <1>3, <1>4 DEF WaveInv

(* A file only gets newer, or goes. *)
LEMMA FileKeeps ==
  ASSUME WaveInv, NEW p \in WavePaths, FileRewritten(p)
  PROVE  WaveInv'
<1>1. PICK v \in Versions : file' = [file EXCEPT ![p] = v] /\ (v # 0 => v = MaxVersion \/ (file[p] # 0 /\ file[p] <= v))
  <2>1. file[p] \in Versions /\ file[p] < MaxVersion /\ MaxVersion \in Versions
    BY WaveAssumption DEF FileRewritten, WaveInv, WaveTypeOK, Versions
  <2>2. CASE file[p] = 0
    <3>1. file' = [file EXCEPT ![p] = MaxVersion]
      BY <2>2 DEF FileRewritten
    <3>2. file[p] <= MaxVersion
      BY <2>1 DEF Versions
    <3> QED
      BY <2>1, <3>1, <3>2
  <2>3. CASE file[p] # 0
    <3>1. 0 \in Versions /\ file[p] + 1 \in Versions /\ file[p] <= file[p] + 1
      BY <2>1, WaveAssumption DEF Versions
    <3> QED
      BY <2>3, <3>1 DEF FileRewritten
  <2> QED
    BY <2>2, <2>3
<1>2. \A q \in WavePaths : file'[q] # 0 =>
        \/ file'[q] = file[q] \/ file'[q] = MaxVersion
        \/ file[q] # 0 /\ file[q] <= file'[q]
  BY <1>1 DEF WaveInv, WaveTypeOK
<1>3. WaveTypeOK'
  BY <1>1 DEF FileRewritten, WaveInv, WaveTypeOK
<1>4. OnlyTracks' /\ Serials' /\ Drawn'
  BY DEF FileRewritten, WaveInv, OnlyTracks, Serials, Drawn, Busy, OneAsset, Fits
<1>5. \A u \in Versions : artist.request.path \in WavePaths /\ Newer(u) =>
        (file'[artist.request.path] # 0 => u <= file'[artist.request.path])
  <2> SUFFICES ASSUME NEW u \in Versions, artist.request.path \in WavePaths, Newer(u),
                      file'[artist.request.path] # 0
               PROVE  u <= file'[artist.request.path]
    OBVIOUS
  <2> DEFINE q == artist.request.path
  <2>1. /\ file[q] \in Int /\ file'[q] \in Int /\ u \in Int
    BY <1>3 DEF WaveInv, WaveTypeOK, Versions
  <2>2. CASE file'[q] = file[q]
    BY <2>2 DEF Newer
  <2>3. CASE file[q] # 0 /\ file[q] <= file'[q]
    BY <2>1, <2>3 DEF Newer
  <2>4. CASE file'[q] = MaxVersion
    BY <2>1, <2>4 DEF Versions
  <2> QED
    BY <1>2, <2>2, <2>3, <2>4
<1>6. Reading'
  <2>1. /\ artist' = artist /\ artist.before \in Versions /\ artist.reading \in Versions
        /\ artist.draft.from \subseteq Versions
    BY DEF FileRewritten, WaveInv, WaveTypeOK, Artists, Overviews
  <2>2. artist.pc \in {"open", "read", "verify", "finish"} => artist.request.path \in WavePaths
    BY DEF WaveInv, OnlyTracks, Busy
  <2> QED
    BY <1>5, <2>1, <2>2 DEF WaveInv, Reading, Newer
<1> QED
  BY <1>3, <1>4, <1>6 DEF WaveInv

-----------------------------------------------------------------------------
(* The invariant holds at first. *)
LEMMA WaveStarts == WaveInit => WaveInv
<1> SUFFICES ASSUME WaveInit PROVE WaveInv
  OBVIOUS
<1>1. /\ NoOverview \in Overviews /\ NoWaveRequest \in WaveRequests /\ NoWaveRequest.track = 0
      /\ Idle \in Artists /\ Idle.pc = "wait" /\ 1 \in Versions
  BY WaveAssumption, Resting, NothingFits DEF NoWaveRequest, WaveRequests, Versions
<1>2. /\ wave \in WaveResults /\ Fits(wave) /\ shownWave = wave
  BY <1>1, NothingFits DEF WaveInit, WaveResult, WaveResults
<1>3. WaveTypeOK
  BY <1>1, <1>2 DEF WaveInit, WaveTypeOK
<1>4. OnlyTracks /\ Serials /\ Reading
  BY <1>1 DEF WaveInit, OnlyTracks, Serials, Reading, Busy
<1>5. Drawn
  BY <1>2 DEF WaveInit, Drawn, OneAsset, NoOverview
<1> QED
  BY <1>3, <1>4, <1>5 DEF WaveInv

(* The invariant behind the waveform worker: every step keeps it. *)
THEOREM WaveInvariant == WaveSpec => []WaveInv
<1>1. WaveInv /\ [WaveNext]_waveVars => WaveInv'
  <2> SUFFICES ASSUME WaveInv, [WaveNext]_waveVars PROVE WaveInv'
    OBVIOUS
  <2>1. ASSUME NEW r \in Requests, SubmitWave(r) PROVE WaveInv'
    BY <2>1, SubmitWaveKeeps
  <2>2. CASE PollWave \/ StopWave
    BY <2>2, ClientKeeps
  <2>3. CASE Artist
    BY <2>3, WaveTakeKeeps, WaveIdentifyKeeps, WaveOpenKeeps, WaveReadKeeps, WaveVerifyKeeps,
       WaveFinishKeeps DEF Artist
  <2>4. ASSUME NEW p \in WavePaths, FileRewritten(p) PROVE WaveInv'
    BY <2>4, FileKeeps
  <2>5. CASE UNCHANGED waveVars
    BY <2>5 DEF waveVars, WaveInv, WaveTypeOK, OnlyTracks, Serials, Reading, Newer, Drawn, Busy,
                OneAsset, Fits
  <2> QED
    BY <2>1, <2>2, <2>3, <2>4, <2>5 DEF WaveNext
<1> QED
  BY WaveStarts, <1>1, PTL DEF WaveSpec

(* An overview that is shown or kept holds the samples of one version of   *)
(* one file, the one it is filed under and the one its request expects     *)
(* (waveform_overview.cpp, analyze and run), however often the files are   *)
(* rewritten meanwhile.                                                    *)
THEOREM OverviewIsOfOneAsset == WaveSpec => []OverviewOfOneAsset
<1>1. WaveInv => OverviewOfOneAsset
  BY DEF WaveInv, Drawn, Fits, OverviewOfOneAsset
<1> QED
  BY WaveInvariant, <1>1, PTL

(* A poll never shows a result of a request that was replaced before it    *)
(* (submit, poll and publish).                                             *)
THEOREM PollsTheLatest == WaveSpec => WaveOfLatestRequest
<1>1. WaveInv /\ [WaveNext]_waveVars
        => [shownWave' # shownWave => shownWave'.request = lastWave]_waveVars
  <2> SUFFICES ASSUME WaveInv, WaveNext, shownWave' # shownWave
               PROVE  shownWave'.request = lastWave
    OBVIOUS
  <2>1. CASE PollWave
    BY <2>1 DEF PollWave, WaveInv, Serials
  <2>2. CASE ~ PollWave
    BY <2>2 DEF WaveNext, SubmitWave, StopWave, FileRewritten, Artist, WaveTake, WaveIdentify,
                WaveOpen, WaveRead, WaveVerify, WaveFinish, WorkerOnly
  <2> QED
    BY <2>1, <2>2
<1> QED
  BY WaveInvariant, <1>1, PTL DEF WaveSpec, WaveOfLatestRequest

----------------------------------------------------------------------------
(* The directory browser.  The worker and the view share one request, so   *)
(* the row stays with the page it was chosen on until the answer is in     *)
(* (Boxed, Selected); a page with the snapshot's number holds entries of   *)
(* the snapshot (Listed); and the snapshot lists one version per path, so  *)
(* the version compared is the one shown (Answered).                       *)

(* Where browsing can go, and the members of records.                      *)
Dirs == DOMAIN Tree \cup {Library}
BrowseShape ==
  /\ DOMAIN view = {"page", "dir", "counter", "pending", "selecting", "row", "label"}
  /\ DOMAIN mailbox = {"state", "kind", "id", "arg", "snapshot", "offset"}
  /\ DOMAIN finder = {"pc", "seen"} /\ DOMAIN snapshot = {"id", "counter", "entries"}
  /\ view.counter \in Nat /\ view.pending \in Nat /\ view.selecting \in BOOLEAN /\ view.dir \in Dirs
  /\ snapshot.counter \in Nat /\ snapshot.id \in {0, snapshot.counter}
  /\ DOMAIN node = Nodes /\ \A n \in Nodes : node[n] = "dir" => n \in Dirs

(* The mailbox is in use exactly while the view waits, and the worker      *)
(* touches a request only while it is in its hands.                        *)
Boxed ==
  /\ mailbox.state \in {"Idle", "Queued", "Working", "Ready"}
  /\ mailbox.state = "Idle" <=> view.pending = 0
  /\ view.pending # 0 => mailbox.id = view.pending /\ (view.selecting <=> mailbox.kind = "Selection")
  /\ view.pending # 0 /\ mailbox.kind = "Browse" => mailbox.arg \in Dirs
  /\ mailbox.kind \in {"Browse", "Page", "Selection"} /\ mailbox.offset \in Nat
  /\ view.selecting => view.pending # 0
  /\ finder.pc = "take" => mailbox.state = "Queued"
  /\ finder.pc \in {"work", "ready"} <=> mailbox.state = "Working"

(* A snapshot lists each path with one file, and a page with its number    *)
(* shows entries of it; a page of an earlier snapshot has an earlier one.  *)
OneFile(entries) ==
  /\ entries \in Seq(Range(entries))
  /\ \A i, j \in DOMAIN entries :
       entries[i].path = entries[j].path => entries[i].version = entries[j].version
  /\ \A i \in DOMAIN entries : entries[i].kind # 1 => entries[i].path \in Dirs
Shows(page) ==
  /\ page.snapshot \in 0 .. snapshot.counter /\ page.offset \in Nat /\ page.next \in Nat
  /\ page.entries \in Seq(Range(page.entries)) /\ Len(page.entries) <= PageRows
  /\ \A j \in DOMAIN page.entries :
       /\ page.entries[j].kind # 1 => page.entries[j].path \in Dirs
       /\ page.snapshot # 0 /\ page.snapshot = snapshot.id => page.entries[j] \in Range(snapshot.entries)
Listed == OneFile(snapshot.entries) /\ Shows(view.page)

(* The selected row is on the page and its name is the label; only asking  *)
(* for the selection keeps it while the view waits.                        *)
Selected ==
  /\ view.row \in 0 .. PageRows
  /\ view.row # NoRow => /\ view.row < Len(view.page.entries)
                         /\ view.label = view.page.entries[view.row + 1].path
                         /\ view.pending = 0 \/ view.selecting
  /\ view.selecting => /\ view.row # NoRow /\ view.page.snapshot # 0
                       /\ mailbox.arg = view.label /\ mailbox.snapshot = view.page.snapshot

(* An answer the worker has finished is a page, or the file that is shown. *)
Answered ==
  finder.pc = "ready" \/ mailbox.state = "Ready" =>
    IF view.selecting
    THEN answer.error = "none" => /\ answer.path = view.label
                                  /\ answer.version = view.page.entries[view.row + 1].version
    ELSE Shows(answer)

BrowseInv == BrowseShape /\ Boxed /\ Listed /\ Selected /\ Answered /\ HandsOffWhatIsShown

----------------------------------------------------------------------------
(* Every set of naturals has a smallest element. *)
LEMMA SmallestNumber ==
  ASSUME NEW T, T \subseteq Nat, T # {}
  PROVE  \E n \in T : \A m \in T : n <= m
<1> DEFINE R == OpToRel(<, Nat)
<1>1. IsWellFoundedOn(R, Nat)
  BY NatLessThanWellFounded
<1>2. \A m, n \in Nat : m < n => <<m, n>> \in R
  BY DEF OpToRel
<1> HIDE DEF R
<1>3. PICK n \in T : \A m \in T : ~ (<<m, n>> \in R)
  BY <1>1, WFMin
<1>4. \A m \in T : ~ (m < n)
  BY <1>2, <1>3
<1> QED
  BY <1>4

(* A listing has an entry for names of the set only. *)
LEMMA EntriesOf ==
  ASSUME NEW S, NEW names \in Seq(S), NEW set
  PROVE  EntriesIn(names, set) \in Seq({Entry(x) : x \in set})
<1> DEFINE n == Len(names)
           E == {Entry(x) : x \in set}
           Next(f, i) == IF i = 0 THEN <<>>
                         ELSE IF names[i] \in set THEN Append(f[i - 1], Entry(names[i])) ELSE f[i - 1]
           Goes(m, f) == f = [i \in 0 .. m |-> Next(f, i)]
           bad == {m \in Nat : ~ \E f : Goes(m, f)}
<1>1. n \in Nat
  BY LenProperties
<1>2. \E f : Goes(0, f)
  <2> DEFINE f == [i \in 0 .. 0 |-> <<>>]
  <2>1. Goes(0, f)
    OBVIOUS
  <2> QED
    BY <2>1
<1>3. ASSUME NEW m \in Nat, NEW f, Goes(m, f)
      PROVE  \E h : Goes(m + 1, h)
  <2> DEFINE h == [i \in 0 .. m + 1 |-> Next(f, i)]
  <2>1. \A i \in 0 .. m : h[i] = f[i]
    <3> HIDE DEF Next
    <3> QED
      BY <1>3
  <2>2. ASSUME NEW i \in 0 .. m + 1
        PROVE  Next(f, i) = Next(h, i)
    <3>1. i # 0 => i - 1 \in 0 .. m
      OBVIOUS
    <3>2. i # 0 => h[i - 1] = f[i - 1]
      BY <2>1, <3>1
    <3> HIDE DEF h
    <3> QED
      BY <3>2
  <2>3. Goes(m + 1, h)
    <3> HIDE DEF Next
    <3> QED
      BY <2>2
  <2> QED
    BY <2>3
<1>4. \E f : Goes(n, f)
  <2> HIDE DEF Goes, n
  <2>1. SUFFICES ASSUME n \in bad PROVE FALSE
    BY <1>1
  <2>2. PICK m \in bad : \A k \in bad : m <= k
    BY <2>1, SmallestNumber
  <2>3. m # 0 /\ m \in Nat
    BY <1>2, <2>2
  <2>4. m - 1 \in Nat /\ m - 1 \notin bad
    BY <2>2, <2>3
  <2>5. PICK f : Goes(m - 1, f)
    BY <2>4
  <2>6. \E h : Goes(m - 1 + 1, h)
    BY <1>3, <2>4, <2>5
  <2> QED
    BY <2>2, <2>3, <2>6
<1> DEFINE f == CHOOSE f : Goes(n, f)
<1>5. Goes(n, f)
  BY <1>4
<1>6. EntriesIn(names, set) = f[n]
  BY Zenon DEF EntriesIn
<1> HIDE DEF f
<1>7. \A i \in 0 .. n : f[i] = Next(f, i)
  <2> HIDE DEF Next, n
  <2> QED
    BY <1>5
<1> DEFINE wrong == {i \in 0 .. n : f[i] \notin Seq(E)}
<1>8. wrong = {}
  <2>1. SUFFICES ASSUME wrong # {} PROVE FALSE
    OBVIOUS
  <2>2. wrong \subseteq Nat
    BY <1>1
  <2>3. PICK k \in wrong : \A j \in wrong : k <= j
    <3> HIDE DEF wrong
    <3> QED
      BY <2>1, <2>2, SmallestNumber
  <2>4. k \in 0 .. n /\ f[k] \notin Seq(E) /\ k \in Nat
    BY <1>1
  <2>5. f[k] = Next(f, k)
    BY <1>7, <2>4
  <2>6. k # 0
    BY <2>4, <2>5
  <2>7. k - 1 \in 0 .. n /\ k - 1 \notin wrong
    BY <1>1, <2>3, <2>4, <2>6
  <2>8. f[k - 1] \in Seq(E)
    BY <2>7
  <2>9. CASE names[k] \in set
    <3>1. Entry(names[k]) \in E
      BY <2>9
    <3>2. f[k] = Append(f[k - 1], Entry(names[k]))
      BY <2>5, <2>6, <2>9
    <3> HIDE DEF E
    <3> QED
      BY <2>4, <2>8, <3>1, <3>2, AppendProperties
  <2>10. CASE names[k] \notin set
    BY <2>4, <2>5, <2>6, <2>8, <2>10
  <2> QED
    BY <2>9, <2>10
<1>9. n \in 0 .. n
  BY <1>1
<1> QED
  BY <1>6, <1>8, <1>9

(* What a directory shows are entries of the names shown.                  *)
LEMMA ByKindOf ==
  ASSUME NEW S, NEW names \in Seq(S), NEW set
  PROVE  ByKind(names, set) \in Seq({Entry(x) : x \in set})
<1> DEFINE E == {Entry(x) : x \in set}
           Of(k) == EntriesIn(names, {x \in set : Kind(x) = k})
<1>1. ASSUME NEW k
      PROVE  Of(k) \in Seq(E)
  <2> DEFINE T == {x \in set : Kind(x) = k}
             F == {Entry(x) : x \in T}
  <2>1. EntriesIn(names, T) \in Seq(F)
    BY EntriesOf
  <2>2. F \subseteq E
    OBVIOUS
  <2> HIDE DEF E, F
  <2> QED
    BY <2>1, <2>2, SeqMonotonic
<1> HIDE DEF Of, E
<1>2. Of(0) \in Seq(E) /\ Of(1) \in Seq(E) /\ Of(2) \in Seq(E)
  BY <1>1
<1>3. Of(0) \o Of(1) \in Seq(E)
  BY <1>2, ConcatProperties
<1>4. Of(0) \o Of(1) \o Of(2) \in Seq(E)
  BY <1>2, <1>3, ConcatProperties
<1> QED
  BY <1>4 DEF ByKind, Of, E

(* What a scan lists is one state of the file system.                      *)
LEMMA ScanLists ==
  ASSUME BrowseShape, NEW d \in Dirs
  PROVE  OneFile(Scan(d).entries)
<1> DEFINE entries == Scan(d).entries
<1>1. PICK set : /\ entries \in Seq({Entry(x) : x \in set})
                 /\ \A x \in set : Kind(x) # 1 => x \in Dirs
  <2>1. CASE d = Library
    <3>1. entries = EntriesIn(Catalog, Identified)
      BY <2>1 DEF Scan
    <3>2. entries \in Seq({Entry(x) : x \in Identified})
      BY <3>1, EntriesOf, BrowseAssumption
    <3>3. \A x \in Identified : Kind(x) # 1 => x \in Dirs
      BY DEF Identified, IsFile, FileVersions, Kind, Dirs
    <3> QED
      BY <3>2, <3>3
  <2>2. CASE d # Library
    <3> DEFINE shown == {n \in Range(Tree[d]) : node[n] = "dir" \/ IsFile(n) \/ (n = Library /\ LibraryPresent)}
    <3>1. entries = ByKind(Tree[d], shown)
      BY <2>2 DEF Scan
    <3>2. d \in DOMAIN Tree /\ Tree[d] \in Seq(Range(Tree[d]))
      BY <2>2, BrowseAssumption DEF Dirs
    <3>3. entries \in Seq({Entry(x) : x \in shown})
      BY <3>1, <3>2, ByKindOf
    <3>4. \A x \in shown : x \in Nodes
      BY <3>2 DEF Nodes
    <3>5. \A x \in shown : Kind(x) # 1 => x \in Dirs
      BY <3>4 DEF Kind, BrowseShape, Dirs
    <3> HIDE DEF shown
    <3> QED
      BY <3>3, <3>5
  <2> QED
    BY <2>1, <2>2
<1> HIDE DEF entries
<1>2. \A i \in DOMAIN entries : \E x \in set : entries[i] = Entry(x)
  BY <1>1, ElementOfSeq, LenProperties
<1>3. \A i \in DOMAIN entries : /\ entries[i].version = node[entries[i].path]
                                /\ entries[i].kind # 1 => entries[i].path \in Dirs
  BY <1>1, <1>2 DEF Entry
<1>4. entries \in Seq(Range(entries))
  BY <1>1, LenProperties, SeqOfRange DEF Range
<1> QED
  BY <1>3, <1>4 DEF OneFile, entries

(* A page shows entries of the snapshot it is read from.                   *)
LEMMA PageOf ==
  ASSUME NEW s, s.id \in Nat, s.entries \in Seq(Range(s.entries)), NEW id, NEW of, NEW offset \in Nat
  PROVE  LET p == Page(s, id, of, offset)
         IN /\ p.snapshot \in {0, s.id} /\ p.offset \in Nat /\ p.next \in Nat
            /\ p.entries \in Seq(Range(p.entries)) /\ Len(p.entries) <= PageRows
            /\ \A j \in DOMAIN p.entries : p.entries[j] \in Range(s.entries)
<1> DEFINE p == Page(s, id, of, offset)
<1>1. CASE s.id = 0 \/ of # s.id \/ offset > Len(s.entries)
  <2>1. /\ p.snapshot = 0 /\ p.offset = 0 /\ p.next = 0 /\ p.entries = <<>>
    BY <1>1 DEF Page, NoPage
  <2>2. <<>> \in Seq(Range(<<>>)) /\ Len(<<>>) <= PageRows /\ DOMAIN <<>> = {}
    BY BrowseAssumption
  <2> HIDE DEF p
  <2> QED
    BY <2>1, <2>2 DEF p
<1>2. CASE ~ (s.id = 0 \/ of # s.id \/ offset > Len(s.entries))
  <2> DEFINE n == MinNat(PageRows, Len(s.entries) - offset)
             part == SubSeq(s.entries, offset + 1, offset + n)
  <2>1. /\ p.snapshot = s.id /\ p.offset = offset /\ p.next = offset + n /\ p.entries = part
    BY <1>2 DEF Page
  <2>2. Len(s.entries) \in Nat /\ offset <= Len(s.entries) /\ DOMAIN s.entries = 1 .. Len(s.entries)
    BY <1>2, LenProperties
  <2>3. n \in Nat /\ n <= PageRows /\ offset + n <= Len(s.entries)
    BY <2>2, BrowseAssumption DEF MinNat
  <2> HIDE DEF n, p
  <2>4. \A i \in offset + 1 .. offset + n : s.entries[i] \in Range(s.entries)
    BY <2>2, <2>3 DEF Range
  <2>5. offset + 1 \in Int /\ offset + n \in Int
    BY <2>3
  <2>6. part \in Seq(Range(s.entries)) /\ Len(part) = IF offset + 1 <= offset + n THEN (offset + n) - (offset + 1) + 1 ELSE 0
    <3> DEFINE lo == offset + 1
               hi == offset + n
    <3>1. lo \in Int /\ hi \in Int /\ \A i \in lo .. hi : s.entries[i] \in Range(s.entries)
      BY <2>4, <2>5
    <3> HIDE DEF lo, hi
    <3>2. SubSeq(s.entries, lo, hi) \in Seq(Range(s.entries))
          /\ Len(SubSeq(s.entries, lo, hi)) = IF lo <= hi THEN hi - lo + 1 ELSE 0
      BY <3>1, SubSeqProperties
    <3> QED
      BY <3>2 DEF lo, hi
  <2> HIDE DEF part
  <2>7. Len(part) <= PageRows
    BY <2>3, <2>6, BrowseAssumption
  <2>8. part \in Seq(Range(part)) /\ \A j \in DOMAIN part : part[j] \in Range(s.entries)
    <3>1. part \in Seq(Range(part))
      BY <2>6, SeqOfRange
    <3>2. DOMAIN part = 1 .. Len(part)
      BY <2>6, LenProperties
    <3> QED
      BY <2>6, <3>1, <3>2, ElementOfSeq
  <2>9. s.id \in {0, s.id} /\ offset + n \in Nat
    BY <2>3
  <2> QED
    BY <2>1, <2>7, <2>8, <2>9 DEF p
<1> QED
  BY <1>1, <1>2

(* A page that was read just now is one of the present snapshot.           *)
LEMMA PageShows ==
  ASSUME OneFile(snapshot.entries), snapshot.id \in {0, snapshot.counter}, snapshot.counter \in Nat,
         NEW id, NEW of, NEW offset \in Nat
  PROVE  Shows(Page(snapshot, id, of, offset))
<1> DEFINE p == Page(snapshot, id, of, offset)
<1>1. /\ p.snapshot \in {0, snapshot.id} /\ p.offset \in Nat /\ p.next \in Nat
      /\ p.entries \in Seq(Range(p.entries)) /\ Len(p.entries) <= PageRows
      /\ \A j \in DOMAIN p.entries : p.entries[j] \in Range(snapshot.entries)
  BY PageOf DEF OneFile
<1> HIDE DEF p
<1>2. \A e \in Range(snapshot.entries) : e.kind # 1 => e.path \in Dirs
  BY DEF OneFile, Range
<1>3. p.snapshot \in 0 .. snapshot.counter
  BY <1>1
<1> QED
  BY <1>1, <1>2, <1>3 DEF Shows, p

(* A page that carries an error shows no entry.                            *)
LEMMA NoPageShows == ASSUME NEW error, NEW id, snapshot.counter \in Nat
                     PROVE  Shows(NoPage(error)) /\ Shows([NoPage(error) EXCEPT !.id = id])
<1>1. <<>> \in Seq(Range(<<>>)) /\ Len(<<>>) <= PageRows /\ DOMAIN <<>> = {}
  BY BrowseAssumption
<1>2. 0 \in 0 .. snapshot.counter
  OBVIOUS
<1> QED
  BY <1>1, <1>2 DEF Shows, NoPage

(* A selection is answered with the version the snapshot lists.            *)
LEMMA SelectionListed ==
  ASSUME NEW of, NEW path, Selection(of, path) = "none", OneFile(snapshot.entries)
  PROVE  /\ snapshot.id # 0 /\ snapshot.id = of
         /\ \A e \in Range(snapshot.entries) : e.path = path => e.version = node[path]
<1> DEFINE found == SelectInSeq(snapshot.entries, LAMBDA e : e.path = path)
<1>1. snapshot.id # 0 /\ snapshot.id = of
  BY DEF Selection
<1>2. found # 0 /\ node[path] = snapshot.entries[found].version
  <2> HIDE DEF found
  <2>1. Selection(of, path) =
          IF snapshot.id = 0 \/ snapshot.id # of THEN "stale"
          ELSE IF found = 0 THEN "invalid"
          ELSE IF snapshot.entries[found].kind # 1 THEN "notfile"
          ELSE IF DirectoryError(ParentOf(path)) # "none" THEN DirectoryError(ParentOf(path))
          ELSE IF FileError(path) # "none" THEN FileError(path)
          ELSE IF node[path] # snapshot.entries[found].version THEN "changed" ELSE "none"
    BY DEF Selection, found
  <2> QED
    BY <2>1
<1> DEFINE I == {i \in 1 .. Len(snapshot.entries) : snapshot.entries[i].path = path}
<1>3. found = IF I # {} THEN Min(I) ELSE 0
  BY Zenon DEF SelectInSeq
<1> HIDE DEF found
<1>4. found \in I
  <2>1. I # {} /\ found = Min(I)
    BY <1>2, <1>3
  <2>2. I \subseteq Nat
    OBVIOUS
  <2> HIDE DEF I
  <2>3. PICK n \in I : \A m \in I : n <= m
    BY <2>1, <2>2, SmallestNumber
  <2> QED
    BY <2>1, <2>3 DEF Min
<1>5. DOMAIN snapshot.entries = 1 .. Len(snapshot.entries)
  BY LenProperties DEF OneFile
<1> QED
  BY <1>1, <1>2, <1>4, <1>5 DEF OneFile, Range

----------------------------------------------------------------------------
(* The browser starts with no page, no request and no snapshot.            *)
LEMMA BrowseInvInit == BrowseInit => BrowseInv
<1> SUFFICES ASSUME BrowseInit PROVE BrowseInv
  OBVIOUS
<1>1. /\ view = [page |-> NoPage("none"), dir |-> "root", counter |-> 0, pending |-> 0, selecting |-> FALSE,
                 row |-> NoRow, label |-> NoTrack]
      /\ snapshot = [id |-> 0, counter |-> 0, entries |-> <<>>]
      /\ mailbox = [state |-> "Idle", kind |-> "Browse", id |-> 0, arg |-> "root", snapshot |-> 0, offset |-> 0]
      /\ finder = [pc |-> "observe", seen |-> 0] /\ handed.count = 0
  BY DEF BrowseInit
<1>2. "root" \in Dirs
  BY BrowseAssumption DEF Dirs
<1>3. BrowseShape
  BY <1>1, <1>2 DEF BrowseInit, BrowseShape, Dirs
<1>4. Boxed
  BY <1>1 DEF Boxed
<1>5. Listed
  <2>1. OneFile(<<>>)
    BY DEF OneFile
  <2>2. snapshot.counter \in Nat /\ view.page = NoPage("none")
    BY <1>1
  <2> QED
    BY <1>1, <2>1, <2>2, NoPageShows DEF Listed
<1>6. Selected /\ Answered /\ HandsOffWhatIsShown
  BY <1>1, BrowseAssumption DEF Selected, Answered, HandsOffWhatIsShown, NoRow
<1> QED
  BY <1>3, <1>4, <1>5, <1>6 DEF BrowseInv

(* What is listed depends on the snapshot and the page shown only.         *)
LEMMA ListedStays == ASSUME Listed, UNCHANGED <<view, snapshot>> PROVE Listed'
BY DEF Listed, OneFile, Shows, Dirs

(* What the worker does around a request.                                  *)
LEMMA FinderMoves ==
  ASSUME BrowseInv, UNCHANGED <<node, view, snapshot, handed>>, DOMAIN finder' = {"pc", "seen"},
         \/ /\ UNCHANGED <<mailbox, answer>> /\ finder.pc \notin {"take", "work", "ready"}
            /\ finder'.pc \notin {"work", "ready"} /\ (finder'.pc = "take" => mailbox.state = "Queued")
         \/ /\ FinderTake \/ FinderReady
  PROVE  BrowseInv'
<1>0. /\ BrowseShape /\ Boxed /\ Listed /\ Selected /\ Answered /\ HandsOffWhatIsShown
      /\ DOMAIN mailbox = {"state", "kind", "id", "arg", "snapshot", "offset"} /\ DOMAIN finder = {"pc", "seen"}
  BY DEF BrowseInv, BrowseShape
<1>1. Listed' /\ HandsOffWhatIsShown'
  BY <1>0, ListedStays DEF HandsOffWhatIsShown
<1>2. CASE /\ UNCHANGED <<mailbox, answer>> /\ finder.pc \notin {"take", "work", "ready"}
           /\ finder'.pc \notin {"work", "ready"} /\ (finder'.pc = "take" => mailbox.state = "Queued")
  <2>1. BrowseShape' /\ Boxed' /\ Selected'
    BY <1>0, <1>2 DEF BrowseShape, Boxed, Selected, Dirs, NoRow
  <2>2. Answered'
    BY <1>0, <1>2 DEF Answered, Shows, Dirs
  <2> QED
    BY <1>1, <2>1, <2>2 DEF BrowseInv
<1>3. CASE FinderTake \/ FinderReady
  <2>1. /\ mailbox' = [mailbox EXCEPT !.state = mailbox'.state] /\ answer' = answer
        /\ \/ finder.pc = "take" /\ finder'.pc = "work" /\ mailbox'.state = "Working"
           \/ finder.pc = "ready" /\ finder'.pc = "observe" /\ mailbox'.state = "Ready"
    BY <1>0, <1>3 DEF FinderTake, FinderReady, FinderAt, FinderGoes, FinderOnly
  <2>2. /\ mailbox'.kind = mailbox.kind /\ mailbox'.id = mailbox.id /\ mailbox'.arg = mailbox.arg
        /\ mailbox'.snapshot = mailbox.snapshot /\ mailbox'.offset = mailbox.offset
        /\ DOMAIN mailbox' = DOMAIN mailbox
    BY <1>0, <2>1
  <2>3. BrowseShape' /\ Selected'
    BY <1>0, <2>2 DEF BrowseShape, Selected, Dirs, NoRow
  <2>4. Boxed'
    BY <1>0, <2>1, <2>2 DEF Boxed, Dirs
  <2>5. Answered'
    BY <1>0, <2>1 DEF Answered, Shows, Dirs
  <2> QED
    BY <1>1, <2>3, <2>4, <2>5 DEF BrowseInv
<1> QED
  BY <1>2, <1>3

(* The worker answers: the snapshot a browse replaces is the one the page  *)
(* of the answer shows, older pages have an older number; a selection is   *)
(* the version of the entry the view shows.                                *)
LEMMA FinderAnswers == ASSUME BrowseInv, FinderAnswer PROVE BrowseInv'
<1>0. /\ BrowseShape /\ Boxed /\ Listed /\ Selected /\ Answered /\ HandsOffWhatIsShown
      /\ snapshot.counter \in Nat /\ snapshot.id \in {0, snapshot.counter} /\ DOMAIN finder = {"pc", "seen"}
  BY DEF BrowseInv, BrowseShape
<1>1. /\ UNCHANGED <<node, view, handed, mailbox>> /\ finder.pc = "work" /\ finder'.pc = "ready"
      /\ DOMAIN finder' = DOMAIN finder
  BY <1>0 DEF FinderAnswer, FinderAt, FinderGoes, FinderOnly
<1>2. mailbox.state = "Working" /\ view.pending # 0 /\ (view.selecting <=> mailbox.kind = "Selection")
      /\ mailbox.offset \in Nat
  BY <1>0, <1>1 DEF Boxed
<1>3. Boxed' /\ Selected' /\ HandsOffWhatIsShown'
  BY <1>0, <1>1, <1>2 DEF Boxed, Selected, HandsOffWhatIsShown, Dirs, NoRow
<1>4. CASE configured /\ mailbox.kind = "Browse" /\ Browse(mailbox.id, mailbox.arg)
  <2> DEFINE s == Scan(mailbox.arg)
             failed == /\ snapshot' = [snapshot EXCEPT !.id = 0, !.entries = <<>>]
                       /\ answer' = [NoPage(s.error) EXCEPT !.id = mailbox.id]
             done == /\ snapshot' = [id |-> snapshot.counter + 1, counter |-> snapshot.counter + 1, entries |-> s.entries]
                     /\ answer' = Page(snapshot', mailbox.id, snapshot'.id, 0)
  <2>1. failed \/ done
    BY <1>4 DEF Browse
  <2>2. OneFile(s.entries)
    BY <1>0, <1>2, <1>4, ScanLists DEF Boxed
  <2> HIDE DEF s
  <2>3. /\ DOMAIN snapshot' = DOMAIN snapshot /\ snapshot'.counter \in Nat /\ snapshot'.id \in {0, snapshot'.counter}
        /\ snapshot'.counter >= snapshot.counter /\ snapshot'.id \in {0, snapshot.counter + 1}
        /\ snapshot'.entries \in {<<>>, s.entries}
    <3>0. DOMAIN snapshot = {"id", "counter", "entries"}
      BY <1>0 DEF BrowseShape
    <3>1. CASE failed
      <4>1. /\ DOMAIN snapshot' = DOMAIN snapshot /\ snapshot'.counter = snapshot.counter
            /\ snapshot'.id = 0 /\ snapshot'.entries = <<>>
        BY <3>0, <3>1
      <4> QED
        BY <1>0, <4>1
    <3>2. CASE done
      <4>1. /\ DOMAIN snapshot' = {"id", "counter", "entries"} /\ snapshot'.counter = snapshot.counter + 1
            /\ snapshot'.id = snapshot.counter + 1 /\ snapshot'.entries = s.entries
        BY <3>2
      <4> QED
        BY <1>0, <3>0, <4>1
    <3> QED
      BY <2>1, <3>1, <3>2
  <2>4. OneFile(<<>>)
    BY DEF OneFile
  <2>5. OneFile(snapshot'.entries) /\ OneFile(snapshot.entries)'
    <3>1. OneFile(snapshot'.entries)
      BY <2>2, <2>3, <2>4
    <3> QED
      BY <3>1 DEF OneFile, Dirs
  <2>6. Shows(view.page)'
    <3>1. view.page.snapshot \in 0 .. snapshot.counter
      BY <1>0 DEF Listed, Shows
    <3>2. view.page.snapshot \in 0 .. snapshot'.counter /\ ~ (view.page.snapshot # 0 /\ view.page.snapshot = snapshot'.id)
      BY <1>0, <2>3, <3>1
    <3> QED
      BY <1>0, <1>1, <3>2 DEF Listed, Shows, Dirs
  <2>7. Shows(answer)'
    <3>1. CASE failed
      <4>1. Shows([NoPage(s.error) EXCEPT !.id = mailbox.id])
        BY <1>0, NoPageShows
      <4> DEFINE p == [NoPage(s.error) EXCEPT !.id = mailbox.id]
      <4>2. Shows(p) /\ answer' = p /\ p.snapshot = 0
        BY <3>1, <4>1 DEF NoPage
      <4> HIDE DEF p
      <4> QED
        BY <2>3, <4>2 DEF Shows, Dirs
    <3>2. CASE done
      <4> DEFINE p == Page(snapshot', mailbox.id, snapshot'.id, 0)
      <4>1. snapshot'.id \in Nat /\ snapshot'.entries \in Seq(Range(snapshot'.entries))
        BY <2>3, <2>5 DEF OneFile
      <4>2. /\ p.snapshot \in {0, snapshot'.id} /\ p.offset \in Nat /\ p.next \in Nat
            /\ p.entries \in Seq(Range(p.entries)) /\ Len(p.entries) <= PageRows
            /\ \A j \in DOMAIN p.entries : p.entries[j] \in Range(snapshot'.entries)
        BY <4>1, PageOf
      <4>3. answer' = p
        BY <3>2
      <4> HIDE DEF p
      <4>4. \A e \in Range(snapshot'.entries) : e.kind # 1 => e.path \in Dirs
        BY <2>5 DEF OneFile, Range
      <4>5. p.snapshot \in 0 .. snapshot'.counter
        BY <2>3, <4>2
      <4> QED
        BY <4>2, <4>3, <4>4, <4>5 DEF Shows, Dirs
    <3> QED
      BY <2>1, <3>1, <3>2
  <2>8. BrowseShape'
    BY <1>0, <1>1, <2>3 DEF BrowseShape, Dirs
  <2>9. Answered' /\ Listed'
    BY <1>1, <1>2, <1>4, <2>5, <2>6, <2>7 DEF Answered, Listed
  <2> QED
    BY <1>3, <2>8, <2>9 DEF BrowseInv
<1>5. CASE snapshot' = snapshot
  <2>1. Listed' /\ BrowseShape'
    BY <1>0, <1>1, <1>5, ListedStays DEF BrowseShape, Dirs
  <2>2. CASE ~ configured /\ answer' = [NoPage("notfound") EXCEPT !.id = mailbox.id]
    <3> DEFINE p == [NoPage("notfound") EXCEPT !.id = mailbox.id]
    <3>1. Shows(p) /\ p.error = "notfound" /\ answer' = p
      BY <1>0, <2>2, NoPageShows DEF NoPage
    <3> HIDE DEF p
    <3>2. Shows(answer)' /\ answer'.error # "none"
      BY <1>5, <3>1 DEF Shows, Dirs
    <3> QED
      BY <1>3, <2>1, <3>2 DEF Answered, BrowseInv
  <2>3. CASE mailbox.kind = "Page" /\ answer' = Page(snapshot, mailbox.id, mailbox.snapshot, mailbox.offset)
    <3> DEFINE p == Page(snapshot, mailbox.id, mailbox.snapshot, mailbox.offset)
    <3>1. Shows(p) /\ answer' = p
      BY <1>0, <1>2, <2>3, PageShows DEF Listed
    <3> HIDE DEF p
    <3>2. Shows(answer)'
      BY <1>5, <3>1 DEF Shows, Dirs
    <3> QED
      BY <1>1, <1>2, <1>3, <2>1, <2>3, <3>2 DEF Answered, BrowseInv
  <2>4. CASE /\ mailbox.kind = "Selection"
             /\ answer' = [id |-> mailbox.id, snapshot |-> mailbox.snapshot, path |-> mailbox.arg,
                           error |-> Selection(mailbox.snapshot, mailbox.arg), version |-> node[mailbox.arg]]
    <3> DEFINE e == view.page.entries[view.row + 1]
    <3>0. /\ view.selecting /\ view.row # NoRow /\ view.page.snapshot # 0 /\ mailbox.arg = view.label
          /\ mailbox.snapshot = view.page.snapshot /\ view.label = e.path /\ view.row < Len(view.page.entries)
          /\ view.row \in 0 .. PageRows
      BY <1>0, <1>2, <2>4 DEF Selected
    <3>1. ASSUME answer'.error = "none"
          PROVE  answer'.path = view.label /\ answer'.version = e.version
      <4>1. Selection(mailbox.snapshot, mailbox.arg) = "none" /\ answer'.path = mailbox.arg /\ answer'.version = node[mailbox.arg]
        BY <2>4, <3>1
      <4>2. /\ snapshot.id # 0 /\ snapshot.id = mailbox.snapshot
            /\ \A x \in Range(snapshot.entries) : x.path = mailbox.arg => x.version = node[mailbox.arg]
        BY <1>0, <4>1, SelectionListed DEF Listed
      <4>3. view.row + 1 \in DOMAIN view.page.entries
        <5>1. Len(view.page.entries) \in Nat /\ DOMAIN view.page.entries = 1 .. Len(view.page.entries)
          BY <1>0, LenProperties DEF Listed, Shows
        <5> QED
          BY <3>0, <5>1, BrowseAssumption
      <4>4. e \in Range(snapshot.entries)
        BY <1>0, <3>0, <4>2, <4>3 DEF Listed, Shows
      <4> HIDE DEF e
      <4> QED
        BY <3>0, <4>1, <4>2, <4>4
    <3>2. Answered'
      BY <1>1, <3>0, <3>1 DEF Answered
    <3> QED
      BY <1>3, <2>1, <3>2 DEF BrowseInv
  <2>5. \/ ~ configured /\ answer' = [NoPage("notfound") EXCEPT !.id = mailbox.id]
        \/ mailbox.kind = "Page" /\ answer' = Page(snapshot, mailbox.id, mailbox.snapshot, mailbox.offset)
        \/ /\ mailbox.kind = "Selection"
           /\ answer' = [id |-> mailbox.id, snapshot |-> mailbox.snapshot, path |-> mailbox.arg,
                         error |-> Selection(mailbox.snapshot, mailbox.arg), version |-> node[mailbox.arg]]
        \/ configured /\ mailbox.kind = "Browse" /\ Browse(mailbox.id, mailbox.arg)
    BY DEF FinderAnswer
  <2> QED
    BY <1>4, <2>2, <2>3, <2>4, <2>5
<1> QED
  BY <1>4, <1>5 DEF FinderAnswer

(* A request goes into the free mailbox with the view that shows it.       *)
LEMMA SubmitStep ==
  ASSUME BrowseInv, view.pending = 0, NEW kind \in {"Browse", "Page", "Selection"}, NEW arg, NEW of,
         NEW offset \in Nat, NEW shown, SubmitRequest(kind, arg, of, offset, shown),
         kind = "Browse" => arg \in Dirs,
         DOMAIN shown = DOMAIN view, shown.page = view.page, shown.dir \in Dirs,
         shown.selecting \in BOOLEAN, shown.selecting <=> kind = "Selection",
         kind = "Selection" => /\ shown.row = view.row /\ shown.label = view.label /\ view.row # NoRow
                               /\ arg = view.label /\ of = view.page.snapshot /\ of # 0,
         kind # "Selection" => shown.row = NoRow
  PROVE  BrowseInv'
<1> DEFINE id == view.counter + 1
<1>0. /\ BrowseShape /\ Boxed /\ Listed /\ Selected /\ Answered /\ HandsOffWhatIsShown
      /\ mailbox.state = "Idle" /\ finder.pc \notin {"take", "work", "ready"}
      /\ id \in Nat /\ id # 0
      /\ DOMAIN view = {"page", "dir", "counter", "pending", "selecting", "row", "label"}
  BY DEF BrowseInv, Boxed, BrowseShape
<1> HIDE DEF id
<1>1. /\ mailbox' = [state |-> "Queued", kind |-> kind, id |-> id, arg |-> arg, snapshot |-> of, offset |-> offset]
      /\ view' = [shown EXCEPT !.counter = id, !.pending = id]
      /\ UNCHANGED <<node, snapshot, answer, finder, handed>>
  BY <1>0 DEF SubmitRequest, UiOnly, id
<1>2. /\ view'.page = view.page /\ view'.dir = shown.dir /\ view'.counter = id /\ view'.pending = id
      /\ view'.selecting = shown.selecting /\ view'.row = shown.row /\ view'.label = shown.label
      /\ DOMAIN view' = DOMAIN view
  BY <1>0, <1>1
<1>3. /\ mailbox'.state = "Queued" /\ mailbox'.kind = kind /\ mailbox'.id = id /\ mailbox'.arg = arg
      /\ mailbox'.snapshot = of /\ mailbox'.offset = offset
      /\ DOMAIN mailbox' = {"state", "kind", "id", "arg", "snapshot", "offset"}
  BY <1>1
<1>4. BrowseShape'
  BY <1>0, <1>1, <1>2, <1>3 DEF BrowseShape, Dirs
<1>5. Boxed'
  BY <1>0, <1>1, <1>2, <1>3 DEF Boxed, Dirs
<1>6. Listed'
  BY <1>0, <1>1, <1>2 DEF Listed, OneFile, Shows, Dirs
<1>7. Selected'
  <2>1. CASE kind = "Selection"
    BY <1>0, <1>2, <1>3, <2>1 DEF Selected, NoRow
  <2>2. CASE kind # "Selection"
    BY <1>0, <1>2, <1>3, <2>2, BrowseAssumption DEF Selected, NoRow
  <2> QED
    BY <2>1, <2>2
<1>8. Answered'
  BY <1>0, <1>1, <1>3 DEF Answered
<1>9. HandsOffWhatIsShown'
  BY <1>0, <1>1 DEF HandsOffWhatIsShown
<1> QED
  BY <1>4, <1>5, <1>6, <1>7, <1>8, <1>9 DEF BrowseInv

(* Leaving the page, for a directory or for another page, clears the row.  *)
LEMMA BrowseToStep == ASSUME BrowseInv, view.pending = 0, NEW d \in Dirs, BrowseTo(d) PROVE BrowseInv'
<1> DEFINE shown == [Deselected EXCEPT !.dir = d]
<1>1. /\ DOMAIN view = {"page", "dir", "counter", "pending", "selecting", "row", "label"}
      /\ view.selecting = FALSE
  BY DEF BrowseInv, BrowseShape, Boxed
<1>2. /\ DOMAIN shown = DOMAIN view /\ shown.page = view.page /\ shown.dir = d
      /\ shown.selecting = FALSE /\ shown.row = NoRow
  BY <1>1 DEF Deselected
<1>3. SubmitRequest("Browse", d, 0, 0, shown)
  BY DEF BrowseTo
<1> HIDE DEF shown
<1>4. "Browse" \in {"Browse", "Page", "Selection"} /\ 0 \in Nat /\ "Browse" # "Selection"
  OBVIOUS
<1> QED
  BY <1>2, <1>3, <1>4, SubmitStep

(* Asking for another page of the snapshot, forwards or backwards.         *)
LEMMA RequestPageStep == ASSUME BrowseInv, view.pending = 0, NEW offset \in Nat, RequestPage(offset) PROVE BrowseInv'
<1> DEFINE shown == Deselected
<1>1. /\ DOMAIN view = {"page", "dir", "counter", "pending", "selecting", "row", "label"}
      /\ view.selecting = FALSE /\ view.dir \in Dirs
  BY DEF BrowseInv, BrowseShape, Boxed
<1>2. /\ DOMAIN shown = DOMAIN view /\ shown.page = view.page /\ shown.dir = view.dir
      /\ shown.selecting = FALSE /\ shown.row = NoRow
  BY <1>1 DEF Deselected
<1>3. SubmitRequest("Page", view.dir, view.page.snapshot, offset, shown)
  BY DEF RequestPage
<1> HIDE DEF shown
<1>4. "Page" \in {"Browse", "Page", "Selection"} /\ "Page" # "Selection" /\ "Page" # "Browse"
  OBVIOUS
<1> QED
  BY <1>1, <1>2, <1>3, <1>4, SubmitStep

(* Asking for the selected file: its row is on the page shown.             *)
LEMMA ClickUseStep == ASSUME BrowseInv, ClickUse PROVE BrowseInv'
<1> DEFINE shown == [view EXCEPT !.selecting = TRUE]
           path == view.page.entries[view.row + 1].path
<1>0. view.pending = 0 /\ view.page.snapshot # 0 /\ view.row < Len(view.page.entries)
  BY DEF ClickUse, Valid, Calm
<1>1. /\ DOMAIN view = {"page", "dir", "counter", "pending", "selecting", "row", "label"}
      /\ view.dir \in Dirs /\ view.row \in 0 .. PageRows /\ Len(view.page.entries) <= PageRows
      /\ Len(view.page.entries) \in Nat
      /\ view.row # NoRow => view.label = path
  BY LenProperties DEF BrowseInv, BrowseShape, Selected, Listed, Shows
<1>2. view.row # NoRow
  BY <1>0, <1>1, BrowseAssumption DEF NoRow
<1>3. /\ DOMAIN shown = DOMAIN view /\ shown.page = view.page /\ shown.dir = view.dir
      /\ shown.selecting = TRUE /\ shown.row = view.row /\ shown.label = view.label
  BY <1>1
<1>4. SubmitRequest("Selection", path, view.page.snapshot, 0, shown)
  BY DEF ClickUse
<1> HIDE DEF shown, path
<1>5. "Selection" \in {"Browse", "Page", "Selection"} /\ 0 \in Nat /\ "Selection" # "Browse"
  OBVIOUS
<1> QED
  BY <1>0, <1>1, <1>2, <1>3, <1>4, <1>5, SubmitStep

(* A row is browsed when it is a directory, else it becomes selected.      *)
LEMMA ClickRowStep == ASSUME BrowseInv, NEW index \in 0 .. PageRows - 1, ClickRow(index) PROVE BrowseInv'
<1> DEFINE e == view.page.entries[index + 1]
<1>0. /\ view.pending = 0 /\ view.page.snapshot # 0 /\ index < Len(view.page.entries)
      /\ BrowseShape /\ Boxed /\ Listed /\ Selected /\ Answered /\ HandsOffWhatIsShown
      /\ DOMAIN view = {"page", "dir", "counter", "pending", "selecting", "row", "label"}
      /\ mailbox.state = "Idle" /\ view.selecting = FALSE /\ finder.pc # "ready"
  BY DEF ClickRow, Valid, Calm, BrowseInv, BrowseShape, Boxed
<1>1. CASE e.kind # 1 /\ BrowseTo(e.path)
  <2>1. Len(view.page.entries) \in Nat /\ DOMAIN view.page.entries = 1 .. Len(view.page.entries)
    BY <1>0, LenProperties DEF Listed, Shows
  <2>2. index + 1 \in DOMAIN view.page.entries
    BY <1>0, <2>1, BrowseAssumption
  <2>3. e.path \in Dirs
    BY <1>0, <1>1, <2>2 DEF Listed, Shows
  <2> QED
    BY <1>0, <1>1, <2>3, BrowseToStep
<1>2. CASE /\ view' = [view EXCEPT !.row = index, !.label = e.path]
           /\ UiOnly /\ UNCHANGED <<mailbox, wakeSeq, finder, uiStep, handed>>
  <2>1. /\ view'.page = view.page /\ view'.dir = view.dir /\ view'.counter = view.counter
        /\ view'.pending = view.pending /\ view'.selecting = view.selecting /\ view'.row = index
        /\ view'.label = e.path /\ DOMAIN view' = DOMAIN view
        /\ UNCHANGED <<node, snapshot, answer, mailbox, finder, handed>>
    BY <1>0, <1>2 DEF UiOnly
  <2>2. BrowseShape' /\ Boxed'
    BY <1>0, <2>1 DEF BrowseShape, Boxed, Dirs
  <2>3. Listed'
    BY <1>0, <2>1 DEF Listed, OneFile, Shows, Dirs
  <2>4. Selected'
    BY <1>0, <2>1, BrowseAssumption DEF Selected, NoRow
  <2>5. Answered' /\ HandsOffWhatIsShown'
    BY <1>0, <2>1 DEF Answered, HandsOffWhatIsShown
  <2> QED
    BY <2>2, <2>3, <2>4, <2>5 DEF BrowseInv
<1> QED
  BY <1>1, <1>2 DEF ClickRow

(* Every click, in whatever state the view is in.                          *)
LEMMA ClicksStep == ASSUME BrowseInv, Clicks PROVE BrowseInv'
<1>0. view.dir \in Dirs /\ view.page.next \in Nat /\ view.page.offset \in Nat
  BY DEF BrowseInv, BrowseShape, Listed, Shows
<1>1. CASE ClickRefresh
  BY <1>0, <1>1, BrowseToStep DEF ClickRefresh, Calm
<1>2. CASE ClickUp
  <2> DEFINE up == IF view.dir = Library THEN "root" ELSE ParentOf(view.dir)
  <2>1. up \in Dirs
    <3>1. CASE view.dir = Library
      BY <3>1, BrowseAssumption DEF Dirs
    <3>2. CASE view.dir # Library
      <4>1. \E d \in DOMAIN Tree : view.dir \in Range(Tree[d])
        BY <1>0, <1>2, <3>2, BrowseAssumption DEF Dirs, ClickUp
      <4>2. ParentOf(view.dir) \in DOMAIN Tree
        BY <4>1 DEF ParentOf
      <4> QED
        BY <3>2, <4>2 DEF Dirs
    <3> QED
      BY <3>1, <3>2
  <2>2. view.pending = 0 /\ BrowseTo(up)
    BY <1>2 DEF ClickUp, Calm
  <2> HIDE DEF up
  <2> QED
    BY <2>1, <2>2, BrowseToStep
<1>3. CASE ClickNext
  BY <1>0, <1>3, RequestPageStep DEF ClickNext, Valid, Calm
<1>4. CASE ClickPrevious
  <2> DEFINE back == IF view.page.offset >= PageRows THEN view.page.offset - PageRows ELSE 0
  <2>1. back \in Nat
    BY <1>0, BrowseAssumption
  <2>2. view.pending = 0 /\ RequestPage(back)
    BY <1>4 DEF ClickPrevious, Valid, Calm
  <2> HIDE DEF back
  <2> QED
    BY <2>1, <2>2, RequestPageStep
<1>5. CASE ClickUse
  BY <1>5, ClickUseStep
<1>6. CASE \E i \in 0 .. PageRows - 1 : ClickRow(i)
  BY <1>6, ClickRowStep
<1> QED
  BY <1>1, <1>2, <1>3, <1>4, <1>5, <1>6 DEF Clicks

(* The answer is collected: a page replaces the one shown and the row is   *)
(* already cleared, a selection is handed over under the label of its row. *)
LEMMA PollPageStep == ASSUME BrowseInv, PollPage PROVE BrowseInv'
<1> DEFINE page == IF answer.id = view.pending THEN answer ELSE NoPage("stale")
<1>0. /\ BrowseShape /\ Boxed /\ Listed /\ Selected /\ Answered /\ HandsOffWhatIsShown
      /\ DOMAIN view = {"page", "dir", "counter", "pending", "selecting", "row", "label"}
      /\ DOMAIN mailbox = {"state", "kind", "id", "arg", "snapshot", "offset"}
      /\ snapshot.counter \in Nat
  BY DEF BrowseInv, BrowseShape
<1>1. /\ mailbox.state = "Ready" /\ view.selecting = FALSE /\ UNCHANGED <<node, snapshot, answer, finder, handed>>
      /\ mailbox' = [mailbox EXCEPT !.state = "Idle"] /\ view' = [view EXCEPT !.pending = 0, !.page = page]
  BY <1>0 DEF PollPage, Poll, UiOnly, BrowseShape
<1>2. Shows(page)
  <2>1. Shows(answer)
    BY <1>0, <1>1 DEF Answered
  <2>2. Shows(NoPage("stale"))
    BY <1>0, NoPageShows
  <2> QED
    BY <2>1, <2>2
<1>3. view.row = NoRow
  BY <1>0, <1>1 DEF Boxed, Selected
<1> HIDE DEF page
<1>4. /\ view'.page = page /\ view'.dir = view.dir /\ view'.counter = view.counter /\ view'.pending = 0
      /\ view'.selecting = FALSE /\ view'.row = NoRow /\ DOMAIN view' = DOMAIN view
      /\ mailbox'.state = "Idle" /\ mailbox'.kind = mailbox.kind /\ mailbox'.offset = mailbox.offset
      /\ DOMAIN mailbox' = DOMAIN mailbox
  BY <1>0, <1>1, <1>3
<1>5. BrowseShape' /\ Boxed'
  BY <1>0, <1>1, <1>4 DEF BrowseShape, Boxed, Dirs
<1>6. Listed'
  BY <1>0, <1>1, <1>2, <1>4 DEF Listed, OneFile, Shows, Dirs
<1>7. Selected'
  BY <1>4, BrowseAssumption DEF Selected, NoRow
<1>8. Answered' /\ HandsOffWhatIsShown'
  BY <1>0, <1>1, <1>4 DEF Answered, Boxed, HandsOffWhatIsShown
<1> QED
  BY <1>5, <1>6, <1>7, <1>8 DEF BrowseInv

(* The file the worker found is handed over, or refused by the handler.    *)
LEMMA PollSelectionStep == ASSUME BrowseInv, NEW takes \in BOOLEAN, PollSelection(takes) PROVE BrowseInv'
<1> DEFINE good == answer.id = view.pending /\ answer.snapshot = view.page.snapshot /\ answer.error = "none"
           row == IF good /\ takes THEN NoRow ELSE view.row
<1>0. /\ BrowseShape /\ Boxed /\ Listed /\ Selected /\ Answered /\ HandsOffWhatIsShown
      /\ DOMAIN view = {"page", "dir", "counter", "pending", "selecting", "row", "label"}
      /\ DOMAIN mailbox = {"state", "kind", "id", "arg", "snapshot", "offset"}
  BY DEF BrowseInv, BrowseShape
<1>1. /\ mailbox.state = "Ready" /\ view.selecting /\ UNCHANGED <<node, snapshot, answer, finder>>
      /\ mailbox' = [mailbox EXCEPT !.state = "Idle"]
      /\ view' = [view EXCEPT !.pending = 0, !.selecting = FALSE, !.row = row]
      /\ handed' = IF good /\ takes
                   THEN [count |-> handed.count + 1, path |-> answer.path, version |-> answer.version, label |-> view.label,
                         listed |-> view.page.entries[view.row + 1].version]
                   ELSE handed
  BY <1>0 DEF PollSelection, Poll, UiOnly, BrowseShape
<1>2. answer.error = "none" => /\ answer.path = view.label
                               /\ answer.version = view.page.entries[view.row + 1].version
  BY <1>0, <1>1 DEF Answered
<1>3. HandsOffWhatIsShown'
  <2>1. CASE good /\ takes
    BY <1>1, <1>2, <2>1 DEF HandsOffWhatIsShown
  <2>2. CASE ~ (good /\ takes)
    BY <1>0, <1>1, <2>2 DEF HandsOffWhatIsShown
  <2> QED
    BY <2>1, <2>2
<1>4. row \in {NoRow, view.row}
  OBVIOUS
<1> HIDE DEF row, good
<1>5. /\ view'.page = view.page /\ view'.dir = view.dir /\ view'.counter = view.counter /\ view'.pending = 0
      /\ view'.selecting = FALSE /\ view'.row = row /\ view'.label = view.label /\ DOMAIN view' = DOMAIN view
      /\ mailbox'.state = "Idle" /\ mailbox'.kind = mailbox.kind /\ mailbox'.offset = mailbox.offset
      /\ DOMAIN mailbox' = DOMAIN mailbox
  BY <1>0, <1>1
<1>6. BrowseShape' /\ Boxed'
  BY <1>0, <1>1, <1>5 DEF BrowseShape, Boxed, Dirs
<1>7. Listed'
  BY <1>0, <1>1, <1>5 DEF Listed, OneFile, Shows, Dirs
<1>8. Selected'
  BY <1>0, <1>4, <1>5, BrowseAssumption DEF Selected, NoRow
<1>9. Answered'
  BY <1>0, <1>1, <1>5 DEF Answered, Boxed
<1> QED
  BY <1>3, <1>6, <1>7, <1>8, <1>9 DEF BrowseInv

(* Files that change do so behind the snapshot.                            *)
LEMMA FilesChangeStep == ASSUME BrowseInv, FilesChange PROVE BrowseInv'
<1>0. BrowseShape /\ Boxed /\ Listed /\ Selected /\ Answered /\ HandsOffWhatIsShown
  BY DEF BrowseInv
<1>1. UNCHANGED <<snapshot, mailbox, answer, finder, view, handed>>
  BY DEF FilesChange
<1>2. DOMAIN node' = Nodes /\ \A n \in Nodes : node'[n] = "dir" => n \in Dirs
  <2>1. DOMAIN node = Nodes /\ \A n \in Nodes : node[n] = "dir" => n \in Dirs
    BY <1>0 DEF BrowseShape
  <2>2. CASE UNCHANGED node
    BY <2>1, <2>2
  <2>3. ASSUME NEW n \in Nodes, NEW to \in {"absent", "link", "next"},
               node' = [node EXCEPT ![n] = IF to = "next" THEN NextVersion(node[n]) ELSE to]
        PROVE  DOMAIN node' = Nodes /\ \A m \in Nodes : node'[m] = "dir" => m \in Dirs
    <3> DEFINE now == IF to = "next" THEN NextVersion(node[n]) ELSE to
    <3>1. now # "dir"
      BY DEF NextVersion
    <3>2. node' = [node EXCEPT ![n] = now]
      BY <2>3
    <3> HIDE DEF now
    <3> QED
      BY <2>1, <3>1, <3>2
  <2> QED
    BY <2>2, <2>3 DEF FilesChange
<1>3. BrowseShape'
  BY <1>0, <1>1, <1>2 DEF BrowseShape, Dirs
<1>4. Boxed' /\ Selected' /\ HandsOffWhatIsShown'
  BY <1>0, <1>1 DEF Boxed, Selected, HandsOffWhatIsShown, Dirs, NoRow
<1>5. Listed' /\ Answered'
  BY <1>0, <1>1, ListedStays DEF Answered, Shows, Dirs
<1> QED
  BY <1>3, <1>4, <1>5 DEF BrowseInv

(* Every step of the view, the worker and the file system.                 *)
LEMMA BrowseInvStep == BrowseInv /\ [BrowseNext]_browseVars => BrowseInv'
<1> SUFFICES ASSUME BrowseInv, [BrowseNext]_browseVars PROVE BrowseInv'
  OBVIOUS
<1>0. /\ BrowseShape /\ Boxed /\ Listed /\ Selected /\ Answered /\ HandsOffWhatIsShown
      /\ DOMAIN finder = {"pc", "seen"}
  BY DEF BrowseInv, BrowseShape
<1>1. CASE FinderObserve \/ FinderCheck \/ FinderWait
  <2>1. /\ UNCHANGED <<node, view, snapshot, handed, mailbox, answer>> /\ DOMAIN finder' = {"pc", "seen"}
        /\ finder.pc \notin {"take", "work", "ready"} /\ finder'.pc \notin {"work", "ready"}
        /\ finder'.pc = "take" => mailbox.state = "Queued"
    BY <1>0, <1>1 DEF FinderObserve, FinderCheck, FinderWait, FinderAt, FinderGoes, FinderOnly
  <2> QED
    BY <2>1, FinderMoves
<1>2. CASE FinderTake \/ FinderReady
  <2>1. UNCHANGED <<node, view, snapshot, handed>> /\ DOMAIN finder' = {"pc", "seen"}
    BY <1>0, <1>2 DEF FinderTake, FinderReady, FinderGoes, FinderOnly
  <2> QED
    BY <1>2, <2>1, FinderMoves
<1>3. CASE FinderAnswer
  BY <1>3, FinderAnswers
<1>4. CASE WakeFinder
  <2>1. UNCHANGED <<node, snapshot, answer, mailbox, view, handed>>
    BY <1>4 DEF WakeFinder, UiOnly
  <2>2. CASE finder.pc = "asleep"
    <3>1. finder'.pc = "observe" /\ DOMAIN finder' = {"pc", "seen"}
      BY <1>0, <1>4, <2>2 DEF WakeFinder, FinderAt, FinderGoes
    <3> QED
      BY <2>1, <2>2, <3>1, FinderMoves
  <2>3. CASE finder.pc # "asleep"
    <3>1. finder' = finder
      BY <1>4, <2>3 DEF WakeFinder, FinderAt
    <3> QED
      BY <1>0, <2>1, <3>1, ListedStays DEF BrowseInv, BrowseShape, Boxed, Selected, Answered,
         HandsOffWhatIsShown, Shows, Dirs, NoRow
  <2> QED
    BY <2>2, <2>3
<1>5. CASE Clicks
  BY <1>5, ClicksStep
<1>6. CASE Polls
  BY <1>6, PollPageStep, PollSelectionStep DEF Polls
<1>7. CASE StopFinder \/ UNCHANGED browseVars
  <2>1. UNCHANGED <<node, snapshot, answer, mailbox, finder, view, handed>>
    BY <1>7 DEF StopFinder, browseVars
  <2> QED
    BY <1>0, <2>1, ListedStays DEF BrowseInv, BrowseShape, Boxed, Selected, Answered,
       HandsOffWhatIsShown, Shows, Dirs, NoRow
<1>8. CASE FilesChange
  BY <1>8, FilesChangeStep
<1> QED
  BY <1>1, <1>2, <1>3, <1>4, <1>5, <1>6, <1>7, <1>8 DEF BrowseNext, Finder

(* The load handler is given the track whose name the view shows selected, *)
(* as the file that was listed under that name, whatever is paged, browsed *)
(* and replaced meanwhile: for every tree, catalog, page size and limit.   *)
THEOREM SelectionIsWhatIsShown == BrowseSpec => []HandsOffWhatIsShown
<1>1. BrowseSpec => []BrowseInv
  BY BrowseInvInit, BrowseInvStep, PTL DEF BrowseSpec
<1>2. BrowseInv => HandsOffWhatIsShown
  BY DEF BrowseInv
<1> QED
  BY <1>1, <1>2, PTL
===============================================================================
