------------------------------ MODULE DeckLoadProofs ------------------------------
(***************************************************************************)
(* Proofs about the deck's load and seek worker, for every number of       *)
(* operations, faults, restarts, loads and queue entries: what it reports  *)
(* of a load or a seek is what the player did (OutcomeReal, SeekReal), the *)
(* slot is not given away while something is under way (OneOutstanding),   *)
(* and the name shown is that of the track (NameUnlessRestarted).          *)
(*                                                                         *)
(* None of them is inductive.  What they rest on: which operation has the  *)
(* slot (Slot) and which request of it is on its way (RequestPlace), that  *)
(* an identity stands for one operation (Identities), what a status sample *)
(* can tell (SamplesPast, SamplesDecided, Landings), and which samples the *)
(* worker may match with what it waits for (Matched, Aimed, SeekPlace).    *)
(***************************************************************************)
EXTENDS DeckLoad, SequenceTheorems, FiniteSetTheorems, TLAPS

-----------------------------------------------------------------------------
(* The inductive invariant                                                 *)

Ids == 0 .. MaxLoads
Selections == 0 .. MaxOperations
Frames == Targets \cup {0}
SampleSet == [session : 0 .. MaxSessions, id : Ids, progress : Progress, track : Ids, gen : Nat,
              at : Frames, playing : BOOLEAN, broken : BOOLEAN]
SeekRequests == [track : Ids, gen : Nat, frame : Frames]
SeekStates == {"Idle", "AwaitingPosition", "PositionObserved", "OutcomeUnknown", "Failed",
               "Rejected", "Unavailable", "InvalidTarget"}
LoadRecords == [state : LoadStates, selection : Selections, id : Ids, outcome : Progress]
SeekRecords == [state : SeekStates, on : BOOLEAN, request : SeekRequests]
Items == [kind : {"load"}, selection : Operations, valid : BOOLEAN]
         \cup [kind : {"seek"}, request : SeekRequests]
Underway == {"sent", "late", "lost"}
Requests == {NoRpc} \cup [at : {"answered"}, id : Nat]
            \cup [at : Underway, kind : {"load"}, selection : Operations]
            \cup [at : Underway, kind : {"seek"}, frame : Frames]
Players == [up : BOOLEAN, sample : SampleSet, issued : Ids, candidate : Ids, seekTo : SUBSET Frames]

WorkerTypes ==
  /\ occupied \in BOOLEAN /\ active \in BOOLEAN /\ uncertain \in BOOLEAN
  /\ connected \in BOOLEAN /\ fresh \in BOOLEAN /\ used \in Selections
  /\ submitted \in Seq(Items) /\ Len(submitted) <= 1
  /\ pc \in {"drain", "take", "loading", "seeking", "finish"}
  /\ load \in LoadRecords /\ seek \in SeekRecords
  /\ last \in SampleSet /\ named \in [track : Ids, name : Selections]
  /\ views \in Seq(Selections) /\ Len(views) <= ViewCapacity
StreamTypes ==
  /\ statuses \in Seq(SampleSet) /\ Len(statuses) <= StatusCapacity
  /\ rpc \in Requests
PlayerTypes ==
  /\ player \in Players /\ player.sample.session \in Sessions
  /\ ~ player.up => player.sample.session < MaxSessions
  /\ source \in [Sessions -> [Loads -> Selections]]
  /\ fate \in [Operations -> {"none"} \cup Outcomes]
  /\ sought \subseteq [session : Sessions, frame : Frames, track : Ids, gen : Nat]
  /\ forsaken \in BOOLEAN /\ events \in Nat
DeckTypeOK == WorkerTypes /\ StreamTypes /\ PlayerTypes

(* The slot belongs to one operation, from its submission until it has an   *)
(* end; a session in doubt keeps it.                                        *)
LoadOpen == InFlight(load) \/ Unresolved(load)
Slot ==
  /\ active => occupied /\ submitted = <<>>
  /\ submitted # <<>> => occupied
  /\ seek.on \/ LoadOpen => active
  /\ ~ (seek.on /\ LoadOpen)
  /\ uncertain => seek.on \/ LoadOpen
  /\ pc = "loading" => ~ uncertain
  /\ pc = "seeking" => seek.on /\ ~ uncertain /\ seek.request.gen = last.gen
  /\ load.state = "AwaitingAcceptance" <=> pc = "loading"
  /\ load.state = "AwaitingAcceptance" => load.id = 0
  /\ load.state \in {"AwaitingCompletion", "Terminal"} => load.id # 0
  /\ load.state # "Idle" => load.selection \in Operations

(* Nothing is sent before a status was seen. *)
Seen ==
  /\ connected \/ fresh \/ seek.on => last.session # 0
  /\ load.state \in {"AwaitingAcceptance", "AwaitingCompletion", "OutcomeUnknown", "Terminal"}
       => last.session # 0
  /\ last.session = 0 => last.track = 0
  /\ named.track = last.track

(* Which request is under way. *)
Asking == rpc.at \in {"sent", "late"}
AsksLoad == Asking /\ rpc.kind = "load"
AsksSeek == Asking /\ rpc.kind = "seek"
RequestPlace ==
  /\ rpc.at \in {"sent", "answered"} => pc \in {"loading", "seeking"}
  /\ pc \in {"loading", "seeking"} => rpc.at \in {"sent", "answered", "lost"}
  /\ Asking => player.up
  /\ pc = "loading" /\ rpc.at = "answered" => rpc.id \in Ids
  /\ AsksLoad => rpc.selection = load.selection
  /\ AsksLoad /\ rpc.at = "sent" => pc = "loading"
  /\ AsksLoad /\ rpc.at = "late" => load.state = "OutcomeUnknown" /\ load.id = 0
  /\ pc = "loading" /\ rpc.at = "sent" => rpc.kind = "load"
  /\ pc = "seeking" /\ rpc.at = "sent" => rpc.kind = "seek"

(* An identity stands for one operation, and an operation has at most one.  *)
NotIssued(o) == \A s \in Sessions, i \in Loads : source[s][i] # o
Refused == pc = "loading" /\ rpc.at = "answered" /\ rpc.id = 0
Identities ==
  /\ \A s \in Sessions, i \in Loads : source[s][i] # 0 =>
       s < player.sample.session \/ (s = player.sample.session /\ i <= player.issued)
  /\ \A s, t \in Sessions, i, j \in Loads :
       source[s][i] # 0 /\ source[s][i] = source[t][j] => s = t /\ i = j
Unissued ==
  /\ load.selection <= used
  /\ \A o \in Operations : o > used => NotIssued(o)
  /\ submitted # <<>> /\ submitted[1].kind = "load" =>
       submitted[1].selection <= used /\ NotIssued(submitted[1].selection)
  /\ AsksLoad => NotIssued(load.selection)
  /\ Refused \/ load.state \in {"Rejected", "ValidationFailed", "Unavailable"} =>
       NotIssued(load.selection)

(* The load the player prepares, if it is one of the deck's, is the one the *)
(* worker waits for.                                                        *)
Preparing == player.up /\ player.candidate # 0
Candidate == source[player.sample.session][player.candidate]
Prepares ==
  /\ player.candidate \in {0, player.issued}
  /\ Preparing /\ Candidate # 0 =>
       /\ Candidate = load.selection
       /\ load.state \in {"AwaitingAcceptance", "AwaitingCompletion", "OutcomeUnknown"}

(* What a sample says lies in the player's past. *)
Told == {statuses[i] : i \in DOMAIN statuses}
Samples == {last, player.sample} \cup Told
Before(a, b) == a.session < b.session \/ (a.session = b.session /\ a.gen <= b.gen)
PastIn(s) ==
  /\ s.id <= player.issued /\ s.track <= player.issued
  /\ player.candidate # 0 => /\ s.track < player.candidate
                             /\ s.id = player.candidate => s.progress = "preparing"
Past(s) ==
  /\ Before(s, player.sample)
  /\ s.session = player.sample.session => PastIn(s)
  /\ s.id # 0 => s.progress # "idle"
  /\ s.session = 0 => s.id = 0
InOrder ==
  /\ \A i, j \in DOMAIN statuses : i < j => Before(statuses[i], statuses[j])
  /\ \A s \in Told : Before(last, s) /\ s.session # 0
SamplesPast == (\A s \in Samples : Past(s)) /\ InOrder

(* An end that a sample tells of an operation's load is its end. *)
Tells(s) == s.id # 0 /\ s.progress \in Outcomes
Decided(s) == Tells(s) /\ source[s.session][s.id] # 0 =>
                fate[source[s.session][s.id]] = s.progress
SamplesDecided == \A s \in Samples : Decided(s)

(* The worker matches an identity only with samples of its session. *)
Awaits == load.state \in {"AwaitingCompletion", "OutcomeUnknown"} /\ load.id # 0 /\ ~ uncertain
Answers == pc = "loading" /\ rpc.at = "answered" /\ rpc.id # 0
Match(id) == \/ source[last.session][id] = load.selection
             \/ \A s \in Told \cup {player.sample} : s.session > last.session
Matched ==
  /\ Awaits => Match(load.id)
  /\ Answers => Match(rpc.id)
  /\ pc = "take" \/ (pc = "loading" /\ rpc.at = "sent") =>
       \A s \in Told : s.session = player.sample.session

Ends ==
  load.state = "Terminal" =>
    /\ load.outcome = fate[load.selection] /\ load.outcome \in Outcomes
    /\ last.session <= 1 => source[1][load.id] = load.selection

Names == last.session <= 1 /\ named.name # 0 =>
           last.track # 0 /\ source[last.session][last.track] = named.name

(* Within a track only a seek makes a new generation. *)
Sought(b) == [session |-> b.session, frame |-> b.at, track |-> b.track, gen |-> b.gen] \in sought
Landings == \A a, b \in Samples :
  a.session = b.session /\ a.track = b.track /\ b.track # 0 /\ a.gen < b.gen => Sought(b)
Aimed == seek.on /\ ~ uncertain =>
  /\ seek.request.track # 0
  /\ last.session = player.sample.session =>
       /\ seek.request.track <= player.issued
       /\ player.candidate # 0 => seek.request.track < player.candidate
  /\ \A b \in Samples :
       b.session = last.session /\ b.track = seek.request.track /\ b.gen > seek.request.gen
         => Sought(b)

(* The seek the worker waits for is the only one the player may carry out,  *)
(* and it does so once.                                                     *)
Queued == player.up /\ player.seekTo # {}
Declined == pc = "seeking" /\ rpc.at = "answered" /\ rpc.id = 0
Landed == {k \in sought : \/ k.session > last.session
                          \/ k.session = last.session /\ k.gen > seek.request.gen}
OnlySeek ==
  /\ AsksSeek \/ Queued => seek.on
  /\ ~ (Queued /\ (AsksSeek \/ Declined))
  /\ seek.on /\ ~ uncertain =>
       /\ AsksSeek \/ Queued \/ Declined => Landed = {}
       /\ \A k, l \in Landed : k = l
  /\ ~ seek.on => Unseen(last) = {}
SeekPlace == ~ forsaken => OnlySeek

DeckInv ==
  /\ DeckTypeOK /\ Slot /\ Seen /\ RequestPlace /\ Identities /\ Unissued /\ Prepares
  /\ SamplesPast /\ SamplesDecided /\ Matched /\ Ends /\ Names /\ Landings /\ Aimed /\ SeekPlace

-----------------------------------------------------------------------------
(* Sequences and the constants                                             *)

LEMMA Bounds ==
  /\ MaxOperations \in Nat /\ MaxLoads \in Nat /\ MaxSessions \in Nat \ {0}
  /\ 1 \in Sessions /\ Targets \subseteq Nat /\ 0 \in Ids /\ 0 \in Frames /\ Frames \subseteq Nat
BY DeckBounds DEF Sessions, Ids, Frames

LEMMA Popped ==
  ASSUME NEW S, NEW q \in Seq(S), q # <<>>
  PROVE  /\ Head(q) \in S /\ Head(q) = q[1] /\ Tail(q) \in Seq(S)
         /\ Len(Tail(q)) = Len(q) - 1 /\ Len(q) \in Nat \ {0}
         /\ \A i \in 1 .. Len(Tail(q)) : i + 1 \in 1 .. Len(q) /\ Tail(q)[i] = q[i + 1]
<1>1. Len(q) \in Nat \ {0}
  BY EmptySeq, LenProperties
<1>2. Head(q) \in S /\ Tail(q) \in Seq(S) /\ Head(q) = q[1]
  BY HeadTailProperties, <1>1, ElementOfSeq
<1>3. Len(Tail(q)) = Len(q) - 1
  BY HeadTailProperties
<1>4. \A i \in 1 .. Len(Tail(q)) : i + 1 \in 1 .. Len(q) /\ Tail(q)[i] = q[i + 1]
  BY HeadTailProperties, <1>1, <1>3
<1> QED
  BY <1>1, <1>2, <1>3, <1>4

LEMMA Pushing ==
  ASSUME NEW S, NEW q \in Seq(S), NEW x \in S
  PROVE  /\ Append(q, x) \in Seq(S) /\ Len(Append(q, x)) = Len(q) + 1 /\ Len(q) \in Nat
         /\ Append(q, x)[Len(q) + 1] = x
         /\ \A i \in 1 .. Len(q) : Append(q, x)[i] = q[i]
BY AppendProperties, LenProperties

(* The submissions: none, or the one that has the slot. *)
LEMMA OneSubmitted ==
  ASSUME WorkerTypes, submitted # <<>>
  PROVE  /\ Head(submitted) \in Items /\ Head(submitted) = submitted[1]
         /\ Tail(submitted) = <<>>
<1>1. /\ Head(submitted) \in Items /\ Head(submitted) = submitted[1]
      /\ Tail(submitted) \in Seq(Items) /\ Len(Tail(submitted)) = Len(submitted) - 1
      /\ Len(submitted) \in Nat \ {0}
  BY Popped DEF WorkerTypes
<1>2. Len(submitted) = 1
  BY <1>1 DEF WorkerTypes
<1>3. Tail(submitted) = <<>>
  <2>1. Len(Tail(submitted)) = 0
    BY <1>1, <1>2
  <2> QED
    BY <1>1, <2>1, EmptySeq
<1> QED
  BY <1>1, <1>3

-----------------------------------------------------------------------------
(* Types                                                                   *)

LEMMA ItemTypes ==
  ASSUME NEW item \in Items
  PROVE  /\ item.kind = "load" => item.selection \in Operations /\ item.valid \in BOOLEAN
         /\ item.kind = "seek" => item.request \in SeekRequests
BY DEF Items

LEMMA LoadTypes ==
  ASSUME NEW l \in LoadRecords
  PROVE  /\ OutcomeUnknown(l) \in LoadRecords
         /\ UnavailableBeforeSend(l) \in LoadRecords
         /\ \A s \in SampleSet : Observe(l, s) \in LoadRecords
         /\ \A id \in Ids : Accept(l, id # 0, id) \in LoadRecords
         /\ \A o \in Operations, v \in BOOLEAN : Begin(l, o, v) \in LoadRecords
<1> USE DEF LoadStates, LoadRecords
<1>1. \A o \in Operations, v \in BOOLEAN : Begin(l, o, v) \in LoadRecords
  <2> SUFFICES ASSUME NEW o \in Operations, NEW v \in BOOLEAN
               PROVE  Begin(l, o, v) \in LoadRecords
    OBVIOUS
  <2>1. NewLoad \in LoadRecords
    BY Bounds DEF NewLoad, Selections, Progress, Ids
  <2>2. o \in Selections
    BY Bounds DEF Operations, Selections
  <2>3. [NewLoad EXCEPT !.selection = o, !.state = IF v THEN "AwaitingAcceptance" ELSE "ValidationFailed"]
          \in LoadRecords
    BY <2>1, <2>2
  <2> QED
    BY <2>3 DEF Begin
<1>2. \A s \in SampleSet : Observe(l, s) \in LoadRecords
  BY DEF Observe, SampleSet
<1>3. \A id \in Ids : Accept(l, id # 0, id) \in LoadRecords
  BY DEF Accept
<1> QED
  BY <1>1, <1>2, <1>3 DEF OutcomeUnknown, UnavailableBeforeSend

LEMMA WorkerTypesStep == ASSUME DeckInv, [Next]_deckVars PROVE WorkerTypes'
<1> USE DEF DeckInv, DeckTypeOK
<1>1. CASE \/ \E valid \in BOOLEAN : Submit(valid)
           \/ \E frame \in Targets : SubmitSeek(frame)
  <2>1. PICK item : /\ Admit(item) /\ item \in Items
    <3>1. ASSUME NEW valid \in BOOLEAN, Submit(valid)
          PROVE  \E item : Admit(item) /\ item \in Items
      <4> DEFINE item == [kind |-> "load", selection |-> used + 1, valid |-> valid]
      <4>1. used + 1 \in Operations
        BY <3>1, Bounds DEF Submit, Admit, Operations, WorkerTypes, Selections
      <4>2. item \in Items
        BY <4>1 DEF Items
      <4>3. Admit(item)
        BY <3>1 DEF Submit
      <4> QED
        BY <4>2, <4>3
    <3>2. ASSUME NEW frame \in Targets, SubmitSeek(frame)
          PROVE  \E item : Admit(item) /\ item \in Items
      BY <3>2 DEF SubmitSeek, Items, SeekRequests, Frames, WorkerTypes, SampleSet
    <3> QED
      BY <1>1, <3>1, <3>2
  <2>2. submitted = <<>>
    BY <2>1 DEF Admit, SlotFree, Slot
  <2>3. submitted' \in Seq(Items) /\ Len(submitted') <= 1
    BY <2>1, <2>2, Pushing DEF Admit, WorkerTypes
  <2>4. used' \in Selections
    BY <2>1, Bounds DEF Admit, Selections, WorkerTypes
  <2> QED
    BY <2>1, <2>3, <2>4 DEF Admit, WorkerTypes, worker, view
<1>2. CASE Poll
  <2>1. views' \in Seq(Selections) /\ Len(views') <= ViewCapacity
    BY <1>2, Popped, DeckBounds DEF Poll, WorkerTypes
  <2> QED
    BY <1>2, <2>1 DEF Poll, WorkerTypes, worker, view
<1>3. CASE Publish
  BY <1>3 DEF Publish, WorkerTypes, worker, view, display
<1>4. CASE DrainStatus
  <2> DEFINE s == Head(statuses)
  <2>1. s \in SampleSet
    BY <1>4, Popped DEF DrainStatus, StreamTypes
  <2> HIDE DEF s
  <2>2. load' \in LoadRecords
    BY <1>4, <2>1, LoadTypes DEF DrainStatus, WorkerTypes, s
  <2>3. seek' \in SeekRecords
    BY <1>4 DEF DrainStatus, WorkerTypes, SeekAfter, SeekStates, SeekRecords
  <2>4. named' \in [track : Ids, name : Selections]
    <3>1. named' = NamedAfter(s, load')
      BY <1>4 DEF DrainStatus, s
    <3> QED
      BY <3>1, <2>1, <2>2, Bounds DEF NamedAfter, SampleSet, LoadRecords, WorkerTypes, Selections
  <2>5. uncertain' \in BOOLEAN /\ fresh' \in BOOLEAN
    BY <1>4 DEF DrainStatus
  <2>6. last' \in SampleSet
    BY <1>4, <2>1 DEF DrainStatus, s
  <2> QED
    BY <1>4, <2>2, <2>3, <2>4, <2>5, <2>6 DEF DrainStatus, WorkerTypes, display
<1>5. CASE \E silent, expired \in BOOLEAN : CheckClocks(silent, expired)
  <2>1. PICK silent \in BOOLEAN, expired \in BOOLEAN : CheckClocks(silent, expired)
    BY <1>5
  <2>2. load' \in LoadRecords
    BY <2>1, LoadTypes DEF CheckClocks, WorkerTypes
  <2>3. seek' \in SeekRecords
    BY <2>1 DEF CheckClocks, WorkerTypes, SeekStates, SeekRecords
  <2>4. connected' \in BOOLEAN /\ uncertain' \in BOOLEAN /\ fresh' \in BOOLEAN
    BY <2>1 DEF CheckClocks, LostSession, WorkerTypes
  <2> QED
    BY <2>1, <2>2, <2>3, <2>4 DEF CheckClocks, WorkerTypes, display
<1>6. CASE TakeSelection
  <2> DEFINE s == Head(submitted)
  <2>1. /\ s \in Items /\ s.kind = "load" /\ submitted' = <<>>
    BY <1>6, OneSubmitted DEF TakeSelection
  <2>2. s.selection \in Operations /\ s.valid \in BOOLEAN
    BY <2>1, ItemTypes
  <2> HIDE DEF s
  <2>3. load' \in LoadRecords
    BY <1>6, <2>2, LoadTypes DEF TakeSelection, WorkerTypes, s
  <2>4. seek' \in SeekRecords
    BY <1>6 DEF TakeSelection, WorkerTypes, SeekStates, SeekRecords
  <2>5. submitted' \in Seq(Items) /\ Len(submitted') <= 1
    BY <2>1, EmptySeq
  <2> QED
    BY <1>6, <2>3, <2>4, <2>5 DEF TakeSelection, WorkerTypes
<1>7. CASE TakeSeek
  <2> DEFINE r == Head(submitted).request
  <2>1. r \in SeekRequests /\ submitted' = <<>>
    BY <1>7, OneSubmitted, ItemTypes DEF TakeSeek
  <2> HIDE DEF r
  <2>2. seek' \in SeekRecords
    BY <1>7, <2>1 DEF TakeSeek, WorkerTypes, SeekStates, SeekRecords, r
  <2>3. submitted' \in Seq(Items) /\ Len(submitted') <= 1
    BY <2>1, EmptySeq
  <2> QED
    BY <1>7, <2>2, <2>3 DEF TakeSeek, WorkerTypes
<1>8. CASE NothingSubmitted
  BY <1>8 DEF NothingSubmitted, WorkerTypes, view, display
<1>9. CASE LoadReply
  <2>1. load' \in LoadRecords
    BY <1>9, LoadTypes DEF LoadReply, WorkerTypes, RequestPlace
  <2> QED
    BY <1>9, <2>1 DEF LoadReply, WorkerTypes, display
<1>10. CASE LoadDeadline
  <2>1. load' \in LoadRecords
    BY <1>10, LoadTypes DEF LoadDeadline, WorkerTypes
  <2> QED
    BY <1>10, <2>1 DEF LoadDeadline, WorkerTypes, display
<1>11. CASE SeekReply \/ SeekDeadline
  <2>1. seek' \in SeekRecords
    BY <1>11 DEF SeekReply, SeekDeadline, WorkerTypes, SeekStates, SeekRecords
  <2> QED
    BY <1>11, <2>1 DEF SeekReply, SeekDeadline, WorkerTypes, display
<1>12. CASE Finish
  <2>1. views' \in Seq(Selections) /\ Len(views') <= ViewCapacity
    <3>1. View \in Selections
      BY Bounds DEF View, WorkerTypes, LoadRecords, Selections
    <3> QED
      BY <1>12, <3>1, Pushing, DeckBounds DEF Finish, Pushed, WorkerTypes
  <2> QED
    BY <1>12, <2>1 DEF Finish, WorkerTypes, view, Settled
<1>13. CASE Player
  <2>1. UNCHANGED <<display, views, worker>>
    BY <1>13 DEF Player, PlayerAcceptsLoad, PlayerAcceptsSeek, PlayerRejects, OtherLoad, PlayerPrepares,
       PlayerCommits, PlayerFails, PlayerUnloads, PlayerSeeks, PlayerReadFails, PlayerPlays, PlayerStops,
       PlayerStarts
  <2> QED
    BY <2>1 DEF WorkerTypes, display, worker, view
<1>14. CASE UNCHANGED deckVars
  BY <1>14 DEF WorkerTypes, deckVars, display, worker, view
<1> QED
  BY <1>1, <1>2, <1>3, <1>4, <1>5, <1>6, <1>7, <1>8, <1>9, <1>10, <1>11, <1>12, <1>13, <1>14
     DEF Next, Display, Worker

LEMMA PlayerMoves == Player => UNCHANGED <<display, statuses, views, worker, forsaken>>
BY DEF Player, PlayerAcceptsLoad, PlayerAcceptsSeek, PlayerRejects, OtherLoad, PlayerPrepares, PlayerCommits,
       PlayerFails, PlayerUnloads, PlayerSeeks, PlayerReadFails, PlayerPlays, PlayerStops, PlayerStarts,
       Issue, history

LEMMA PlayerRests ==
  ASSUME Display \/ Publish \/ Worker PROVE UNCHANGED <<player, source, fate, sought, events>>
<1>1. CASE Display
  BY <1>1 DEF Display, Submit, SubmitSeek, Admit, Poll, history
<1>2. CASE Publish
  BY <1>2 DEF Publish, history
<1>3. CASE Worker
  BY <1>3 DEF Worker, DrainStatus, CheckClocks, TakeSelection, TakeSeek, LoadReply, LoadDeadline, SeekReply,
              SeekDeadline, NothingSubmitted, Finish, history
<1> QED
  BY <1>1, <1>2, <1>3

(* The request under way is one of its kind. *)
LEMMA RequestTypes ==
  ASSUME StreamTypes
  PROVE  /\ rpc.at \in Underway => rpc.kind \in {"load", "seek"}
         /\ rpc.at \in Underway /\ rpc.kind = "load" =>
              rpc.selection \in Operations /\ rpc.at \in Underway
         /\ rpc.at \in Underway /\ rpc.kind = "seek" => rpc.frame \in Frames
         /\ rpc.at = "answered" => rpc.id \in Nat
         /\ rpc.at \in Underway \cup {"answered", "none"}
BY DEF StreamTypes, Requests, Underway, NoRpc

LEMMA MovedRequest ==
  ASSUME StreamTypes, NEW at \in Underway, rpc.at \in Underway
  PROVE  /\ [rpc EXCEPT !.at = at] \in Requests
         /\ [rpc EXCEPT !.at = at].at = at /\ [rpc EXCEPT !.at = at].kind = rpc.kind
         /\ rpc.kind = "load" => [rpc EXCEPT !.at = at].selection = rpc.selection
BY DEF StreamTypes, Requests, Underway, NoRpc

LEMMA StreamTypesStep == ASSUME DeckInv, [Next]_deckVars PROVE StreamTypes'
<1> USE DEF DeckInv, DeckTypeOK
<1>1. CASE Publish
  BY <1>1, Pushing, DeckBounds DEF Publish, StreamTypes, PlayerTypes, Players, worker, view
<1>2. CASE DrainStatus
  BY <1>2, Popped, DeckBounds DEF DrainStatus, StreamTypes
<1>3. CASE Display
  BY <1>3 DEF Display, Submit, SubmitSeek, Admit, Poll, StreamTypes
<1>4. CASE (\E silent, expired \in BOOLEAN : CheckClocks(silent, expired)) \/ NothingSubmitted \/ Finish
  BY <1>4 DEF CheckClocks, NothingSubmitted, Finish, StreamTypes
<1>5. CASE TakeSelection
  <2>1. rpc' = rpc \/ rpc' = [at |-> Sent, kind |-> "load", selection |-> Head(submitted).selection]
    BY <1>5 DEF TakeSelection
  <2>2. Head(submitted).selection \in Operations
    BY <1>5, OneSubmitted, ItemTypes DEF TakeSelection
  <2>3. rpc' \in Requests
    BY <2>1, <2>2 DEF StreamTypes, Requests, Sent, Underway
  <2> QED
    BY <1>5, <2>3 DEF TakeSelection, StreamTypes
<1>6. CASE TakeSeek
  <2>1. rpc' = rpc \/ rpc' = [at |-> Sent, kind |-> "seek", frame |-> Head(submitted).request.frame]
    BY <1>6 DEF TakeSeek
  <2>2. Head(submitted).request.frame \in Frames
    BY <1>6, OneSubmitted, ItemTypes DEF TakeSeek, SeekRequests
  <2>3. rpc' \in Requests
    BY <2>1, <2>2 DEF StreamTypes, Requests, Sent, Underway
  <2> QED
    BY <1>6, <2>3 DEF TakeSeek, StreamTypes
<1>7. CASE LoadReply \/ SeekReply \/ LoadDeadline \/ SeekDeadline
  <2>1. rpc' = NoRpc \/ (rpc.at = "sent" /\ rpc' = [rpc EXCEPT !.at = "late"])
    BY <1>7 DEF LoadReply, SeekReply, LoadDeadline, SeekDeadline, Overdue
  <2>2. rpc' \in Requests
    BY <2>1, MovedRequest DEF Requests, Underway
  <2> QED
    BY <1>7, <2>2 DEF LoadReply, SeekReply, LoadDeadline, SeekDeadline, StreamTypes
<1>8. CASE Player
  <2>1. statuses' = statuses
    BY <1>8, PlayerMoves
  <2>2. \/ rpc' = rpc \/ rpc' = NoRpc
        \/ rpc.at \in Underway /\ rpc' = [rpc EXCEPT !.at = "lost"]
        \/ \E id \in Nat : rpc' = [at |-> "answered", id |-> id]
    <3>1. player.issued + 1 \in Nat
      BY Bounds DEF PlayerTypes, Players, Ids
    <3>2. CASE PlayerStops
      BY <3>2 DEF PlayerStops, Underway
    <3>3. CASE PlayerAcceptsLoad \/ PlayerAcceptsSeek \/ PlayerRejects
      BY <3>3, <3>1 DEF PlayerAcceptsLoad, PlayerAcceptsSeek, PlayerRejects, Answered
    <3>4. CASE ~ PlayerStops /\ ~ (PlayerAcceptsLoad \/ PlayerAcceptsSeek \/ PlayerRejects)
      BY <1>8, <3>4 DEF Player, OtherLoad, PlayerPrepares, PlayerCommits, PlayerFails, PlayerUnloads,
                        PlayerSeeks, PlayerReadFails, PlayerPlays, PlayerStarts
    <3> QED
      BY <3>2, <3>3, <3>4
  <2>3. rpc' \in Requests
    BY <2>2, MovedRequest DEF StreamTypes, Requests, Underway
  <2> QED
    BY <2>1, <2>3 DEF StreamTypes
<1>9. CASE UNCHANGED deckVars
  BY <1>9 DEF StreamTypes, deckVars
<1> QED
  BY <1>1, <1>2, <1>3, <1>4, <1>5, <1>6, <1>7, <1>8, <1>9 DEF Next, Worker

LEMMA Generation ==
  ASSUME NEW y \in SampleSet, NEW frame \in Frames
  PROVE  LET e == NewGeneration(y, frame)
         IN e \in SampleSet /\ e.session = y.session /\ e.gen = y.gen + 1 /\ e.at = frame
            /\ e.id = y.id /\ e.track = y.track /\ e.progress = y.progress
<1>1. y.gen + 1 \in Nat
  BY DEF SampleSet
<1> DEFINE n == y.gen + 1
<1> HIDE DEF n
<1>2. LET e == [y EXCEPT !.gen = n, !.at = frame, !.broken = FALSE]
      IN e \in SampleSet /\ e.session = y.session /\ e.gen = n /\ e.at = frame
         /\ e.id = y.id /\ e.track = y.track /\ e.progress = y.progress
  BY <1>1 DEF SampleSet, n
<1> QED
  BY <1>2 DEF n, NewGeneration

LEMMA Unloaded ==
  ASSUME NEW y \in SampleSet
  PROVE  LET e == [NewGeneration(y, 0) EXCEPT !.track = 0]
         IN e \in SampleSet /\ e.session = y.session /\ e.gen = y.gen + 1 /\ e.at = 0
            /\ e.id = y.id /\ e.track = 0 /\ e.progress = y.progress
<1> DEFINE g == NewGeneration(y, 0)
<1>1. /\ g \in SampleSet /\ g.session = y.session /\ g.gen = y.gen + 1 /\ g.at = 0
      /\ g.id = y.id /\ g.progress = y.progress
  BY Bounds, Generation
<1> HIDE DEF g
<1>2. LET e == [g EXCEPT !.track = 0]
      IN e \in SampleSet /\ e.session = y.session /\ e.gen = y.gen + 1 /\ e.at = 0
         /\ e.id = y.id /\ e.track = 0 /\ e.progress = y.progress
  BY <1>1, Bounds DEF SampleSet
<1> QED
  BY <1>2 DEF g

LEMMA Committed ==
  ASSUME NEW y \in SampleSet, NEW t \in Ids
  PROVE  LET e == [NewGeneration(y, 0) EXCEPT !.id = t, !.progress = "committed", !.track = t]
         IN e \in SampleSet /\ e.session = y.session /\ e.gen = y.gen + 1 /\ e.at = 0
            /\ e.id = t /\ e.track = t /\ e.progress = "committed"
<1> DEFINE g == NewGeneration(y, 0)
<1>1. g \in SampleSet /\ g.session = y.session /\ g.gen = y.gen + 1 /\ g.at = 0
  BY Bounds, Generation
<1> HIDE DEF g
<1>2. LET e == [g EXCEPT !.id = t, !.progress = "committed", !.track = t]
      IN e \in SampleSet /\ e.session = y.session /\ e.gen = y.gen + 1 /\ e.at = 0
         /\ e.id = t /\ e.track = t /\ e.progress = "committed"
  BY <1>1, Bounds DEF SampleSet, Progress, Outcomes
<1> QED
  BY <1>2 DEF g

LEMMA SampleTypes ==
  ASSUME PlayerTypes
  PROVE  /\ player.sample \in SampleSet /\ player.sample.session \in Sessions /\ player.issued \in Ids
         /\ player.candidate \in Ids /\ player.seekTo \subseteq Frames
         /\ \A x \in Withdrawn : x \in SampleSet /\ x.session = player.sample.session
<1>1. /\ player.sample \in SampleSet /\ player.sample.session \in Sessions /\ player.issued \in Ids
      /\ player.candidate \in Ids /\ player.seekTo \subseteq Frames
  BY DEF PlayerTypes, Players
<1>2. [player.sample EXCEPT !.id = player.candidate, !.progress = "cancelled"] \in SampleSet
  BY <1>1 DEF SampleSet, Progress, Outcomes
<1>3. [player.sample EXCEPT !.id = player.candidate, !.progress = "cancelled"].session = player.sample.session
  BY <1>1 DEF SampleSet
<1> QED
  BY <1>1, <1>2, <1>3 DEF Withdrawn

LEMMA EndedTypes ==
  ASSUME PlayerTypes, NEW o, NEW outcome \in Outcomes, Ended(o, outcome)
  PROVE  fate' \in [Operations -> {"none"} \cup Outcomes]
BY DEF PlayerTypes, Ended

LEMMA IssueTypes ==
  ASSUME PlayerTypes, NEW o \in Selections, NEW x \in SampleSet, x.session \in Sessions, Issue(o, x)
  PROVE  /\ player' \in Players /\ player'.sample = x /\ player'.up = player.up
         /\ player'.issued = player.issued + 1 /\ player'.candidate = player.issued + 1
         /\ player'.seekTo = {}
         /\ source' \in [Sessions -> [Loads -> Selections]]
         /\ player.issued + 1 \in Loads /\ player.issued + 1 \in Ids
<1>1. player.issued + 1 \in Loads /\ player.issued + 1 \in Ids
  BY Bounds DEF Issue, PlayerTypes, Players, Ids, Loads
<1>2. /\ player' \in Players /\ player'.sample = x /\ player'.up = player.up
      /\ player'.issued = player.issued + 1 /\ player'.candidate = player.issued + 1
      /\ player'.seekTo = {}
  BY <1>1 DEF Issue, PlayerTypes, Players
<1>3. source' \in [Sessions -> [Loads -> Selections]]
  BY <1>1 DEF Issue, PlayerTypes
<1> QED
  BY <1>1, <1>2, <1>3

LEMMA PlayerTypesStep == ASSUME DeckInv, [Next]_deckVars PROVE PlayerTypes'
<1> USE DEF DeckInv, DeckTypeOK
<1>0. forsaken' \in BOOLEAN
  <2>1. CASE DrainStatus
    BY <2>1 DEF DrainStatus
  <2>2. CASE ~ DrainStatus
    BY <2>2, PlayerMoves DEF Next, Display, Submit, SubmitSeek, Admit, Poll, Publish, Worker, CheckClocks,
       TakeSelection, TakeSeek, LoadReply, LoadDeadline, SeekReply, SeekDeadline, NothingSubmitted, Finish,
       history, deckVars, PlayerTypes
  <2> QED
    BY <2>1, <2>2
<1>1. CASE Display \/ Publish \/ Worker \/ UNCHANGED deckVars
  BY <1>0, <1>1, PlayerRests DEF PlayerTypes, deckVars, history
<1> USE DEF Outcomes
<1> DEFINE x == player.sample
<1>2. CASE PlayerAcceptsLoad
  <2>1. rpc.selection \in Selections /\ Issue(rpc.selection, x)
    BY <1>2, RequestTypes DEF PlayerAcceptsLoad, Asked, Underway, Operations, Selections
  <2> QED
    BY <1>0, <1>2, <2>1, SampleTypes, IssueTypes DEF PlayerAcceptsLoad, PlayerTypes
<1>3. CASE PlayerAcceptsSeek
  BY <1>0, <1>3, SampleTypes, RequestTypes DEF PlayerAcceptsSeek, Asked, Underway, PlayerTypes, Players, history
<1>4. CASE PlayerRejects \/ PlayerStops
  <2>1. player' \in Players /\ player'.sample = x /\ (player'.up \/ x.session < MaxSessions)
    BY <1>4 DEF PlayerRejects, PlayerStops, PlayerTypes, Players
  <2>2. events' \in Nat
    BY <1>4 DEF PlayerRejects, PlayerStops, Event, PlayerTypes
  <2> QED
    BY <1>0, <1>4, <2>1, <2>2 DEF PlayerRejects, PlayerStops, PlayerTypes, history
<1>5. CASE OtherLoad
  <2>1. PICK y \in Withdrawn : Issue(0, y)
    BY <1>5 DEF OtherLoad
  <2>2. y \in SampleSet /\ y.session \in Sessions
    BY <2>1, SampleTypes
  <2>3. fate' \in [Operations -> {"none"} \cup Outcomes]
    BY <1>5, EndedTypes DEF OtherLoad, Withdraw, PlayerTypes
  <2> QED
    <3>1. 0 \in Selections
      BY Bounds DEF Selections
    <3>2. player' \in Players /\ player'.sample = y /\ player'.up = player.up
          /\ source' \in [Sessions -> [Loads -> Selections]]
      BY <2>1, <2>2, <3>1, IssueTypes
    <3> QED
      BY <1>0, <1>5, <2>2, <2>3, <3>2 DEF OtherLoad, Event, PlayerTypes
<1>6. CASE PlayerPrepares
  BY <1>0, <1>6, SampleTypes DEF PlayerPrepares, PlayerTypes, Players, SampleSet, Progress, history
<1>7. CASE PlayerCommits
  <2> DEFINE e == [NewGeneration(x, 0) EXCEPT !.id = player.candidate, !.progress = "committed",
                                              !.track = player.candidate]
  <2>1. player' = [player EXCEPT !.candidate = 0, !.sample = e] /\ player.up
    BY <1>7 DEF PlayerCommits
  <2>2. e \in SampleSet /\ e.session = x.session
    BY Committed, SampleTypes
  <2> HIDE DEF e
  <2>3. player' \in Players /\ player'.sample.session = x.session /\ player'.up
    BY <2>1, <2>2, Bounds DEF PlayerTypes, Players
  <2> QED
    BY <1>0, <1>7, <2>3, EndedTypes DEF PlayerCommits, PlayerTypes
<1>8. CASE PlayerFails
  <2>1. player' \in Players /\ player'.sample.session = x.session /\ player'.up
    BY <1>8, SampleTypes, Bounds DEF PlayerFails, PlayerTypes, Players, SampleSet, Progress, history
  <2> QED
    BY <1>0, <1>8, <2>1, EndedTypes DEF PlayerFails, PlayerTypes
<1>9. CASE PlayerUnloads
  <2>1. PICK y \in Withdrawn :
          player' = [player EXCEPT !.candidate = 0, !.seekTo = {},
                                   !.sample = [NewGeneration(y, 0) EXCEPT !.track = 0]]
    BY <1>9 DEF PlayerUnloads
  <2> DEFINE e == [NewGeneration(y, 0) EXCEPT !.track = 0]
  <2>2. y \in SampleSet /\ y.session \in Sessions
    BY <2>1, SampleTypes
  <2>3. e \in SampleSet /\ e.session = y.session
    BY <2>2, Unloaded
  <2> HIDE DEF e
  <2>4. player' = [player EXCEPT !.candidate = 0, !.seekTo = {}, !.sample = e] /\ player.up
    BY <1>9, <2>1 DEF PlayerUnloads, e
  <2>5. player' \in Players /\ player'.sample.session \in Sessions /\ player'.up
    BY <2>2, <2>3, <2>4, Bounds DEF PlayerTypes, Players
  <2>6. fate' \in [Operations -> {"none"} \cup Outcomes]
    BY <1>9, EndedTypes DEF PlayerUnloads, Withdraw, PlayerTypes
  <2> QED
    BY <1>0, <1>9, <2>5, <2>6 DEF PlayerUnloads, Event, PlayerTypes
<1>10. CASE PlayerSeeks
  <2>1. PICK frame \in player.seekTo :
          /\ player' = [player EXCEPT !.seekTo = {}, !.sample = NewGeneration(x, frame)]
          /\ sought' = sought \union {[session |-> x.session, frame |-> frame,
                                    track |-> x.track, gen |-> x.gen + 1]}
    BY <1>10 DEF PlayerSeeks
  <2> DEFINE e == NewGeneration(x, frame)
  <2>2. frame \in Frames
    BY SampleTypes
  <2>5. e \in SampleSet /\ e.session = x.session
    BY <2>2, SampleTypes, Generation
  <2> HIDE DEF e
  <2>6. player' = [player EXCEPT !.seekTo = {}, !.sample = e] /\ player.up
    BY <1>10, <2>1 DEF PlayerSeeks, e
  <2>3. player' \in Players /\ player'.sample.session = x.session /\ player'.up
    BY <2>5, <2>6 DEF PlayerTypes, Players
  <2>4. [session |-> x.session, frame |-> frame, track |-> x.track, gen |-> x.gen + 1]
          \in [session : Sessions, frame : Frames, track : Ids, gen : Nat]
    BY <2>2, SampleTypes DEF SampleSet
  <2> QED
    BY <1>0, <1>10, <2>1, <2>3, <2>4 DEF PlayerSeeks, PlayerTypes
<1>11. CASE PlayerReadFails \/ PlayerPlays
  <2>1. player' \in Players /\ player'.sample.session = x.session /\ player'.up
    <3>1. CASE PlayerReadFails
      <4>1. PICK seekTo \in {{}, player.seekTo} :
              player' = [player EXCEPT !.sample.broken = TRUE, !.seekTo = seekTo]
        BY <3>1 DEF PlayerReadFails
      <4>2. [x EXCEPT !.broken = TRUE] \in SampleSet /\ [x EXCEPT !.broken = TRUE].session = x.session
        BY SampleTypes DEF SampleSet
      <4> QED
        BY <3>1, <4>1, <4>2, SampleTypes DEF PlayerReadFails, PlayerTypes, Players
    <3>2. CASE PlayerPlays
      <4>1. [x EXCEPT !.playing = ~ @] \in SampleSet /\ [x EXCEPT !.playing = ~ @].session = x.session
        BY SampleTypes DEF SampleSet
      <4> QED
        BY <3>2, <4>1, SampleTypes DEF PlayerPlays, PlayerTypes, Players
    <3> QED
      BY <1>11, <3>1, <3>2
  <2>2. events' \in Nat
    BY <1>11 DEF PlayerReadFails, PlayerPlays, Event, PlayerTypes
  <2> QED
    BY <1>0, <1>11, <2>1, <2>2 DEF PlayerReadFails, PlayerPlays, PlayerTypes, history
<1>12. CASE PlayerStarts
  <2>1. x.session + 1 \in Sessions
    BY <1>12, SampleTypes, Bounds DEF PlayerStarts, Sessions, PlayerTypes
  <2>2. [NoSample EXCEPT !.session = x.session + 1] \in SampleSet
    <3>1. x.session + 1 \in 0 .. MaxSessions
      BY <2>1, Bounds DEF Sessions
    <3> QED
      BY <3>1, Bounds DEF NoSample, SampleSet, Progress
  <2>3. [NoSample EXCEPT !.session = x.session + 1].session = x.session + 1
    BY DEF NoSample
  <2>4. player' \in Players /\ player'.sample.session \in Sessions /\ player'.up
    BY <1>12, <2>1, <2>2, <2>3, Bounds DEF PlayerStarts, NewPlayer, Players
  <2> QED
    BY <1>0, <1>12, <2>4 DEF PlayerStarts, PlayerTypes, history
<1> QED
  BY <1>1, <1>2, <1>3, <1>4, <1>5, <1>6, <1>7, <1>8, <1>9, <1>10, <1>11, <1>12 DEF Next, Player

LEMMA DeckTypeStep == ASSUME DeckInv, [Next]_deckVars PROVE DeckTypeOK'
BY WorkerTypesStep, StreamTypesStep, PlayerTypesStep DEF DeckTypeOK

-----------------------------------------------------------------------------
(* What the worker's steps do                                              *)

LEMMA Drained ==
  ASSUME StreamTypes, DrainStatus
  PROVE  /\ last' = statuses[1] /\ last' \in SampleSet /\ last' \in Told /\ Told' \subseteq Told
         /\ 1 \in DOMAIN statuses
         /\ \A i \in DOMAIN statuses' : i + 1 \in DOMAIN statuses /\ statuses'[i] = statuses[i + 1]
         /\ uncertain' = (uncertain \/ RolledBack(last'))
<1> DEFINE q == statuses
<1>1. /\ Head(q) \in SampleSet /\ Head(q) = q[1] /\ Tail(q) \in Seq(SampleSet)
      /\ Len(q) \in Nat \ {0}
      /\ \A i \in 1 .. Len(Tail(q)) : i + 1 \in 1 .. Len(q) /\ Tail(q)[i] = q[i + 1]
  BY Popped DEF DrainStatus, StreamTypes
<1>2. DOMAIN q = 1 .. Len(q) /\ DOMAIN Tail(q) = 1 .. Len(Tail(q))
  BY <1>1, LenProperties DEF StreamTypes
<1>3. last' = q[1] /\ statuses' = Tail(q) /\ uncertain' = (uncertain \/ RolledBack(last'))
  BY <1>1 DEF DrainStatus
<1>4. 1 \in DOMAIN q
  BY <1>1, <1>2
<1>5. Told' \subseteq Told
  <2> SUFFICES ASSUME NEW i \in DOMAIN statuses' PROVE statuses'[i] \in Told
    BY DEF Told
  <2> QED
    BY <1>1, <1>2, <1>3 DEF Told
<1> QED
  BY <1>1, <1>2, <1>3, <1>4, <1>5 DEF Told

LEMMA DrainedLoad ==
  ASSUME WorkerTypes, DrainStatus
  PROVE  /\ load'.selection = load.selection /\ load'.id = load.id
         /\ \/ load' = load
            \/ /\ InFlight(load) /\ uncertain'
               /\ load'.state = "OutcomeUnknown" /\ load'.outcome = load.outcome
            \/ /\ ~ uncertain' /\ Concerns(load, last') /\ Malformed(load, last')
               /\ load'.state = "InvalidReply" /\ load'.outcome = load.outcome
            \/ /\ ~ uncertain' /\ Concerns(load, last') /\ ~ Malformed(load, last')
               /\ load'.outcome = last'.progress
               /\ load'.state = IF last'.progress \in Outcomes THEN "Terminal" ELSE load.state
<1> DEFINE s == Head(statuses)
           before == IF RolledBack(s) THEN OutcomeUnknown(load) ELSE load
<1>1. /\ last' = s /\ uncertain' = (uncertain \/ RolledBack(s))
      /\ load' = IF uncertain' THEN before ELSE Observe(before, s)
  BY DEF DrainStatus
<1>2. load \in LoadRecords
  BY DEF WorkerTypes
<1> HIDE DEF s
<1>3. CASE uncertain' /\ RolledBack(s)
  BY <1>1, <1>2, <1>3 DEF OutcomeUnknown, LoadRecords
<1>4. CASE uncertain' /\ ~ RolledBack(s)
  BY <1>1, <1>4
<1>5. CASE ~ uncertain'
  <2>1. load' = Observe(load, last') /\ ~ RolledBack(s)
    BY <1>1, <1>5
  <2>2. CASE ~ Concerns(load, last')
    BY <2>1, <2>2 DEF Observe
  <2>3. CASE Concerns(load, last') /\ Malformed(load, last')
    BY <2>1, <2>3, <1>2, <1>5 DEF Observe, LoadRecords
  <2>4. CASE Concerns(load, last') /\ ~ Malformed(load, last')
    BY <2>1, <2>4, <1>2, <1>5 DEF Observe, LoadRecords
  <2> QED
    BY <2>2, <2>3, <2>4
<1> QED
  BY <1>1, <1>3, <1>4, <1>5

LEMMA DrainedSeek ==
  ASSUME WorkerTypes, PlayerTypes, DrainStatus
  PROVE  /\ seek'.request = seek.request /\ (forsaken => forsaken')
         /\ \/ seek'.on = seek.on
            \/ /\ seek.on /\ ~ seek'.on /\ ~ uncertain' /\ last'.track = seek.request.track
               /\ \/ seek'.state = "PositionObserved" /\ Reached(last')
                  \/ /\ seek'.state = "Failed"
                     /\ forsaken' \/ (~ Asking /\ ~ Queued /\ Unseen(last') = {})
<1>1. seek \in SeekRecords /\ forsaken \in BOOLEAN
  BY DEF WorkerTypes, PlayerTypes
<1>2. seek' = IF seek.on /\ ~ uncertain' THEN SeekAfter(last') ELSE seek
  BY DEF DrainStatus
<1>3. forsaken' = (forsaken \/ (seek.on /\ ~ seek'.on /\ seek'.state = "Failed"
                                /\ (Queued \/ Asking \/ Unseen(last') # {})))
  BY DEF DrainStatus, Pending, Queued, Asking
<1>4. CASE seek.on /\ ~ uncertain' /\ seek' = SeekAfter(last')
  <2>1. CASE last'.track # seek.request.track \/ last'.playing
    BY <1>1, <1>3, <1>4, <2>1 DEF SeekAfter, SeekRecords
  <2>2. CASE ~ (last'.track # seek.request.track \/ last'.playing) /\ last'.broken
    BY <1>1, <1>3, <1>4, <2>2 DEF SeekAfter, SeekRecords
  <2>3. CASE ~ (last'.track # seek.request.track \/ last'.playing) /\ ~ last'.broken
    BY <1>1, <1>3, <1>4, <2>3 DEF SeekAfter, SeekRecords
  <2> QED
    BY <2>1, <2>2, <2>3
<1>5. CASE seek' = seek
  BY <1>1, <1>3, <1>5
<1> QED
  BY <1>2, <1>4, <1>5

LEMMA Checked ==
  ASSUME WorkerTypes, NEW silent \in BOOLEAN, NEW expired \in BOOLEAN, CheckClocks(silent, expired)
  PROVE  /\ load'.selection = load.selection /\ load'.id = load.id /\ load'.outcome = load.outcome
         /\ load'.state = load.state \/ (InFlight(load) /\ load'.state = "OutcomeUnknown")
         /\ seek'.on = seek.on /\ seek'.request = seek.request
         /\ uncertain' = (uncertain \/ (~ connected' /\ DependsOnSession))
         /\ ~ connected' => ~ InFlight(load')
         /\ connected' => fresh \/ connected
<1>1. seek \in SeekRecords /\ load \in LoadRecords
  BY DEF WorkerTypes
<1>2. PICK online \in BOOLEAN :
        /\ online = (fresh \/ (connected /\ ~ silent))
        /\ connected' = online /\ uncertain' = LostSession(online)
        /\ load' = IF GivenUp(online, expired) THEN OutcomeUnknown(load) ELSE load
        /\ seek' = IF seek.on /\ (GivenUp(online, expired) \/ uncertain')
                   THEN [seek EXCEPT !.state = "OutcomeUnknown"] ELSE seek
  BY DEF CheckClocks, WorkerTypes
<1>3. seek'.on = seek.on /\ seek'.request = seek.request
  BY <1>1, <1>2 DEF SeekRecords
<1>4. /\ load'.selection = load.selection /\ load'.id = load.id /\ load'.outcome = load.outcome
      /\ load'.state = load.state \/ (InFlight(load) /\ load'.state = "OutcomeUnknown")
      /\ ~ online => ~ InFlight(load')
  BY <1>1, <1>2 DEF OutcomeUnknown, LoadRecords, InFlight, GivenUp
<1> QED
  BY <1>2, <1>3, <1>4 DEF LostSession

LEMMA Idle ==
  ASSUME WorkerTypes, Slot, submitted # <<>>
  PROVE  ~ active /\ ~ seek.on /\ ~ LoadOpen /\ ~ uncertain /\ occupied
BY DEF WorkerTypes, Slot

LEMMA TakenLoad ==
  ASSUME WorkerTypes, Slot, TakeSelection
  PROVE  LET s == submitted[1]
         IN /\ submitted # <<>> /\ s.kind = "load" /\ s.selection \in Operations /\ submitted' = <<>>
            /\ load'.selection = s.selection /\ load'.id = 0 /\ load'.outcome = "idle"
            /\ seek'.on = seek.on /\ seek'.request = seek.request
            /\ \/ /\ load'.state = "AwaitingAcceptance" /\ pc' = "loading" /\ connected
                  /\ rpc' = [at |-> Sent, kind |-> "load", selection |-> s.selection]
               \/ /\ load'.state \in {"ValidationFailed", "Unavailable"} /\ pc' = "finish" /\ rpc' = rpc
<1> DEFINE s == Head(submitted)
           begun == Begin(load, s.selection, s.valid)
<1>1. /\ submitted # <<>> /\ s.kind = "load" /\ s = submitted[1] /\ submitted' = <<>>
      /\ s \in Items
  BY OneSubmitted DEF TakeSelection
<1>2. s.selection \in Operations /\ s.valid \in BOOLEAN
  BY <1>1, ItemTypes
<1>3. ~ InFlight(load) /\ ~ Unresolved(load)
  BY <1>1, Idle DEF LoadOpen
<1>4. seek'.on = seek.on /\ seek'.request = seek.request
  BY DEF TakeSelection, WorkerTypes, SeekRecords
<1>5. /\ begun.selection = s.selection /\ begun.id = 0 /\ begun.outcome = "idle"
      /\ begun.state = (IF s.valid THEN "AwaitingAcceptance" ELSE "ValidationFailed")
      /\ begun = [NewLoad EXCEPT !.selection = s.selection, !.state = begun.state]
  BY <1>3 DEF Begin, NewLoad
<1>6. begun.state = "AwaitingAcceptance" => begun # load
  BY <1>3 DEF InFlight
<1> DEFINE sends == begun # load /\ begun.state = "AwaitingAcceptance"
<1>7. /\ load' = IF sends /\ ~ connected THEN UnavailableBeforeSend(begun) ELSE begun
      /\ \/ /\ sends /\ connected
            /\ rpc' = [at |-> Sent, kind |-> "load", selection |-> s.selection]
            /\ pc' = "loading"
         \/ ~ (sends /\ connected) /\ pc' = "finish" /\ rpc' = rpc
  BY DEF TakeSelection
<1>8. begun.state = "AwaitingAcceptance" =>
        /\ UnavailableBeforeSend(begun).selection = s.selection
        /\ UnavailableBeforeSend(begun).id = 0 /\ UnavailableBeforeSend(begun).outcome = "idle"
        /\ UnavailableBeforeSend(begun).state = "Unavailable"
  BY <1>5 DEF UnavailableBeforeSend, NewLoad
<1> HIDE DEF s, begun
<1>9. /\ load'.selection = s.selection /\ load'.id = 0 /\ load'.outcome = "idle"
  BY <1>5, <1>7, <1>8
<1>10. \/ /\ load'.state = "AwaitingAcceptance" /\ pc' = "loading" /\ connected
          /\ rpc' = [at |-> Sent, kind |-> "load", selection |-> s.selection]
       \/ /\ load'.state \in {"ValidationFailed", "Unavailable"} /\ pc' = "finish" /\ rpc' = rpc
  <2>1. CASE s.valid /\ connected
    BY <1>2, <1>5, <1>6, <1>7, <2>1
  <2>2. CASE ~ (s.valid /\ connected)
    BY <1>2, <1>5, <1>6, <1>7, <1>8, <2>2
  <2> QED
    BY <2>1, <2>2
<1> QED
  BY <1>1, <1>2, <1>4, <1>9, <1>10

LEMMA TakenSeek ==
  ASSUME WorkerTypes, Slot, TakeSeek
  PROVE  LET r == submitted[1].request
         IN /\ submitted # <<>> /\ submitted[1].kind = "seek" /\ r \in SeekRequests
            /\ submitted' = <<>> /\ seek'.request = r
            /\ \/ pc' = "finish" /\ rpc' = rpc /\ ~ seek'.on
               \/ /\ pc' = "seeking" /\ seek'.on /\ connected /\ ~ uncertain /\ Seekable(r)
                  /\ rpc' = [at |-> Sent, kind |-> "seek", frame |-> r.frame]
<1> DEFINE r == Head(submitted).request
<1>1. /\ submitted # <<>> /\ Head(submitted) = submitted[1] /\ Head(submitted).kind = "seek"
      /\ submitted' = <<>> /\ r \in SeekRequests
  BY OneSubmitted, ItemTypes DEF TakeSeek
<1>2. ~ seek.on
  BY <1>1, Idle
<1>3. seek'.request = r
  BY DEF TakeSeek, WorkerTypes, SeekRecords
<1>4. \/ pc' = "finish" /\ rpc' = rpc /\ ~ seek'.on
      \/ /\ pc' = "seeking" /\ seek'.on /\ connected /\ ~ uncertain /\ Seekable(r)
         /\ rpc' = [at |-> Sent, kind |-> "seek", frame |-> r.frame]
  BY <1>2 DEF TakeSeek, WorkerTypes, SeekRecords
<1> QED
  BY <1>1, <1>3, <1>4

(* A reply is accepted: the load is rejected or waits for its end. *)
LEMMA Replied ==
  ASSUME WorkerTypes, Slot, LoadReply
  PROVE  /\ load'.selection = load.selection /\ load'.outcome = load.outcome
         /\ \/ rpc.id # 0 /\ load'.state = "AwaitingCompletion" /\ load'.id = rpc.id
            \/ rpc.id = 0 /\ load'.state = "Rejected" /\ load'.id = load.id
<1>1. load.state = "AwaitingAcceptance" /\ load \in LoadRecords
  BY DEF LoadReply, Slot, WorkerTypes
<1>2. load' = Accept(load, rpc.id # 0, rpc.id)
  BY DEF LoadReply
<1>3. CASE rpc.id = 0
  BY <1>1, <1>2, <1>3 DEF Accept, LoadRecords
<1>4. CASE rpc.id # 0
  BY <1>1, <1>2, <1>4 DEF Accept, LoadRecords
<1> QED
  BY <1>3, <1>4

LEMMA Overran ==
  ASSUME WorkerTypes, Slot, LoadDeadline
  PROVE  load'.selection = load.selection /\ load'.outcome = load.outcome /\ load'.id = load.id
         /\ load'.state = "OutcomeUnknown"
BY DEF LoadDeadline, Slot, WorkerTypes, OutcomeUnknown, InFlight, LoadRecords

LEMMA SeekEnded ==
  ASSUME WorkerTypes, SeekReply \/ SeekDeadline
  PROVE  /\ seek'.request = seek.request
         /\ seek'.on = (seek.on /\ ~ (SeekReply /\ rpc.id = 0))
BY DEF SeekReply, SeekDeadline, WorkerTypes, SeekRecords

-----------------------------------------------------------------------------
(* The slot and what was seen                                              *)

LEMMA Submitting ==
  ASSUME DeckInv, (\E valid \in BOOLEAN : Submit(valid)) \/ (\E frame \in Targets : SubmitSeek(frame))
  PROVE  /\ ~ occupied /\ occupied' /\ submitted = <<>> /\ used' = used + 1
         /\ submitted' \in Seq(Items) /\ submitted'[1] \in Items
         /\ submitted'[1].kind = "load" => submitted'[1].selection = used + 1
         /\ UNCHANGED <<shown, statuses, views, worker, rpc, player, history, events>>
<1> USE DEF DeckInv, DeckTypeOK
<1>0. submitted = <<>>
  BY DEF Submit, SubmitSeek, Admit, SlotFree, Slot
<1>1. CASE \E valid \in BOOLEAN : Submit(valid)
  <2>1. PICK valid \in BOOLEAN : Submit(valid)
    BY <1>1
  <2> DEFINE item == [kind |-> "load", selection |-> used + 1, valid |-> valid]
  <2>2. used + 1 \in Operations
    BY <2>1, Bounds DEF Submit, Admit, Operations, WorkerTypes, Selections
  <2>3. item \in Items /\ submitted' = Append(<<>>, item)
    BY <1>0, <2>1, <2>2 DEF Items, Submit, Admit
  <2>4. submitted'[1] = item /\ submitted' \in Seq(Items)
    <3> HIDE DEF item
    <3>1. <<>> \in Seq(Items) /\ Len(<<>>) = 0
      BY EmptySeq
    <3> QED
      BY <2>3, <3>1, AppendProperties
  <2> QED
    BY <1>0, <2>1, <2>3, <2>4 DEF Submit, Admit, SlotFree
<1>2. CASE \E frame \in Targets : SubmitSeek(frame)
  <2>1. PICK frame \in Targets : SubmitSeek(frame)
    BY <1>2
  <2> DEFINE item == [kind |-> "seek",
                      request |-> [track |-> last.track, gen |-> last.gen, frame |-> frame]]
  <2>3. item \in Items /\ submitted' = Append(<<>>, item)
    BY <1>0, <2>1 DEF Items, SubmitSeek, Admit, SeekRequests, Frames, WorkerTypes, SampleSet
  <2>4. submitted'[1] = item /\ submitted' \in Seq(Items)
    <3> HIDE DEF item
    <3>1. <<>> \in Seq(Items) /\ Len(<<>>) = 0
      BY EmptySeq
    <3> QED
      BY <2>3, <3>1, AppendProperties
  <2> QED
    BY <1>0, <2>1, <2>3, <2>4 DEF SubmitSeek, Admit, SlotFree
<1> QED
  BY <1>1, <1>2

LEMMA SlotStep == ASSUME DeckInv, [Next]_deckVars PROVE Slot'
<1> USE DEF DeckInv, DeckTypeOK
<1>1. CASE Poll \/ Publish \/ Player \/ UNCHANGED deckVars
  BY <1>1, PlayerMoves DEF Poll, Publish, Slot, LoadOpen, InFlight, Unresolved, deckVars, display, worker, view
<1>2. CASE (\E valid \in BOOLEAN : Submit(valid)) \/ (\E frame \in Targets : SubmitSeek(frame))
  BY <1>2, Submitting DEF Slot, LoadOpen, InFlight, Unresolved, worker, view
<1>3. CASE DrainStatus
  <2>1. UNCHANGED <<occupied, submitted, active, pc>> /\ pc = "drain"
    BY <1>3 DEF DrainStatus, display
  <2>2. /\ uncertain' = (uncertain \/ RolledBack(last'))
        /\ uncertain' => (seek.on <=> seek'.on) /\ (LoadOpen <=> LoadOpen')
        /\ LoadOpen' => LoadOpen
        /\ seek'.on => seek.on
    BY <1>3, Drained, DrainedLoad, DrainedSeek DEF LoadOpen, InFlight, Unresolved, Concerns, WorkerTypes
  <2>3. /\ load'.state # "AwaitingAcceptance" /\ load'.selection = load.selection /\ load'.id = load.id
        /\ load'.state \in {"AwaitingCompletion", "Terminal"} => load'.id # 0
        /\ load'.state # "Idle" => load.state # "Idle"
    BY <1>3, <2>1, DrainedLoad DEF Slot, Concerns, InFlight
  <2>4. RolledBack(last') => seek.on \/ LoadOpen
    BY DEF RolledBack, LoadOpen, Unresolved
  <2> QED
    BY <2>1, <2>2, <2>3, <2>4 DEF Slot, WorkerTypes, SeekRecords
<1>4. CASE \E silent, expired \in BOOLEAN : CheckClocks(silent, expired)
  <2>1. PICK silent, expired \in BOOLEAN : CheckClocks(silent, expired)
    BY <1>4
  <2>2. UNCHANGED <<occupied, submitted, active>> /\ pc = "drain" /\ pc' = "take"
    BY <2>1 DEF CheckClocks, display
  <2>3. /\ load'.selection = load.selection /\ load'.id = load.id
        /\ load'.state = load.state \/ (InFlight(load) /\ load'.state = "OutcomeUnknown")
        /\ seek'.on = seek.on
        /\ uncertain' = (uncertain \/ (~ connected' /\ DependsOnSession))
    BY <2>1, Checked
  <2> QED
    BY <2>2, <2>3 DEF Slot, LoadOpen, InFlight, Unresolved, DependsOnSession
<1>5. CASE TakeSelection
  <2>1. UNCHANGED <<occupied, uncertain>> /\ active'
    BY <1>5 DEF TakeSelection
  <2> QED
    BY <1>5, <2>1, TakenLoad, Idle DEF Slot, LoadOpen, InFlight, Unresolved
<1>6. CASE TakeSeek
  <2>1. UNCHANGED <<occupied, uncertain, load, last>> /\ active' /\ pc = "take"
    BY <1>6 DEF TakeSeek
  <2> QED
    BY <1>6, <2>1, TakenSeek, Idle DEF Slot, Seekable, LoadOpen, InFlight, Unresolved
<1>7. CASE LoadReply \/ LoadDeadline
  <2>1. UNCHANGED <<occupied, submitted, active, uncertain, seek>> /\ pc = "loading" /\ pc' = "finish"
    BY <1>7 DEF LoadReply, LoadDeadline, display
  <2> QED
    BY <1>7, <2>1, Replied, Overran DEF Slot, LoadOpen, InFlight, Unresolved
<1>8. CASE SeekReply \/ SeekDeadline
  <2>1. UNCHANGED <<occupied, submitted, active, uncertain, load>> /\ pc = "seeking" /\ pc' = "finish"
    BY <1>8 DEF SeekReply, SeekDeadline, display
  <2> QED
    BY <1>8, <2>1, SeekEnded DEF Slot, LoadOpen, InFlight, Unresolved
<1>9. CASE NothingSubmitted
  BY <1>9 DEF NothingSubmitted, Slot, LoadOpen, InFlight, Unresolved, display, view
<1>10. CASE Finish
  BY <1>10 DEF Finish, Settled, Slot, LoadOpen, InFlight, Unresolved, WorkerTypes, view
<1> QED
  BY <1>1, <1>2, <1>3, <1>4, <1>5, <1>6, <1>7, <1>8, <1>9, <1>10 DEF Next, Display, Worker

LEMMA SeenStep == ASSUME DeckInv, [Next]_deckVars PROVE Seen'
<1> USE DEF DeckInv, DeckTypeOK
<1>1. CASE \/ Poll \/ Publish \/ Player \/ NothingSubmitted \/ Finish \/ UNCHANGED deckVars
           \/ (\E valid \in BOOLEAN : Submit(valid)) \/ (\E frame \in Targets : SubmitSeek(frame))
  <2>1. UNCHANGED <<connected, fresh, seek, last, load, named>>
    BY <1>1, PlayerMoves DEF Poll, Publish, NothingSubmitted, Finish, Submit, SubmitSeek, Admit, deckVars,
       worker, view
  <2> QED
    BY <2>1 DEF Seen
<1>2. CASE DrainStatus
  <2>1. last' \in Told /\ last'.session # 0
    BY <1>2, Drained DEF SamplesPast, InOrder
  <2>2. named'.track = last'.track
    BY <1>2 DEF DrainStatus, NamedAfter
  <2> QED
    BY <2>1, <2>2 DEF Seen
<1>3. CASE \E silent, expired \in BOOLEAN : CheckClocks(silent, expired)
  <2>1. PICK silent, expired \in BOOLEAN : CheckClocks(silent, expired)
    BY <1>3
  <2>2. UNCHANGED <<last, named>> /\ fresh' = FALSE
    BY <2>1 DEF CheckClocks
  <2>3. /\ load'.state = load.state \/ (InFlight(load) /\ load'.state = "OutcomeUnknown")
        /\ seek'.on = seek.on /\ (connected' => fresh \/ connected)
    BY <2>1, Checked
  <2> QED
    BY <2>2, <2>3 DEF Seen, InFlight
<1>4. CASE TakeSelection
  <2>1. UNCHANGED <<last, named, connected, fresh>>
    BY <1>4 DEF TakeSelection
  <2> QED
    BY <1>4, <2>1, TakenLoad DEF Seen
<1>5. CASE TakeSeek
  <2>1. UNCHANGED <<last, named, connected, fresh, load>>
    BY <1>5 DEF TakeSeek
  <2> QED
    BY <1>5, <2>1, TakenSeek DEF Seen
<1>6. CASE LoadReply \/ LoadDeadline
  <2>1. UNCHANGED <<last, named, connected, fresh, seek>> /\ load.state = "AwaitingAcceptance"
    BY <1>6 DEF LoadReply, LoadDeadline, Slot
  <2> QED
    BY <2>1 DEF Seen
<1>7. CASE SeekReply \/ SeekDeadline
  <2>1. UNCHANGED <<last, named, connected, fresh, load>>
    BY <1>7 DEF SeekReply, SeekDeadline
  <2> QED
    BY <1>7, <2>1, SeekEnded DEF Seen
<1> QED
  BY <1>1, <1>2, <1>3, <1>4, <1>5, <1>6, <1>7 DEF Next, Display, Worker

-----------------------------------------------------------------------------
(* What the player's steps do                                              *)

(* Only these steps disturb the request under way. *)
LEMMA RequestRests ==
  ASSUME \/ Display \/ Publish \/ DrainStatus \/ (\E silent, expired \in BOOLEAN : CheckClocks(silent, expired))
         \/ NothingSubmitted \/ Finish \/ OtherLoad \/ PlayerPrepares \/ PlayerCommits \/ PlayerFails
         \/ PlayerUnloads \/ PlayerSeeks \/ PlayerReadFails \/ PlayerPlays \/ PlayerStarts
         \/ UNCHANGED deckVars
  PROVE  rpc' = rpc
BY DEF Display, Submit, SubmitSeek, Admit, Poll, Publish, DrainStatus, CheckClocks, NothingSubmitted, Finish,
       OtherLoad, PlayerPrepares, PlayerCommits, PlayerFails, PlayerUnloads, PlayerSeeks, PlayerReadFails,
       PlayerPlays, PlayerStarts, deckVars

LEMMA AcceptedLoad ==
  ASSUME DeckTypeOK, PlayerAcceptsLoad
  PROVE  LET x == player.sample
             n == player.issued + 1
         IN /\ AsksLoad /\ player.up /\ player'.up /\ player.candidate = 0 /\ player.seekTo = {}
            /\ rpc.selection \in Operations /\ n \in Loads
            /\ player'.sample = x /\ player'.issued = n /\ player'.candidate = n /\ player'.seekTo = {}
            /\ \A s \in Sessions, i \in Loads :
                 source'[s][i] = IF s = x.session /\ i = n THEN rpc.selection ELSE source[s][i]
            /\ rpc' = IF rpc.at = "sent" THEN [at |-> "answered", id |-> n] ELSE NoRpc
            /\ UNCHANGED <<fate, sought, forsaken, display, statuses, views, worker>>
<1> USE DEF DeckTypeOK
<1> DEFINE x == player.sample
           n == player.issued + 1
<1>1. AsksLoad /\ player.up /\ player.candidate = 0 /\ player.seekTo = {} /\ rpc.selection \in Operations
  BY RequestTypes DEF PlayerAcceptsLoad, Asked, Busy, AsksLoad, Asking, Underway
<1>2. rpc.selection \in Selections /\ Issue(rpc.selection, x)
  BY <1>1, Bounds DEF PlayerAcceptsLoad, Operations, Selections
<1>3. /\ player'.sample = x /\ player'.up = player.up /\ player'.issued = n
      /\ player'.candidate = n /\ player'.seekTo = {} /\ n \in Loads
  BY <1>2, SampleTypes, IssueTypes
<1>4. source' = [source EXCEPT ![x.session][n] = rpc.selection]
  BY <1>2 DEF Issue
<1>5. \A s \in Sessions, i \in Loads :
        source'[s][i] = IF s = x.session /\ i = n THEN rpc.selection ELSE source[s][i]
  <2> HIDE DEF n, x
  <2> QED
    BY <1>3, <1>4 DEF PlayerTypes
<1> QED
  BY <1>1, <1>3, <1>5 DEF PlayerAcceptsLoad, Answered

LEMMA AcceptedSeek ==
  ASSUME DeckTypeOK, PlayerAcceptsSeek
  PROVE  /\ AsksSeek /\ player.up /\ player'.up /\ player.candidate = 0 /\ player.seekTo = {}
         /\ player'.sample = player.sample /\ player'.issued = player.issued /\ player'.candidate = 0
         /\ rpc' = IF rpc.at = "sent" THEN [at |-> "answered", id |-> 1] ELSE NoRpc
         /\ UNCHANGED <<history, display, statuses, views, worker>>
BY DEF PlayerAcceptsSeek, Asked, Busy, AsksSeek, Asking, Answered, DeckTypeOK, PlayerTypes, Players

LEMMA Rejected ==
  ASSUME DeckTypeOK, PlayerRejects
  PROVE  /\ Asking /\ UNCHANGED <<player, history, display, statuses, views, worker>>
         /\ rpc' = IF rpc.at = "sent" THEN [at |-> "answered", id |-> 0] ELSE NoRpc
BY DEF PlayerRejects, Asked, Asking, Answered

(* What becomes of a load that is withdrawn. *)
LEMMA Withdrew ==
  ASSUME DeckTypeOK, Withdraw, NEW y \in Withdrawn
  PROVE  LET x == player.sample
             c == player.candidate
         IN /\ y \in SampleSet /\ y.session = x.session /\ y.track = x.track /\ y.gen = x.gen /\ y.at = x.at
            /\ \/ y.id = x.id /\ y.progress = x.progress
               \/ c # 0 /\ y.id = c /\ y.progress = "cancelled"
            /\ \A o \in Operations :
                 fate'[o] = IF c # 0 /\ o = source[x.session][c] THEN "cancelled" ELSE fate[o]
<1> USE DEF DeckTypeOK
<1> DEFINE x == player.sample
           c == player.candidate
<1>1. \A o \in Operations :
        fate'[o] = IF c # 0 /\ o = source[x.session][c] THEN "cancelled" ELSE fate[o]
  BY DEF Withdraw, Ended
<1>2. CASE y = x
  BY <1>1, <1>2, SampleTypes
<1>3. CASE c # 0 /\ y = [x EXCEPT !.id = c, !.progress = "cancelled"]
  <2>1. x \in SampleSet
    BY SampleTypes
  <2> HIDE DEF x
  <2>2. y.track = x.track /\ y.gen = x.gen /\ y.at = x.at /\ y.id = c /\ y.progress = "cancelled"
    BY <1>3, <2>1 DEF SampleSet
  <2> QED
    BY <1>1, <1>3, <2>2, SampleTypes DEF x
<1> QED
  BY <1>2, <1>3 DEF Withdrawn

LEMMA OtherLoaded ==
  ASSUME DeckTypeOK, OtherLoad
  PROVE  LET x == player.sample
             c == player.candidate
             n == player.issued + 1
             y == player'.sample
         IN /\ player.up /\ player'.up /\ n \in Loads
            /\ y.session = x.session /\ y.track = x.track /\ y.gen = x.gen /\ y.at = x.at
            /\ \/ y.id = x.id /\ y.progress = x.progress
               \/ c # 0 /\ y.id = c /\ y.progress = "cancelled"
            /\ \A o \in Operations :
                 fate'[o] = IF c # 0 /\ o = source[x.session][c] THEN "cancelled" ELSE fate[o]
            /\ player'.issued = n /\ player'.candidate = n /\ player'.seekTo = {}
            /\ \A s \in Sessions, i \in Loads :
                 source'[s][i] = IF s = x.session /\ i = n THEN 0 ELSE source[s][i]
            /\ UNCHANGED <<rpc, sought, forsaken, display, statuses, views, worker>>
<1> USE DEF DeckTypeOK
<1> DEFINE x == player.sample
           n == player.issued + 1
<1>1. PICK y \in Withdrawn : Issue(0, y)
  BY DEF OtherLoad
<1>2. y \in SampleSet /\ y.session = x.session /\ y.session \in Sessions
  BY <1>1, SampleTypes
<1>3. /\ player'.sample = y /\ player'.up = player.up /\ player'.issued = n
      /\ player'.candidate = n /\ player'.seekTo = {} /\ n \in Loads
  BY <1>1, <1>2, Bounds, IssueTypes DEF Selections
<1>4. source' = [source EXCEPT ![x.session][n] = 0]
  BY <1>1, <1>2 DEF Issue
<1>5. \A s \in Sessions, i \in Loads : source'[s][i] = IF s = x.session /\ i = n THEN 0 ELSE source[s][i]
  <2>1. n \in Loads /\ x.session \in Sessions
    BY <1>2, <1>3
  <2> HIDE DEF n, x
  <2> QED
    BY <1>4, <2>1 DEF PlayerTypes
<1>6. Withdraw /\ player.up
  BY DEF OtherLoad
<1> QED
  BY <1>1, <1>3, <1>5, <1>6, Withdrew DEF OtherLoad

LEMMA UnloadedTrack ==
  ASSUME DeckTypeOK, PlayerUnloads
  PROVE  LET x == player.sample
             c == player.candidate
             y == player'.sample
         IN /\ player.up /\ player'.up
            /\ y.session = x.session /\ y.track = 0 /\ y.gen = x.gen + 1
            /\ \/ y.id = x.id /\ y.progress = x.progress
               \/ c # 0 /\ y.id = c /\ y.progress = "cancelled"
            /\ \A o \in Operations :
                 fate'[o] = IF c # 0 /\ o = source[x.session][c] THEN "cancelled" ELSE fate[o]
            /\ player'.issued = player.issued /\ player'.candidate = 0 /\ player'.seekTo = {}
            /\ UNCHANGED <<rpc, source, sought, forsaken, display, statuses, views, worker>>
<1> USE DEF DeckTypeOK
<1>1. PICK y \in Withdrawn :
        player' = [player EXCEPT !.candidate = 0, !.seekTo = {},
                                 !.sample = [NewGeneration(y, 0) EXCEPT !.track = 0]]
  BY DEF PlayerUnloads
<1>2. Withdraw /\ player.up
  BY DEF PlayerUnloads
<1> DEFINE e == [NewGeneration(y, 0) EXCEPT !.track = 0]
<1>3. /\ y.session = player.sample.session /\ y.gen = player.sample.gen
      /\ \/ y.id = player.sample.id /\ y.progress = player.sample.progress
         \/ player.candidate # 0 /\ y.id = player.candidate /\ y.progress = "cancelled"
      /\ y \in SampleSet
      /\ \A o \in Operations :
           fate'[o] = IF player.candidate # 0 /\ o = source[player.sample.session][player.candidate]
                        THEN "cancelled" ELSE fate[o]
  BY <1>1, <1>2, Withdrew
<1>4. e.session = y.session /\ e.gen = y.gen + 1 /\ e.id = y.id /\ e.track = 0 /\ e.progress = y.progress
  BY <1>3, Unloaded
<1> HIDE DEF e
<1>5. /\ player'.sample = e /\ player'.up = player.up /\ player'.candidate = 0 /\ player'.seekTo = {}
      /\ player'.issued = player.issued
  BY <1>1 DEF PlayerTypes, Players, e
<1> QED
  BY <1>2, <1>3, <1>4, <1>5 DEF PlayerUnloads

LEMMA Prepared ==
  ASSUME DeckTypeOK, PlayerPrepares
  PROVE  LET x == player.sample
             y == player'.sample
         IN /\ player.up /\ player'.up /\ player.candidate # 0
            /\ y.session = x.session /\ y.track = x.track /\ y.gen = x.gen /\ y.at = x.at
            /\ y.id = player.candidate /\ y.progress = "preparing"
            /\ player'.issued = player.issued /\ player'.candidate = player.candidate
            /\ player'.seekTo = player.seekTo
            /\ UNCHANGED <<rpc, history, display, statuses, views, worker>>
BY SampleTypes DEF PlayerPrepares, DeckTypeOK, PlayerTypes, Players, SampleSet

LEMMA CommittedLoad ==
  ASSUME DeckTypeOK, PlayerCommits
  PROVE  LET x == player.sample
             c == player.candidate
             y == player'.sample
         IN /\ player.up /\ player'.up /\ c # 0
            /\ y.session = x.session /\ y.track = c /\ y.gen = x.gen + 1
            /\ y.id = c /\ y.progress = "committed"
            /\ \A o \in Operations : fate'[o] = IF o = source[x.session][c] THEN "committed" ELSE fate[o]
            /\ player'.issued = player.issued /\ player'.candidate = 0 /\ player'.seekTo = player.seekTo
            /\ UNCHANGED <<rpc, source, sought, forsaken, display, statuses, views, worker>>
<1> USE DEF DeckTypeOK
<1> DEFINE e == [NewGeneration(player.sample, 0) EXCEPT
                  !.id = player.candidate, !.progress = "committed", !.track = player.candidate]
<1>1. /\ e.session = player.sample.session /\ e.gen = player.sample.gen + 1
      /\ e.id = player.candidate /\ e.track = player.candidate /\ e.progress = "committed"
  BY SampleTypes, Committed
<1>2. player' = [player EXCEPT !.candidate = 0, !.sample = e]
  BY DEF PlayerCommits
<1> HIDE DEF e
<1>3. /\ player'.sample = e /\ player'.up = player.up /\ player'.candidate = 0
      /\ player'.issued = player.issued /\ player'.seekTo = player.seekTo
  BY <1>2 DEF PlayerTypes, Players
<1> QED
  BY <1>1, <1>3 DEF PlayerCommits, Ended

LEMMA FailedLoad ==
  ASSUME DeckTypeOK, PlayerFails
  PROVE  LET x == player.sample
             c == player.candidate
             y == player'.sample
         IN /\ player.up /\ player'.up /\ c # 0
            /\ y.session = x.session /\ y.track = x.track /\ y.gen = x.gen /\ y.at = x.at
            /\ y.id = c /\ y.progress = "failed"
            /\ \A o \in Operations : fate'[o] = IF o = source[x.session][c] THEN "failed" ELSE fate[o]
            /\ player'.issued = player.issued /\ player'.candidate = 0 /\ player'.seekTo = player.seekTo
            /\ UNCHANGED <<rpc, source, sought, forsaken, display, statuses, views, worker>>
BY SampleTypes DEF PlayerFails, DeckTypeOK, PlayerTypes, Players, SampleSet, Ended

LEMMA CarriedOut ==
  ASSUME DeckTypeOK, PlayerSeeks
  PROVE  LET x == player.sample
             y == player'.sample
         IN /\ player.up /\ player'.up /\ x.track # 0 /\ player.seekTo # {}
            /\ y.session = x.session /\ y.track = x.track /\ y.gen = x.gen + 1
            /\ y.id = x.id /\ y.progress = x.progress /\ player'.issued = player.issued
            /\ player'.candidate = player.candidate /\ player'.seekTo = {}
            /\ sought' = sought \union {[session |-> y.session, frame |-> y.at, track |-> y.track,
                                         gen |-> y.gen]}
            /\ UNCHANGED <<rpc, source, fate, forsaken, display, statuses, views, worker>>
<1> USE DEF DeckTypeOK
<1> DEFINE x == player.sample
<1>1. PICK frame \in player.seekTo :
        /\ player' = [player EXCEPT !.seekTo = {}, !.sample = NewGeneration(x, frame)]
        /\ sought' = sought \union {[session |-> x.session, frame |-> frame,
                                     track |-> x.track, gen |-> x.gen + 1]}
  BY DEF PlayerSeeks
<1> DEFINE e == NewGeneration(x, frame)
<1>2. /\ e.session = x.session /\ e.gen = x.gen + 1 /\ e.at = frame
      /\ e.id = x.id /\ e.track = x.track /\ e.progress = x.progress
  BY SampleTypes, Generation
<1>3. player' = [player EXCEPT !.seekTo = {}, !.sample = e]
  BY <1>1
<1> HIDE DEF e
<1>4. /\ player'.sample = e /\ player'.up = player.up /\ player'.candidate = player.candidate
      /\ player'.issued = player.issued /\ player'.seekTo = {}
  BY <1>3 DEF PlayerTypes, Players
<1> QED
  BY <1>1, <1>2, <1>4 DEF PlayerSeeks

LEMMA Disturbed ==
  ASSUME DeckTypeOK, PlayerReadFails \/ PlayerPlays
  PROVE  LET x == player.sample
             y == player'.sample
         IN /\ player.up /\ player'.up
            /\ y.session = x.session /\ y.track = x.track /\ y.gen = x.gen /\ y.at = x.at
            /\ y.id = x.id /\ y.progress = x.progress
            /\ player'.issued = player.issued /\ player'.candidate = player.candidate
            /\ player'.seekTo = player.seekTo \/ player'.seekTo = {}
            /\ UNCHANGED <<rpc, history, display, statuses, views, worker>>
<1>1. CASE PlayerReadFails
  BY <1>1, SampleTypes DEF PlayerReadFails, DeckTypeOK, PlayerTypes, Players, SampleSet
<1>2. CASE PlayerPlays
  BY <1>2, SampleTypes DEF PlayerPlays, DeckTypeOK, PlayerTypes, Players, SampleSet
<1> QED
  BY <1>1, <1>2

LEMMA Stopped ==
  ASSUME DeckTypeOK, PlayerStops
  PROVE  /\ player.up /\ ~ player'.up /\ player'.sample = player.sample /\ player'.issued = player.issued
         /\ player'.candidate = player.candidate /\ player'.seekTo = player.seekTo
         /\ player.sample.session < MaxSessions
         /\ IF Asking THEN rpc'.at = "lost" /\ rpc'.kind = rpc.kind ELSE rpc' = rpc
         /\ UNCHANGED <<history, display, statuses, views, worker>>
<1>1. IF Asking THEN rpc'.at = "lost" /\ rpc'.kind = rpc.kind ELSE rpc' = rpc
  <2>1. "lost" \in Underway
    BY DEF Underway
  <2>2. Asking => rpc.at \in Underway /\ rpc' = [rpc EXCEPT !.at = "lost"]
    BY DEF PlayerStops, Asking, Underway
  <2> QED
    BY <2>1, <2>2, MovedRequest DEF PlayerStops, Asking, DeckTypeOK
<1> QED
  BY <1>1 DEF PlayerStops, DeckTypeOK, PlayerTypes, Players

LEMMA Started ==
  ASSUME DeckTypeOK, PlayerStarts
  PROVE  LET y == player'.sample
         IN /\ ~ player.up /\ player'.up
            /\ y.session = player.sample.session + 1 /\ y.track = 0 /\ y.gen = 0 /\ y.id = 0
            /\ y.progress = "idle"
            /\ player'.issued = 0 /\ player'.candidate = 0 /\ player'.seekTo = {}
            /\ pc \in {"drain", "loading", "seeking"}
            /\ UNCHANGED <<rpc, history, display, statuses, views, worker>>
BY DEF PlayerStarts, NewPlayer, NoSample

-----------------------------------------------------------------------------
(* Requests and identities                                                 *)

LEMMA RequestPlaceStep == ASSUME DeckInv, [Next]_deckVars PROVE RequestPlace'
<1> USE DEF DeckInv, DeckTypeOK, AsksLoad, Asking
<1>1. CASE \/ Poll \/ Publish \/ UNCHANGED deckVars
           \/ (\E valid \in BOOLEAN : Submit(valid)) \/ (\E frame \in Targets : SubmitSeek(frame))
  BY <1>1 DEF RequestPlace, Poll, Publish, Submit, SubmitSeek, Admit, deckVars, worker, view
<1>2. CASE DrainStatus
  <2>1. UNCHANGED <<rpc, player, pc>> /\ pc = "drain"
    BY <1>2 DEF DrainStatus
  <2>2. load'.selection = load.selection
    BY <1>2, DrainedLoad
  <2>3. load.state = "OutcomeUnknown" /\ load.id = 0 => load' = load
    BY <1>2, DrainedLoad DEF InFlight, Concerns
  <2> QED
    BY <2>1, <2>2, <2>3 DEF RequestPlace
<1>3. CASE \E silent, expired \in BOOLEAN : CheckClocks(silent, expired)
  <2>1. PICK silent, expired \in BOOLEAN : CheckClocks(silent, expired)
    BY <1>3
  <2>2. UNCHANGED <<rpc, player>> /\ pc = "drain" /\ pc' = "take"
    BY <2>1 DEF CheckClocks
  <2>3. /\ load'.selection = load.selection /\ load'.id = load.id
        /\ load'.state = load.state \/ (InFlight(load) /\ load'.state = "OutcomeUnknown")
    BY <2>1, Checked
  <2> QED
    BY <2>2, <2>3 DEF RequestPlace, InFlight
<1>4. CASE TakeSelection
  <2>1. player' = player /\ pc = "take"
    BY <1>4 DEF TakeSelection
  <2>2. ~ LoadOpen
    BY <1>4, Idle, TakenLoad
  <2> QED
    BY <1>4, <2>1, <2>2, TakenLoad DEF RequestPlace, Sent, LoadOpen, Unresolved
<1>5. CASE TakeSeek
  <2>1. UNCHANGED <<player, load>> /\ pc = "take"
    BY <1>5 DEF TakeSeek
  <2> QED
    BY <1>5, <2>1, TakenSeek DEF RequestPlace, Sent
<1>6. CASE LoadReply
  <2>1. rpc' = NoRpc /\ pc' = "finish"
    BY <1>6 DEF LoadReply
  <2> QED
    BY <2>1 DEF RequestPlace, NoRpc
<1>7. CASE SeekReply
  <2>1. rpc' = NoRpc /\ pc' = "finish"
    BY <1>7 DEF SeekReply
  <2> QED
    BY <2>1 DEF RequestPlace, NoRpc
<1>8. CASE LoadDeadline
  <2>1. player' = player /\ pc' = "finish" /\ pc = "loading" /\ rpc' = Overdue
    BY <1>8 DEF LoadDeadline
  <2>2. load'.selection = load.selection /\ load'.id = load.id /\ load'.state = "OutcomeUnknown"
    BY <1>8, Overran
  <2>3. load.id = 0 \/ rpc.at # "sent"
    BY <2>1 DEF RequestPlace, Slot
  <2>4. rpc.at = "sent" => rpc'.at = "late" /\ rpc'.kind = "load" /\ rpc'.selection = rpc.selection
    BY <2>1, MovedRequest DEF Overdue, RequestPlace, Underway
  <2>5. rpc.at # "sent" => rpc' = NoRpc
    BY <2>1 DEF Overdue
  <2> QED
    BY <2>1, <2>2, <2>3, <2>4, <2>5 DEF RequestPlace, NoRpc
<1>9. CASE SeekDeadline
  <2>1. UNCHANGED <<player, load>> /\ pc' = "finish" /\ pc = "seeking" /\ rpc' = Overdue
    BY <1>9 DEF SeekDeadline
  <2>2. rpc.at = "sent" => rpc'.at = "late" /\ rpc'.kind = "seek"
    BY <2>1, MovedRequest DEF Overdue, RequestPlace, Underway
  <2>3. rpc.at # "sent" => rpc' = NoRpc
    BY <2>1 DEF Overdue
  <2> QED
    BY <2>1, <2>2, <2>3 DEF RequestPlace, NoRpc
<1>10. CASE NothingSubmitted \/ Finish
  BY <1>10 DEF NothingSubmitted, Finish, RequestPlace, view
<1>11. CASE PlayerAcceptsLoad
  <2>1. UNCHANGED <<pc, load>>
    BY <1>11, PlayerMoves DEF Player, worker, view
  <2>2. player.issued + 1 \in Ids
    BY <1>11, AcceptedLoad, Bounds DEF Loads, Ids
  <2> QED
    BY <1>11, <2>1, <2>2, AcceptedLoad DEF RequestPlace, NoRpc
<1>12. CASE PlayerAcceptsSeek
  <2>1. UNCHANGED <<pc, load>>
    BY <1>12, PlayerMoves DEF Player, worker, view
  <2> QED
    BY <1>12, <2>1, AcceptedSeek DEF RequestPlace, NoRpc, AsksSeek
<1>13. CASE PlayerRejects
  <2>1. UNCHANGED <<pc, load>>
    BY <1>13, PlayerMoves DEF Player, worker, view
  <2> QED
    BY <1>13, <2>1, Rejected, Bounds DEF RequestPlace, NoRpc
<1>14. CASE PlayerStops
  <2>1. UNCHANGED <<pc, load>>
    BY <1>14, PlayerMoves DEF Player, worker, view
  <2> QED
    BY <1>14, <2>1, Stopped DEF RequestPlace
<1>15. CASE OtherLoad \/ PlayerPrepares \/ PlayerCommits \/ PlayerFails \/ PlayerUnloads \/ PlayerSeeks
            \/ PlayerReadFails \/ PlayerPlays \/ PlayerStarts
  <2>1. UNCHANGED <<pc, load>> /\ rpc' = rpc
    BY <1>15, PlayerMoves, RequestRests DEF Player, worker, view
  <2>2. player'.up
    BY <1>15, OtherLoaded, Prepared, CommittedLoad, FailedLoad, UnloadedTrack, CarriedOut, Disturbed, Started
  <2> QED
    BY <2>1, <2>2 DEF RequestPlace
<1> QED
  BY <1>1, <1>2, <1>3, <1>4, <1>5, <1>6, <1>7, <1>8, <1>9, <1>10, <1>11, <1>12, <1>13, <1>14, <1>15
     DEF Next, Display, Worker, Player

(* The steps that issue no identity and restart no player. *)
LEMMA IdentitiesRest ==
  ASSUME DeckInv, [Next]_deckVars, ~ PlayerAcceptsLoad, ~ OtherLoad, ~ PlayerStarts
  PROVE  UNCHANGED <<source, player.sample.session, player.issued>>
<1> USE DEF DeckInv, DeckTypeOK
<1>1. CASE Display \/ Publish \/ Worker \/ UNCHANGED deckVars
  BY <1>1, PlayerRests DEF deckVars, history
<1>2. CASE Player
  BY <1>2, AcceptedSeek, Rejected, Prepared, CommittedLoad, FailedLoad, UnloadedTrack, CarriedOut, Disturbed,
     Stopped DEF Player, history
<1> QED
  BY <1>1, <1>2 DEF Next

(* An identity of the player's past lies there also after the step. *)
LEMMA Aging ==
  ASSUME NEW s \in Nat, NEW i \in Nat, NEW t \in Nat, NEW n \in Nat, NEW u \in Nat, NEW m \in Nat,
         t < u \/ (t = u /\ n <= m), s < t \/ (s = t /\ i <= n)
  PROVE  s < u \/ (s = u /\ i <= m)
OBVIOUS

LEMMA IdentitiesStep == ASSUME DeckInv, [Next]_deckVars PROVE Identities'
<1> USE DEF DeckInv, DeckTypeOK
<1> DEFINE t == player.sample.session
           n == player.issued
           u == player'.sample.session
           m == player'.issued
<1>0. Sessions \subseteq Nat /\ Loads \subseteq Nat
  BY Bounds DEF Sessions, Loads
<1>1. t \in Nat /\ n \in Nat
  BY SampleTypes, Bounds DEF Sessions, Ids
<1>2. u \in Nat /\ m \in Nat
  <2>1. PlayerTypes'
    BY PlayerTypesStep
  <2>2. u \in Sessions /\ m \in Ids
    BY <2>1 DEF PlayerTypes, Players
  <2> QED
    BY <2>2, Bounds DEF Sessions, Ids
<1>3. t < u \/ (t = u /\ n <= m)
  BY <1>1, IdentitiesRest, AcceptedLoad, OtherLoaded, Started
<1> HIDE DEF t, n, u, m
<1>4. SUFFICES
        /\ \A s \in Sessions, i \in Loads : source'[s][i] # 0 /\ source'[s][i] # source[s][i] =>
             s = u /\ i = m
        /\ \A s, r \in Sessions, i, j \in Loads :
             source'[s][i] # 0 /\ source'[s][i] = source'[r][j] => s = r /\ i = j
  <2>1. ASSUME NEW s \in Sessions, NEW i \in Loads, source'[s][i] # 0
        PROVE  s < u \/ (s = u /\ i <= m)
    <3>1. CASE source'[s][i] = source[s][i]
      <4>1. s < t \/ (s = t /\ i <= n)
        BY <2>1, <3>1 DEF Identities, t, n
      <4> QED
        BY <1>0, <1>1, <1>2, <1>3, <4>1, Aging
    <3>2. CASE source'[s][i] # source[s][i]
      BY <1>2, <1>4, <2>1, <3>2
    <3> QED
      BY <3>1, <3>2
  <2> QED
    BY <1>4, <2>1 DEF Identities, u, m
<1>5. CASE PlayerAcceptsLoad
  <2>1. NotIssued(rpc.selection)
    BY <1>5, AcceptedLoad DEF Unissued, RequestPlace
  <2>2. \A s \in Sessions, i \in Loads :
          source'[s][i] = IF s = u /\ i = m THEN rpc.selection ELSE source[s][i]
    BY <1>5, AcceptedLoad DEF u, m
  <2> QED
    BY <2>1, <2>2 DEF Identities, NotIssued
<1>6. CASE OtherLoad
  <2>1. \A s \in Sessions, i \in Loads : source'[s][i] = IF s = u /\ i = m THEN 0 ELSE source[s][i]
    BY <1>6, OtherLoaded DEF u, m
  <2> QED
    BY <2>1 DEF Identities
<1>7. CASE ~ PlayerAcceptsLoad /\ ~ OtherLoad
  <2>1. source' = source
    BY <1>7, Started, IdentitiesRest DEF history
  <2> QED
    BY <2>1 DEF Identities
<1> QED
  BY <1>5, <1>6, <1>7

(* A request that is overdue is still the same request. *)
LEMMA Overdued ==
  ASSUME StreamTypes, rpc' = Overdue, Asking'
  PROVE  /\ rpc.at = "sent" /\ rpc'.at = "late" /\ rpc'.kind = rpc.kind
         /\ (AsksLoad' => AsksLoad) /\ (AsksSeek' => AsksSeek)
<1>1. rpc.at = "sent" /\ rpc' = [rpc EXCEPT !.at = "late"]
  BY DEF Overdue, Asking, NoRpc
<1>2. rpc'.at = "late" /\ rpc'.kind = rpc.kind
  BY <1>1, MovedRequest DEF Underway
<1> QED
  BY <1>1, <1>2 DEF AsksLoad, AsksSeek, Asking

(* A load request under way means that the slot's operation is that load. *)
LEMMA AskedFor ==
  ASSUME DeckInv, AsksLoad
  PROVE  /\ rpc.selection = load.selection /\ load.selection \in Operations /\ submitted = <<>>
         /\ load.state \in {"AwaitingAcceptance", "OutcomeUnknown"}
BY DEF DeckInv, AsksLoad, Asking, RequestPlace, Slot, LoadOpen, InFlight, Unresolved

LEMMA UnissuedStep == ASSUME DeckInv, [Next]_deckVars PROVE Unissued'
<1> USE DEF DeckInv, DeckTypeOK
<1>0. used \in Nat /\ load.selection \in Nat /\ Operations \subseteq Nat /\ 0 \notin Operations
  BY Bounds DEF WorkerTypes, Selections, LoadRecords, Operations
<1>1. CASE (\E valid \in BOOLEAN : Submit(valid)) \/ (\E frame \in Targets : SubmitSeek(frame))
  <2>1. UNCHANGED <<source, rpc, load, pc>>
    BY <1>1, Submitting DEF history, worker, view
  <2>2. submitted'[1].kind = "load" => submitted'[1].selection = used + 1 /\ used + 1 \in Operations
    BY <1>1, Submitting, ItemTypes
  <2>3. used' = used + 1
    BY <1>1, Submitting
  <2>4. \A o \in Operations : o > used => NotIssued(o)'
    BY <2>1 DEF Unissued, NotIssued
  <2>5. /\ AsksLoad' => AsksLoad
        /\ Refused' => Refused
        /\ NotIssued(load.selection)' <=> NotIssued(load.selection)
    BY <2>1 DEF AsksLoad, Asking, Refused, NotIssued
  <2> QED
    BY <1>0, <2>1, <2>2, <2>3, <2>4, <2>5 DEF Unissued
<1>2. CASE Poll \/ Publish \/ NothingSubmitted \/ Finish \/ UNCHANGED deckVars
  <2>1. UNCHANGED <<source, rpc, load, used, submitted>> /\ (pc' = "loading" => pc = "loading")
    BY <1>2 DEF Poll, Publish, NothingSubmitted, Finish, deckVars, display, history, worker, view
  <2> QED
    BY <2>1 DEF Unissued, NotIssued, AsksLoad, Asking, Refused
<1>3. CASE DrainStatus
  <2>1. UNCHANGED <<source, rpc, used, submitted>> /\ pc' = pc /\ pc = "drain"
    BY <1>3 DEF DrainStatus, display
  <2>2. /\ load'.selection = load.selection
        /\ load'.state \in {"Rejected", "ValidationFailed", "Unavailable"} => load'.state = load.state
    BY <1>3, DrainedLoad
  <2> QED
    BY <2>1, <2>2 DEF Unissued, NotIssued, AsksLoad, Asking, Refused
<1>4. CASE \E silent, expired \in BOOLEAN : CheckClocks(silent, expired)
  <2>1. PICK silent, expired \in BOOLEAN : CheckClocks(silent, expired)
    BY <1>4
  <2>2. UNCHANGED <<source, rpc, used, submitted>> /\ pc' # "loading"
    BY <2>1 DEF CheckClocks, display, history
  <2>3. load'.selection = load.selection /\ (load'.state = load.state \/ load'.state = "OutcomeUnknown")
    BY <2>1, Checked
  <2> QED
    BY <2>2, <2>3 DEF Unissued, NotIssued, AsksLoad, Asking, Refused
<1>5. CASE TakeSelection
  <2>1. UNCHANGED <<source, used>>
    BY <1>5 DEF TakeSelection, history
  <2>2. load'.selection <= used /\ NotIssued(load'.selection) /\ submitted' = <<>>
    BY <1>5, TakenLoad DEF Unissued
  <2> QED
    BY <2>1, <2>2 DEF Unissued, NotIssued
<1>6. CASE TakeSeek
  <2>1. UNCHANGED <<source, used, load>>
    BY <1>6 DEF TakeSeek, history
  <2>2. submitted' = <<>> /\ pc' # "loading" /\ (AsksLoad' => AsksLoad)
    BY <1>6, TakenSeek DEF AsksLoad, Asking
  <2> QED
    BY <2>1, <2>2 DEF Unissued, NotIssued, Refused
<1>7. CASE LoadReply \/ LoadDeadline
  <2>1. UNCHANGED <<source, used, submitted>> /\ pc' = "finish" /\ pc = "loading"
        /\ load'.selection = load.selection
    BY <1>7, Replied, Overran DEF LoadReply, LoadDeadline, display, history
  <2>2. AsksLoad' => AsksLoad
    BY <1>7, Overdued DEF AsksLoad, Asking, LoadReply, LoadDeadline, NoRpc
  <2>3. load'.state \in {"Rejected", "ValidationFailed", "Unavailable"} => Refused
    BY <1>7, Replied, Overran DEF Refused, LoadReply
  <2> QED
    BY <2>1, <2>2, <2>3 DEF Unissued, NotIssued, Refused
<1>8. CASE SeekReply \/ SeekDeadline
  <2>1. UNCHANGED <<source, used, submitted, load>> /\ pc' = "finish"
    BY <1>8 DEF SeekReply, SeekDeadline, display, history
  <2>2. AsksLoad' => AsksLoad
    BY <1>8, Overdued DEF AsksLoad, Asking, SeekReply, SeekDeadline, NoRpc
  <2> QED
    BY <2>1, <2>2 DEF Unissued, NotIssued, Refused
<1>9. CASE PlayerAcceptsLoad
  <2>1. UNCHANGED <<used, submitted, load, pc>>
    BY <1>9, PlayerMoves DEF Player, display, worker, view
  <2>2. ~ AsksLoad' /\ ~ Refused'
    BY <1>9, AcceptedLoad, Bounds DEF AsksLoad, Asking, Refused, NoRpc, Loads
  <2>3. load.state \in {"AwaitingAcceptance", "OutcomeUnknown"} /\ submitted = <<>>
        /\ rpc.selection = load.selection
    BY <1>9, AcceptedLoad, AskedFor
  <2>4. ASSUME NEW o \in Operations, o > used PROVE NotIssued(o)'
    <3>1. o # rpc.selection
      BY <1>0, <2>3, <2>4 DEF Unissued
    <3>2. NotIssued(o)
      BY <2>4 DEF Unissued
    <3> QED
      BY <1>9, <3>1, <3>2, AcceptedLoad DEF NotIssued
  <2> QED
    BY <2>1, <2>2, <2>3, <2>4 DEF Unissued
<1>10. CASE PlayerRejects
  <2>1. UNCHANGED <<used, submitted, load, pc, source>>
    BY <1>10, PlayerMoves, Rejected DEF Player, display, worker, view, history
  <2>2. ~ AsksLoad' /\ (Refused' => AsksLoad)
    BY <1>10, <2>1, Rejected DEF AsksLoad, Asking, Refused, NoRpc, RequestPlace
  <2> QED
    BY <2>1, <2>2 DEF Unissued, NotIssued
<1>11. CASE OtherLoad
  <2>1. UNCHANGED <<used, submitted, load, pc, rpc>>
    BY <1>11, OtherLoaded DEF display, worker, view
  <2>2. \A o \in Operations : NotIssued(o) => NotIssued(o)'
    BY <1>0, <1>11, OtherLoaded DEF NotIssued
  <2>3. /\ AsksLoad => load.selection \in Operations
        /\ Refused \/ load.state \in {"Rejected", "ValidationFailed", "Unavailable"} =>
             load.selection \in Operations
    BY AskedFor DEF Slot, Refused
  <2>4. submitted # <<>> /\ submitted[1].kind = "load" => submitted[1].selection \in Operations
    BY OneSubmitted, ItemTypes
  <2>5. /\ AsksLoad' <=> AsksLoad
        /\ Refused' <=> Refused
    BY <2>1 DEF AsksLoad, Asking, Refused
  <2>6. /\ (\A o \in Operations : o > used => NotIssued(o))'
        /\ (AsksLoad => NotIssued(load.selection))'
        /\ (submitted # <<>> /\ submitted[1].kind = "load" =>
              submitted[1].selection <= used /\ NotIssued(submitted[1].selection))'
        /\ (Refused \/ load.state \in {"Rejected", "ValidationFailed", "Unavailable"} =>
              NotIssued(load.selection))'
    BY <2>1, <2>2, <2>3, <2>4, <2>5 DEF Unissued
  <2> QED
    BY <2>1, <2>6 DEF Unissued
<1>12. CASE PlayerPrepares \/ PlayerCommits \/ PlayerFails \/ PlayerUnloads \/ PlayerSeeks
            \/ PlayerReadFails \/ PlayerPlays \/ PlayerStarts
  <2>1. UNCHANGED <<used, submitted, load, pc, rpc, source>>
    BY <1>12, PlayerMoves, RequestRests, Prepared, CommittedLoad, FailedLoad, UnloadedTrack, CarriedOut,
       Disturbed, Started DEF Player, display, worker, view, history
  <2> QED
    BY <2>1 DEF Unissued, NotIssued, AsksLoad, Asking, Refused
<1>13. CASE PlayerAcceptsSeek \/ PlayerStops
  <2>1. UNCHANGED <<used, submitted, load, pc, source>>
    BY <1>13, PlayerMoves, AcceptedSeek, Stopped DEF Player, display, worker, view, history
  <2>2. (AsksLoad' => AsksLoad) /\ (Refused' => Refused)
    BY <1>13, <2>1, AcceptedSeek, Stopped DEF AsksLoad, Asking, Refused, NoRpc
  <2> QED
    BY <2>1, <2>2 DEF Unissued, NotIssued
<1> QED
  BY <1>1, <1>2, <1>3, <1>4, <1>5, <1>6, <1>7, <1>8, <1>9, <1>10, <1>11, <1>12, <1>13
     DEF Next, Display, Worker, Player

-----------------------------------------------------------------------------
(* What the samples tell                                                   *)

(* A status matched with the load the worker waits for is about that load. *)
LEMMA Concerned ==
  ASSUME DeckInv, DrainStatus, ~ uncertain', Concerns(load, last')
  PROVE  /\ last'.session = last.session /\ last'.session \in Sessions /\ last'.id \in Loads
         /\ last'.id = load.id /\ last'.id # 0 /\ load.selection \in Operations
         /\ source[last'.session][last'.id] = load.selection
<1> USE DEF DeckInv, DeckTypeOK
<1>1. /\ last' \in Told /\ last' \in SampleSet /\ last \in SampleSet
      /\ ~ uncertain /\ ~ RolledBack(last')
  BY Drained DEF WorkerTypes
<1>2. /\ load.state \in {"AwaitingCompletion", "OutcomeUnknown"} /\ load.id # 0 /\ last'.id = load.id
      /\ load.selection \in Operations /\ last.session # 0
  BY DEF Concerns, Slot, Seen
<1>3. last'.session = last.session
  BY <1>1, <1>2 DEF RolledBack, InFlight
<1>4. last.session \in Sessions /\ load.id \in Loads
  BY <1>1, <1>2, Bounds DEF SampleSet, Sessions, WorkerTypes, LoadRecords, Ids, Loads
<1>5. Match(load.id)
  BY <1>1, <1>2 DEF Matched, Awaits
<1>6. ~ (last'.session > last.session)
  BY <1>3, <1>4, Bounds DEF Sessions
<1>7. source[last.session][load.id] = load.selection
  BY <1>1, <1>5, <1>6 DEF Match
<1> QED
  BY <1>2, <1>3, <1>4, <1>7

LEMMA PreparesStep == ASSUME DeckInv, [Next]_deckVars PROVE Prepares'
<1> USE DEF DeckInv, DeckTypeOK
<1>1. CASE \/ Display \/ Publish \/ NothingSubmitted \/ Finish \/ TakeSeek \/ SeekReply \/ SeekDeadline
           \/ UNCHANGED deckVars
  <2>1. UNCHANGED <<player, source, load>>
    BY <1>1 DEF Display, Submit, SubmitSeek, Admit, Poll, Publish, NothingSubmitted, Finish, TakeSeek,
       SeekReply, SeekDeadline, deckVars, worker, view, history
  <2> QED
    BY <2>1 DEF Prepares, Preparing, Candidate
<1>2. CASE DrainStatus
  <2>1. UNCHANGED <<player, source>>
    BY <1>2, PlayerRests DEF Worker
  <2>2. SUFFICES ASSUME Preparing, Candidate # 0
                 PROVE  /\ load'.selection = load.selection
                        /\ load'.state \in {"AwaitingAcceptance", "AwaitingCompletion", "OutcomeUnknown"}
    BY <2>1 DEF Prepares, Preparing, Candidate
  <2>3. CASE ~ uncertain' /\ Concerns(load, last')
    <3>1. /\ last'.session \in Sessions /\ last'.id \in Loads /\ last'.id # 0 /\ last'.id = load.id
          /\ source[last'.session][last'.id] = load.selection
      BY <1>2, <2>3, Concerned
    <3>2. /\ player.sample.session \in Sessions /\ player.candidate \in Loads
          /\ Candidate = load.selection
      BY <2>2, SampleTypes, Bounds DEF Prepares, Preparing, Ids, Loads
    <3>3. last'.session = player.sample.session /\ last'.id = player.candidate
      BY <2>2, <3>1, <3>2 DEF Identities, Candidate
    <3>4. Past(last')
      BY <1>2, Drained DEF SamplesPast, Samples
    <3>5. last'.progress = "preparing"
      BY <2>2, <3>3, <3>4 DEF Past, PastIn, Preparing
    <3> QED
      BY <1>2, <2>2, <3>5, DrainedLoad DEF Prepares, Malformed, Outcomes
  <2>4. CASE uncertain' \/ ~ Concerns(load, last')
    BY <1>2, <2>2, <2>4, DrainedLoad DEF Prepares
  <2> QED
    BY <2>3, <2>4
<1>3. CASE \E silent, expired \in BOOLEAN : CheckClocks(silent, expired)
  <2>1. PICK silent, expired \in BOOLEAN : CheckClocks(silent, expired)
    BY <1>3
  <2>2. UNCHANGED <<player, source>>
    BY <2>1 DEF CheckClocks, history
  <2>3. load'.selection = load.selection /\ (load'.state = load.state \/ load'.state = "OutcomeUnknown")
    BY <2>1, Checked
  <2> QED
    BY <2>2, <2>3 DEF Prepares, Preparing, Candidate
<1>4. CASE TakeSelection
  <2>1. UNCHANGED <<player, source>>
    BY <1>4 DEF TakeSelection, history
  <2>2. ~ LoadOpen
    BY <1>4, Idle, TakenLoad
  <2> QED
    BY <2>1, <2>2 DEF Prepares, Preparing, Candidate, LoadOpen, InFlight, Unresolved
<1>5. CASE LoadReply \/ LoadDeadline
  <2>1. UNCHANGED <<player, source>>
    BY <1>5 DEF LoadReply, LoadDeadline, history
  <2>2. Preparing /\ Candidate # 0 => ~ (LoadReply /\ rpc.id = 0)
    <3>1. LoadReply /\ rpc.id = 0 => NotIssued(load.selection)
      BY DEF LoadReply, Unissued, Refused
    <3>2. player.sample.session \in Sessions /\ (player.candidate # 0 => player.candidate \in Loads)
      BY SampleTypes, Bounds DEF Ids, Loads
    <3> QED
      BY <3>1, <3>2 DEF NotIssued, Prepares, Preparing, Candidate
  <2>3. load'.selection = load.selection
        /\ (load'.state \in {"AwaitingCompletion", "OutcomeUnknown"} \/ (LoadReply /\ rpc.id = 0))
    BY <1>5, Replied, Overran
  <2> QED
    BY <2>1, <2>2, <2>3 DEF Prepares, Preparing, Candidate
<1>6. CASE PlayerAcceptsLoad
  <2>1. load' = load
    BY <1>6, PlayerMoves DEF Player, worker, view
  <2>2. /\ rpc.selection = load.selection /\ load.state \in {"AwaitingAcceptance", "OutcomeUnknown"}
    BY <1>6, AcceptedLoad, AskedFor
  <2>3. player'.sample.session = player.sample.session /\ player.sample.session \in Sessions
        /\ player'.candidate = player'.issued /\ player'.candidate \in Loads
    BY <1>6, AcceptedLoad, SampleTypes
  <2>4. Candidate' = rpc.selection
    BY <1>6, <2>3, AcceptedLoad DEF Candidate
  <2> QED
    BY <2>1, <2>2, <2>3, <2>4 DEF Prepares
<1>7. CASE OtherLoad
  <2>3. player'.sample.session = player.sample.session /\ player.sample.session \in Sessions
        /\ player'.candidate = player'.issued /\ player'.candidate \in Loads
    BY <1>7, OtherLoaded, SampleTypes
  <2>4. Candidate' = 0
    BY <1>7, <2>3, OtherLoaded DEF Candidate
  <2> QED
    BY <2>3, <2>4 DEF Prepares
<1>8. CASE \/ PlayerAcceptsSeek \/ PlayerRejects \/ PlayerPrepares \/ PlayerReadFails \/ PlayerPlays
           \/ PlayerSeeks \/ PlayerStops
  <2>1. load' = load
    BY <1>8, PlayerMoves DEF Player, worker, view
  <2>2. /\ source' = source /\ player'.sample.session = player.sample.session
        /\ player'.candidate = player.candidate /\ player'.issued = player.issued
        /\ player'.up => player.up
    BY <1>8, AcceptedSeek, Rejected, Prepared, Disturbed, CarriedOut, Stopped DEF history
  <2> QED
    BY <2>1, <2>2 DEF Prepares, Preparing, Candidate
<1>9. CASE PlayerCommits \/ PlayerFails \/ PlayerUnloads \/ PlayerStarts
  <2>1. player'.candidate = 0
    BY <1>9, CommittedLoad, FailedLoad, UnloadedTrack, Started
  <2> QED
    BY <2>1 DEF Prepares, Preparing
<1> QED
  BY <1>1, <1>2, <1>3, <1>4, <1>5, <1>6, <1>7, <1>8, <1>9 DEF Next, Worker, Player

LEMMA SamplesTyped ==
  ASSUME DeckTypeOK
  PROVE  \A s \in Samples : /\ s \in SampleSet /\ s.session \in Nat /\ s.gen \in Nat
                            /\ s.id \in Nat /\ s.track \in Nat
<1>1. Told \subseteq SampleSet
  <2> SUFFICES ASSUME NEW i \in DOMAIN statuses PROVE statuses[i] \in SampleSet
    BY DEF Told
  <2> QED
    BY ElementOfSeq, LenProperties DEF DeckTypeOK, StreamTypes
<1>2. Samples \subseteq SampleSet
  BY <1>1, SampleTypes DEF Samples, DeckTypeOK, WorkerTypes
<1> QED
  BY <1>2, Bounds DEF SampleSet, Ids

LEMMA BeforeTransitive ==
  ASSUME NEW a, NEW b, NEW c, Before(a, b), Before(b, c),
         a.session \in Nat, b.session \in Nat, c.session \in Nat, a.gen \in Nat, b.gen \in Nat, c.gen \in Nat
  PROVE  Before(a, c)
BY DEF Before

LEMMA Published ==
  ASSUME DeckTypeOK, Publish
  PROVE  /\ Told' = Told \cup {player.sample} /\ Samples' = Samples
         /\ DOMAIN statuses' = 1 .. Len(statuses) + 1 /\ DOMAIN statuses = 1 .. Len(statuses)
         /\ Len(statuses) \in Nat
         /\ statuses'[Len(statuses) + 1] = player.sample
         /\ \A i \in DOMAIN statuses : statuses'[i] = statuses[i]
         /\ UNCHANGED <<display, views, worker, rpc, player, history, events>>
<1> DEFINE q == statuses
           n == Len(statuses)
<1>1. /\ statuses' \in Seq(SampleSet) /\ Len(statuses') = n + 1 /\ n \in Nat
      /\ statuses'[n + 1] = player.sample
      /\ \A i \in 1 .. n : statuses'[i] = statuses[i]
  BY Pushing, SampleTypes DEF Publish, DeckTypeOK, StreamTypes
<1>2. DOMAIN statuses = 1 .. n /\ DOMAIN statuses' = 1 .. n + 1
  BY <1>1, LenProperties DEF DeckTypeOK, StreamTypes
<1>3. Told' = Told \cup {player.sample}
  <2> HIDE DEF n
  <2> QED
    BY <1>1, <1>2 DEF Told
<1>4. UNCHANGED <<display, views, worker, rpc, player, history, events>>
  BY DEF Publish
<1>5. Samples' = Samples
  BY <1>3, <1>4 DEF Samples, worker, view
<1> QED
  BY <1>1, <1>2, <1>3, <1>4, <1>5

(* The steps that show or forget no sample. *)
LEMMA SamplesRest ==
  ASSUME DeckInv, [Next]_deckVars, ~ Publish, ~ DrainStatus, ~ Player
  PROVE  UNCHANGED <<Samples, Told, last, statuses, player, source, fate, sought>>
<1>1. UNCHANGED <<last, statuses, player, source, fate, sought>>
  BY PlayerRests DEF Next, Display, Submit, SubmitSeek, Admit, Poll, Worker, CheckClocks, TakeSelection,
     TakeSeek, LoadReply, LoadDeadline, SeekReply, SeekDeadline, NothingSubmitted, Finish, deckVars, worker,
     view, history
<1> QED
  BY <1>1 DEF Samples, Told

(* Time goes on in the player. *)
LEMMA PlayerAges ==
  ASSUME DeckInv, Player
  PROVE  /\ UNCHANGED <<Told, last, statuses>> /\ Samples' \subseteq Samples \cup {player'.sample}
         /\ player.sample \in Samples /\ player'.sample \in SampleSet
         /\ player'.sample.session \in Nat /\ player'.sample.gen \in Nat
         /\ Before(player.sample, player'.sample)
         /\ player'.sample.session = player.sample.session \/ PlayerStarts
<1> USE DEF DeckInv, DeckTypeOK
<1>1. UNCHANGED <<last, statuses>>
  BY PlayerMoves DEF worker, view
<1>2. UNCHANGED Told /\ Samples' \subseteq Samples \cup {player'.sample} /\ player.sample \in Samples
  BY <1>1 DEF Told, Samples
<1>3. player'.sample \in SampleSet
  <2>1. PlayerTypes'
    BY PlayerTypesStep DEF Next
  <2> QED
    BY <2>1 DEF PlayerTypes, Players
<1>4. player'.sample.session \in Nat /\ player'.sample.gen \in Nat
  BY <1>3, Bounds DEF SampleSet
<1>5. player.sample.session \in Nat /\ player.sample.gen \in Nat
  BY <1>2, SamplesTyped
<1>6. \/ /\ player'.sample.session = player.sample.session
         /\ player'.sample.gen = player.sample.gen \/ player'.sample.gen = player.sample.gen + 1
      \/ PlayerStarts /\ player'.sample.session = player.sample.session + 1
  <2>1. CASE PlayerAcceptsLoad \/ PlayerAcceptsSeek \/ PlayerRejects \/ PlayerStops
    BY <2>1, AcceptedLoad, AcceptedSeek, Rejected, Stopped
  <2>2. CASE OtherLoad \/ PlayerPrepares \/ PlayerFails \/ PlayerReadFails \/ PlayerPlays
    BY <2>2, OtherLoaded, Prepared, FailedLoad, Disturbed
  <2>3. CASE PlayerCommits \/ PlayerUnloads \/ PlayerSeeks
    BY <2>3, CommittedLoad, UnloadedTrack, CarriedOut
  <2>4. CASE PlayerStarts
    BY <2>4, Started
  <2> QED
    BY <2>1, <2>2, <2>3, <2>4 DEF Player
<1>7. Before(player.sample, player'.sample)
  <2>1. CASE PlayerStarts
    BY <1>4, <1>5, <2>1, Started DEF Before
  <2>2. CASE ~ PlayerStarts
    BY <1>4, <1>5, <1>6, <2>2 DEF Before
  <2> QED
    BY <2>1, <2>2
<1> QED
  BY <1>1, <1>2, <1>3, <1>4, <1>6, <1>7

LEMMA SamplesPastStep == ASSUME DeckInv, [Next]_deckVars PROVE SamplesPast'
<1> USE DEF DeckInv, DeckTypeOK
<1> DEFINE x == player.sample
           y == player'.sample
<1>1. CASE ~ Publish /\ ~ DrainStatus /\ ~ Player
  BY <1>1, SamplesRest DEF SamplesPast, InOrder, Past, PastIn, Before
<1>2. CASE Publish
  <2>1. player' = player /\ last' = last
    BY <1>2 DEF Publish, worker, view
  <2>2. \A s \in Samples' : Past(s)'
    BY <1>2, <2>1, Published DEF SamplesPast, Past, PastIn, Before
  <2>3. x.session # 0 /\ \A s \in Samples : Before(s, x)
    BY SampleTypes, Bounds DEF SamplesPast, Past, Sessions
  <2>4. \A i, j \in DOMAIN statuses' : i < j => Before(statuses'[i], statuses'[j])
    <3> SUFFICES ASSUME NEW i \in DOMAIN statuses', NEW j \in DOMAIN statuses', i < j
                 PROVE  Before(statuses'[i], statuses'[j])
      OBVIOUS
    <3>1. i \in DOMAIN statuses /\ statuses'[i] = statuses[i]
      BY <1>2, Published
    <3>2. CASE j \in DOMAIN statuses
      BY <1>2, <3>1, <3>2, Published DEF SamplesPast, InOrder
    <3>3. CASE j \notin DOMAIN statuses
      <4>1. statuses'[j] = x
        BY <1>2, <3>3, Published
      <4> QED
        BY <2>3, <3>1, <4>1 DEF Samples, Told
    <3> QED
      BY <3>2, <3>3
  <2>5. \A s \in Told' : Before(last', s) /\ s.session # 0
    BY <1>2, <2>1, <2>3, Published DEF SamplesPast, InOrder, Samples
  <2> QED
    BY <2>2, <2>4, <2>5 DEF SamplesPast, InOrder, Before
<1>3. CASE DrainStatus
  <2>1. player' = player
    BY <1>3 DEF DrainStatus
  <2>2. Samples' \subseteq Samples
    BY <1>3, <2>1, Drained DEF Samples
  <2>3. \A i \in DOMAIN statuses' : i + 1 \in DOMAIN statuses /\ statuses'[i] = statuses[i + 1]
    BY <1>3, Drained
  <2>4. DOMAIN statuses \subseteq Nat /\ DOMAIN statuses' \subseteq Nat \ {0} /\ 1 \in DOMAIN statuses
        /\ last' = statuses[1]
    <3>1. StreamTypes'
      BY StreamTypesStep
    <3> QED
      BY <1>3, <3>1, Drained, LenProperties DEF StreamTypes
  <2>5. \A i, j \in DOMAIN statuses' : i < j => Before(statuses'[i], statuses'[j])
    BY <2>3, <2>4 DEF SamplesPast, InOrder
  <2>6. \A s \in Told' : Before(last', s) /\ s.session # 0
    <3> SUFFICES ASSUME NEW i \in DOMAIN statuses'
                 PROVE  Before(last', statuses'[i]) /\ statuses'[i].session # 0
      BY DEF Told
    <3>1. statuses'[i] \in Told /\ 1 < i + 1
      BY <2>3, <2>4 DEF Told
    <3> QED
      BY <2>3, <2>4, <3>1 DEF SamplesPast, InOrder
  <2> QED
    BY <2>1, <2>2, <2>5, <2>6 DEF SamplesPast, InOrder, Past, PastIn, Before
<1>4. CASE Player
  <2>1. InOrder'
    BY <1>4, PlayerAges DEF SamplesPast, InOrder, Before
  <2>2. \A s \in Samples : Before(s, y)
    BY <1>4, PlayerAges, SamplesTyped, BeforeTransitive DEF SamplesPast, Past
  <2>3. Before(y, y)
    BY <1>4, PlayerAges DEF Before
  <2>4. player.issued \in Nat /\ player'.issued \in Nat /\ player.candidate \in Nat /\ player'.candidate \in Nat
    <3>1. PlayerTypes'
      BY PlayerTypesStep
    <3> QED
      BY <3>1, Bounds DEF PlayerTypes, Players, Ids
  <2>5. Past(x) /\ PastIn(x) /\ x.id \in Nat /\ x.track \in Nat /\ (x.id # 0 => x.progress # "idle")
        /\ x.session \in Nat /\ x.session # 0 /\ (player.candidate # 0 => player.candidate = player.issued)
    <3>1. x \in Samples
      BY DEF Samples
    <3> QED
      BY <3>1, SamplesTyped, SampleTypes, Bounds DEF SamplesPast, Past, Sessions, Prepares
  <2>6. ASSUME NEW s \in Samples, s.session = y.session
        PROVE  PastIn(s)'
    <3>1. ~ PlayerStarts
      BY <2>5, <2>6, SamplesTyped, Started DEF SamplesPast, Past, Before
    <3>2. PastIn(s) /\ s.id \in Nat /\ s.track \in Nat
      BY <1>4, <2>6, <3>1, PlayerAges, SamplesTyped DEF SamplesPast, Past
    <3>3. \/ player'.candidate = 0 /\ player'.issued = player.issued
          \/ player'.candidate = player.candidate /\ player'.issued = player.issued
          \/ player'.candidate = player.issued + 1 /\ player'.issued = player.issued + 1
      BY <1>4, <3>1, AcceptedLoad, AcceptedSeek, Rejected, OtherLoaded, Prepared, CommittedLoad, FailedLoad,
         UnloadedTrack, CarriedOut, Disturbed, Stopped DEF Player
    <3>4. CASE player'.candidate = player.issued + 1 /\ player'.issued = player.issued + 1
      BY <2>4, <3>2, <3>4 DEF PastIn
    <3> QED
      BY <3>2, <3>3, <3>4 DEF PastIn
  <2>7. PastIn(x)' /\ (y.id # 0 => y.progress # "idle") /\ y.session # 0
    <3>1. CASE PlayerStarts
      BY <2>5, <3>1, Started, Bounds DEF PastIn
    <3>2. CASE PlayerAcceptsLoad \/ PlayerAcceptsSeek \/ PlayerRejects \/ PlayerStops
      <4>1. y = x
        BY <3>2, AcceptedLoad, AcceptedSeek, Rejected, Stopped
      <4> QED
        BY <2>5, <2>6, <4>1 DEF Samples
    <3>3. CASE OtherLoad
      BY <2>4, <2>5, <3>3, OtherLoaded DEF PastIn
    <3>4. CASE PlayerUnloads \/ PlayerFails
      BY <2>4, <2>5, <3>4, UnloadedTrack, FailedLoad DEF PastIn
    <3>5. CASE PlayerCommits
      BY <2>4, <2>5, <3>5, CommittedLoad DEF PastIn
    <3>6. CASE PlayerPrepares
      BY <2>4, <2>5, <3>6, Prepared DEF PastIn
    <3>7. CASE PlayerSeeks \/ PlayerReadFails \/ PlayerPlays
      BY <2>4, <2>5, <3>7, CarriedOut, Disturbed DEF PastIn
    <3> QED
      BY <1>4, <3>1, <3>2, <3>3, <3>4, <3>5, <3>6, <3>7 DEF Player
  <2>8. \A s \in Samples' : Past(s)'
    <3>1. ASSUME NEW s \in Samples PROVE Past(s)'
      BY <2>2, <2>6, <3>1 DEF SamplesPast, Past, Before
    <3>2. Past(x)'
      BY <2>3, <2>7 DEF Past, Before
    <3> QED
      BY <1>4, <3>1, <3>2, PlayerAges
  <2> QED
    BY <2>1, <2>8 DEF SamplesPast
<1> QED
  BY <1>1, <1>2, <1>3, <1>4

(* A sample that tells of an end tells of one that is not to come any more. *)
LEMMA DecidedBefore ==
  ASSUME DeckInv, NEW s \in Samples,
         \A t \in Sessions, i \in Loads :
           source'[t][i] = source[t][i] \/ (t = player.sample.session /\ i = player.issued + 1),
         \A o \in Operations : fate'[o] = fate[o] \/ (player.candidate # 0 /\ o = Candidate)
  PROVE  Decided(s)'
<1> USE DEF DeckInv, DeckTypeOK
<1> SUFFICES ASSUME Tells(s), source'[s.session][s.id] # 0
             PROVE  fate'[source'[s.session][s.id]] = s.progress
  BY DEF Decided, Tells
<1>1. Past(s) /\ Decided(s) /\ s \in SampleSet
  BY SamplesTyped DEF SamplesPast, SamplesDecided
<1>2. s.session \in Sessions /\ s.id \in Loads
  BY <1>1, Bounds DEF Past, Tells, SampleSet, Sessions, Ids, Loads
<1>3. player.sample.session \in Sessions /\ player.issued \in Nat /\ player.candidate \in Ids
  BY SampleTypes, Bounds DEF Ids
<1>4. source'[s.session][s.id] = source[s.session][s.id]
  BY <1>1, <1>2, <1>3, Bounds DEF Past, PastIn, Loads
<1>5. source[s.session][s.id] \in Operations
  BY <1>2, <1>4, Bounds DEF PlayerTypes, Selections, Operations
<1>6. ~ (player.candidate # 0 /\ source[s.session][s.id] = Candidate)
  <2> SUFFICES ASSUME player.candidate # 0, source[s.session][s.id] = Candidate PROVE FALSE
    OBVIOUS
  <2>1. player.candidate \in Loads
    BY <1>3, Bounds DEF Ids, Loads
  <2>2. s.session = player.sample.session /\ s.id = player.candidate
    BY <1>2, <1>3, <1>4, <2>1 DEF Identities, Candidate
  <2> QED
    BY <1>1, <2>2 DEF Past, PastIn, Tells, Outcomes
<1> QED
  BY <1>1, <1>4, <1>5, <1>6 DEF Decided

LEMMA SamplesDecidedStep == ASSUME DeckInv, [Next]_deckVars PROVE SamplesDecided'
<1> USE DEF DeckInv, DeckTypeOK
<1> DEFINE x == player.sample
           y == player'.sample
<1>1. CASE ~ Publish /\ ~ DrainStatus /\ ~ Player
  BY <1>1, SamplesRest DEF SamplesDecided, Decided, Tells
<1>2. CASE Publish
  BY <1>2, Published DEF SamplesDecided, Decided, Tells, history
<1>3. CASE DrainStatus
  <2>1. UNCHANGED <<player, source, fate>>
    BY <1>3 DEF DrainStatus
  <2>2. Samples' \subseteq Samples
    BY <1>3, <2>1, Drained DEF Samples
  <2> QED
    BY <2>1, <2>2 DEF SamplesDecided, Decided, Tells
<1>4. CASE Player
  <2>1. /\ \A t \in Sessions, i \in Loads :
             source'[t][i] = source[t][i] \/ (t = x.session /\ i = player.issued + 1)
        /\ \A o \in Operations : fate'[o] = fate[o] \/ (player.candidate # 0 /\ o = Candidate)
    <3>1. CASE PlayerAcceptsLoad
      BY <3>1, AcceptedLoad
    <3>2. CASE OtherLoad
      BY <3>2, OtherLoaded DEF Candidate
    <3>3. CASE PlayerUnloads \/ PlayerCommits \/ PlayerFails
      BY <3>3, UnloadedTrack, CommittedLoad, FailedLoad DEF Candidate
    <3>4. CASE \/ PlayerAcceptsSeek \/ PlayerRejects \/ PlayerPrepares \/ PlayerSeeks \/ PlayerReadFails
               \/ PlayerPlays \/ PlayerStops \/ PlayerStarts
      <4>1. UNCHANGED <<source, fate>>
        BY <3>4, AcceptedSeek, Rejected, Prepared, CarriedOut, Disturbed, Stopped, Started DEF history
      <4> QED
        BY <4>1
    <3> QED
      BY <1>4, <3>1, <3>2, <3>3, <3>4 DEF Player
  <2>2. \A s \in Samples : Decided(s)'
    BY <2>1, DecidedBefore
  <2>3. ASSUME y.session = x.session, y.id = x.id, y.progress = x.progress
        PROVE  Decided(x)'
    <3>1. x \in Samples
      BY DEF Samples
    <3>2. Tells(x) /\ source'[x.session][x.id] # 0 => fate'[source'[x.session][x.id]] = x.progress
      BY <2>1, <3>1, DecidedBefore DEF Decided, Tells
    <3> QED
      BY <2>3, <3>2 DEF Decided, Tells
  <2>4. ASSUME y.session = x.session, y.id = player.candidate, player.candidate # 0,
               \A o \in Operations : o = Candidate => fate'[o] = y.progress
        PROVE  Decided(x)'
    <3>1. player.candidate \in Loads /\ player.candidate = player.issued /\ x.session \in Sessions
          /\ player.issued \in Nat
      BY <2>4, SampleTypes, Bounds DEF Ids, Loads, Prepares
    <3>2. source'[x.session][player.candidate] = Candidate
      BY <2>1, <3>1 DEF Candidate
    <3>3. Candidate # 0 => Candidate \in Operations
      BY <3>1, Bounds DEF Candidate, PlayerTypes, Selections, Operations
    <3> QED
      BY <2>4, <3>2, <3>3 DEF Decided
  <2>5. Decided(x)'
    <3>1. CASE PlayerAcceptsLoad \/ PlayerAcceptsSeek \/ PlayerRejects \/ PlayerStops
      BY <2>3, <3>1, AcceptedLoad, AcceptedSeek, Rejected, Stopped
    <3>2. CASE PlayerSeeks \/ PlayerReadFails \/ PlayerPlays
      BY <2>3, <3>2, CarriedOut, Disturbed
    <3>3. CASE OtherLoad
      BY <2>3, <2>4, <3>3, OtherLoaded DEF Candidate
    <3>4. CASE PlayerUnloads
      BY <2>3, <2>4, <3>4, UnloadedTrack DEF Candidate
    <3>5. CASE PlayerCommits \/ PlayerFails
      BY <2>4, <3>5, CommittedLoad, FailedLoad DEF Candidate
    <3>6. CASE PlayerPrepares
      BY <3>6, Prepared DEF Decided, Tells, Outcomes
    <3>7. CASE PlayerStarts
      BY <3>7, Started DEF Decided, Tells
    <3> QED
      BY <1>4, <3>1, <3>2, <3>3, <3>4, <3>5, <3>6, <3>7 DEF Player
  <2>6. Samples' \subseteq Samples \cup {y}
    BY <1>4, PlayerAges
  <2>7. \A s \in Samples' : Decided(s)'
    <3> SUFFICES ASSUME NEW s \in Samples' PROVE Decided(s)'
      OBVIOUS
    <3>1. CASE s \in Samples
      BY <2>2, <3>1
    <3>2. CASE s = y
      BY <2>5, <3>2 DEF Decided, Tells
    <3> QED
      BY <2>6, <3>1, <3>2
  <2> QED
    BY <2>7 DEF SamplesDecided
<1> QED
  BY <1>1, <1>2, <1>3, <1>4

-----------------------------------------------------------------------------
(* What the worker matches                                                 *)

(* What is waited for keeps its identity while others are issued. *)
LEMMA StillMatched ==
  ASSUME DeckInv, NEW id \in Loads, Match(id), load.selection \in Operations, last.session # 0,
         UNCHANGED <<Told, last, load.selection>>,
         player'.sample.session \in Nat, player'.sample.session >= player.sample.session,
         \A t \in Sessions, i \in Loads :
           source'[t][i] = source[t][i] \/ (t = player.sample.session /\ i = player.issued + 1)
  PROVE  Match(id)'
<1> USE DEF DeckInv, DeckTypeOK
<1>1. last.session \in Sessions /\ Sessions \subseteq Nat /\ player.sample.session \in Nat
      /\ player.issued \in Nat
  BY SampleTypes, Bounds DEF WorkerTypes, SampleSet, Sessions, Ids
<1>2. CASE source[last.session][id] = load.selection
  <2>1. source[last.session][id] # 0
    BY <1>2, Bounds DEF Operations
  <2>2. ~ (last.session = player.sample.session /\ id = player.issued + 1)
    BY <1>1, <2>1, Bounds DEF Identities, Loads
  <2> QED
    BY <1>1, <1>2, <2>2 DEF Match
<1>3. CASE \A s \in Told \cup {player.sample} : s.session > last.session
  <2>0. player.sample.session > last.session
    BY <1>3
  <2>1. \A a, b, c \in Nat : b > a /\ c >= b => c > a
    OBVIOUS
  <2>2. player'.sample.session > last.session
    BY <1>1, <2>0, <2>1
  <2> QED
    BY <1>3, <2>2 DEF Match
<1> QED
  BY <1>2, <1>3 DEF Match

LEMMA WaitsFor ==
  ASSUME DeckInv
  PROVE  /\ Awaits => load.id \in Loads /\ load.selection \in Operations /\ last.session # 0
         /\ Answers => rpc.id \in Loads /\ load.selection \in Operations /\ last.session # 0
BY Bounds DEF DeckInv, DeckTypeOK, Awaits, Answers, WorkerTypes, LoadRecords, Slot, Seen, RequestPlace, Ids, Loads

LEMMA MatchedStep == ASSUME DeckInv, [Next]_deckVars PROVE Matched'
<1> USE DEF DeckInv, DeckTypeOK
<1> DEFINE x == player.sample
<1>1. CASE \/ Poll \/ UNCHANGED deckVars \/ NothingSubmitted \/ Finish \/ TakeSeek \/ SeekReply \/ SeekDeadline
           \/ (\E valid \in BOOLEAN : Submit(valid)) \/ (\E frame \in Targets : SubmitSeek(frame))
  <2>1. UNCHANGED <<statuses, last, player, source, load, uncertain>>
    BY <1>1 DEF Poll, NothingSubmitted, Finish, TakeSeek, SeekReply, SeekDeadline, Submit, SubmitSeek, Admit,
       deckVars, worker, view, history
  <2>2. \/ UNCHANGED <<pc, rpc>>
        \/ pc' \in {"drain", "finish", "seeking"}
    BY <1>1 DEF Poll, NothingSubmitted, Finish, TakeSeek, SeekReply, SeekDeadline, Submit, SubmitSeek, Admit,
       deckVars, worker
  <2> QED
    BY <2>1, <2>2 DEF Matched, Awaits, Answers, Match, Told
<1>2. CASE Publish
  <2>1. UNCHANGED <<last, player, source, load, uncertain, pc, rpc>> /\ Told' = Told \cup {x}
    BY <1>2, Published DEF worker, view, history
  <2> QED
    BY <2>1 DEF Matched, Awaits, Answers, Match
<1>3. CASE DrainStatus
  <2>1. UNCHANGED <<player, source>> /\ pc' = "drain"
    BY <1>3 DEF DrainStatus
  <2>2. SUFFICES ASSUME Awaits' PROVE Match(load.id)'
    BY <2>1 DEF Matched, Answers
  <2>3. ~ uncertain /\ ~ RolledBack(last') /\ last' \in Told /\ last' \in SampleSet
    BY <1>3, <2>2, Drained DEF Awaits
  <2>4. /\ load'.id = load.id /\ load'.selection = load.selection
        /\ load.state \in {"AwaitingCompletion", "OutcomeUnknown"}
    BY <1>3, <2>2, DrainedLoad DEF Awaits, Concerns
  <2>5. Awaits /\ last.session # 0 /\ last'.session = last.session
    BY <2>2, <2>3, <2>4 DEF Awaits, Seen, RolledBack, InFlight
  <2>6. ~ (last'.session > last.session)
    BY <2>3, <2>5, Bounds DEF SampleSet
  <2>7. source[last.session][load.id] = load.selection
    BY <2>3, <2>5, <2>6 DEF Matched, Match
  <2> QED
    BY <2>1, <2>4, <2>5, <2>7 DEF Match
<1>4. CASE \E silent, expired \in BOOLEAN : CheckClocks(silent, expired)
  <2>1. PICK silent, expired \in BOOLEAN : CheckClocks(silent, expired)
    BY <1>4
  <2>2. UNCHANGED <<player, source, last, statuses>> /\ pc' = "take" /\ statuses = <<>> /\ pc = "drain"
    BY <2>1 DEF CheckClocks, history
  <2>3. /\ load'.selection = load.selection /\ load'.id = load.id
        /\ load'.state = load.state \/ (InFlight(load) /\ load'.state = "OutcomeUnknown")
        /\ uncertain' = (uncertain \/ (~ connected' /\ DependsOnSession))
    BY <2>1, Checked
  <2>4. Awaits' => Awaits
    BY <2>2, <2>3 DEF Awaits, InFlight, Slot, WorkerTypes
  <2>5. Told' = {}
    BY <2>2 DEF Told
  <2>6. Told = {}
    BY <2>2 DEF Told
  <2> QED
    BY <2>2, <2>3, <2>4, <2>5, <2>6 DEF Matched, Answers, Match
<1>5. CASE TakeSelection
  <2>1. UNCHANGED <<statuses, player>> /\ pc = "take"
    BY <1>5 DEF TakeSelection
  <2> QED
    BY <1>5, <2>1, TakenLoad DEF Matched, Awaits, Answers, Sent, Told
<1>6. CASE LoadReply \/ LoadDeadline
  <2>1. UNCHANGED <<statuses, last, player, source, uncertain>> /\ pc = "loading" /\ pc' = "finish"
    BY <1>6 DEF LoadReply, LoadDeadline, history
  <2>2. load'.selection = load.selection
    BY <1>6, Replied, Overran
  <2>3. Awaits' => Answers /\ load'.id = rpc.id
    BY <1>6, <2>1, Replied, Overran DEF Awaits, Answers, LoadReply, Slot
  <2> QED
    BY <2>1, <2>2, <2>3 DEF Matched, Answers, Match, Told
<1>7. CASE Player
  <2>1. UNCHANGED <<statuses, last, load, uncertain, pc, Told>>
    BY <1>7, PlayerMoves DEF worker, view, Told
  <2>2. player'.sample.session \in Nat /\ x.session \in Nat /\ player'.sample.session >= x.session
    <3>1. x \in Samples
      BY DEF Samples
    <3> QED
      BY <1>7, <3>1, PlayerAges, SamplesTyped DEF Before
  <2>3. Awaits' <=> Awaits
    BY <2>1 DEF Awaits
  <2>4. \A t \in Sessions, i \in Loads :
          source'[t][i] = source[t][i] \/ (t = x.session /\ i = player.issued + 1)
    <3>1. CASE PlayerAcceptsLoad
      BY <3>1, AcceptedLoad
    <3>2. CASE OtherLoad
      BY <3>2, OtherLoaded
    <3>3. CASE ~ PlayerAcceptsLoad /\ ~ OtherLoad
      <4>1. source' = source
        BY <3>3, IdentitiesRest, Started DEF history
      <4> QED
        BY <4>1
    <3> QED
      BY <3>1, <3>2, <3>3
  <2>5. Awaits' => Match(load.id)'
    <3> SUFFICES ASSUME Awaits PROVE Match(load.id)'
      BY <2>3
    <3>1. load.id \in Loads /\ load.selection \in Operations /\ last.session # 0 /\ Match(load.id)
      BY WaitsFor DEF Matched
    <3>2. \A id \in Loads : Match(id) => Match(id)'
      BY <2>1, <2>2, <2>4, <3>1, StillMatched
    <3> QED
      BY <2>1, <3>1, <3>2 DEF Match
  <2>6. Answers' => Match(rpc.id)'
    <3> SUFFICES ASSUME Answers' PROVE Match(rpc.id)'
      OBVIOUS
    <3>1. CASE rpc' = rpc
      <4>1. Answers
        BY <2>1, <3>1 DEF Answers
      <4>2. rpc.id \in Loads /\ load.selection \in Operations /\ last.session # 0 /\ Match(rpc.id)
        BY <4>1, WaitsFor DEF Matched
      <4>3. \A id \in Loads : Match(id) => Match(id)'
        BY <2>1, <2>2, <2>4, <4>2, StillMatched
      <4> QED
        BY <2>1, <3>1, <4>2, <4>3 DEF Match
    <3>2. CASE PlayerAcceptsLoad
      <4>1. /\ AsksLoad /\ rpc.at = "sent" /\ rpc'.id = player.issued + 1 /\ rpc.selection = load.selection
            /\ player'.sample = x /\ player.issued + 1 \in Loads /\ x.session \in Sessions
            /\ source'[x.session][player.issued + 1] = rpc.selection
        BY <3>2, AcceptedLoad, AskedFor, SampleTypes DEF Answers, NoRpc
      <4>2. pc = "loading"
        BY <4>1 DEF RequestPlace
      <4>3. \A s \in Told : s.session = x.session
        BY <4>1, <4>2 DEF Matched
      <4>4. CASE last.session = x.session
        BY <2>1, <4>1, <4>4 DEF Match
      <4>5. CASE last.session # x.session
        <5>1. last \in Samples /\ last.session \in Nat
          BY SamplesTyped DEF Samples
        <5>2. x.session > last.session
          BY <2>2, <4>5, <5>1 DEF SamplesPast, Past, Before
        <5> QED
          BY <2>1, <4>1, <4>3, <5>2 DEF Match
      <4> QED
        BY <4>4, <4>5
    <3>3. CASE PlayerAcceptsSeek \/ PlayerRejects
      BY <2>1, <3>3, AcceptedSeek, Rejected DEF Answers, RequestPlace, AsksSeek, Asking, NoRpc
    <3>4. CASE PlayerStops
      BY <3>1, <3>4, Stopped DEF Answers
    <3> QED
      BY <1>7, <3>1, <3>2, <3>3, <3>4, RequestRests DEF Player
  <2>7. ASSUME pc' = "take" \/ (pc' = "loading" /\ rpc'.at = "sent")
        PROVE  \A s \in Told' : s.session = player'.sample.session
    <3>1. rpc'.at = "sent" => rpc' = rpc
      <4>1. CASE PlayerAcceptsLoad \/ PlayerAcceptsSeek \/ PlayerRejects \/ PlayerStops
        BY <4>1, AcceptedLoad, AcceptedSeek, Rejected, Stopped DEF NoRpc, Asking
      <4> QED
        BY <1>7, <4>1, RequestRests DEF Player
    <3>2. ~ PlayerStarts
      BY <2>1, <2>7, <3>1, Started DEF RequestPlace, Asking
    <3>3. player'.sample.session = x.session
      BY <1>7, <3>2, PlayerAges
    <3> QED
      BY <2>1, <2>7, <3>1, <3>3 DEF Matched
  <2> QED
    BY <2>5, <2>6, <2>7 DEF Matched
<1> QED
  BY <1>1, <1>2, <1>3, <1>4, <1>5, <1>6, <1>7 DEF Next, Display, Worker

-----------------------------------------------------------------------------
(* Outcomes and names                                                      *)

(* An identity of the deck stays that of its operation. *)
LEMMA SourceStays ==
  ASSUME DeckInv, [Next]_deckVars, NEW t \in Sessions, NEW i \in Loads, source[t][i] # 0
  PROVE  source'[t][i] = source[t][i]
<1> USE DEF DeckInv, DeckTypeOK
<1>1. ~ (t = player.sample.session /\ i = player.issued + 1)
  BY SampleTypes, Bounds DEF Identities, Sessions, Loads, Ids
<1>2. CASE PlayerAcceptsLoad
  BY <1>1, <1>2, AcceptedLoad
<1>3. CASE OtherLoad
  BY <1>1, <1>3, OtherLoaded
<1>4. CASE PlayerStarts
  BY <1>4, Started DEF history
<1> QED
  BY <1>2, <1>3, <1>4, IdentitiesRest

(* The end of a load is decided once. *)
LEMMA FateStays ==
  ASSUME DeckInv, [Next]_deckVars, NEW o \in Operations, ~ (Preparing /\ o = Candidate)
  PROVE  fate'[o] = fate[o]
<1> USE DEF DeckInv, DeckTypeOK
<1>1. CASE ~ Player
  BY <1>1, PlayerRests DEF Next, deckVars, history
<1>2. CASE OtherLoad \/ PlayerUnloads
  BY <1>2, OtherLoaded, UnloadedTrack DEF Preparing, Candidate
<1>3. CASE PlayerCommits \/ PlayerFails
  BY <1>3, CommittedLoad, FailedLoad DEF Preparing, Candidate
<1>4. CASE \/ PlayerAcceptsLoad \/ PlayerAcceptsSeek \/ PlayerRejects \/ PlayerPrepares \/ PlayerSeeks
           \/ PlayerReadFails \/ PlayerPlays \/ PlayerStops \/ PlayerStarts
  BY <1>4, AcceptedLoad, AcceptedSeek, Rejected, Prepared, CarriedOut, Disturbed, Stopped, Started DEF history
<1> QED
  BY <1>1, <1>2, <1>3, <1>4 DEF Player

LEMMA EndsStep == ASSUME DeckInv, [Next]_deckVars PROVE Ends'
<1> USE DEF DeckInv, DeckTypeOK
<1>1. ASSUME load.state = "Terminal"
      PROVE  /\ load.selection \in Operations /\ load.id \in Loads
             /\ fate'[load.selection] = fate[load.selection]
             /\ source[1][load.id] = load.selection => source'[1][load.id] = load.selection
  <2>1. load.selection \in Operations /\ load.id \in Loads /\ load.selection # 0
    BY <1>1, Bounds DEF Slot, WorkerTypes, LoadRecords, Ids, Loads, Operations
  <2>2. ~ (Preparing /\ load.selection = Candidate)
    BY <1>1, <2>1 DEF Prepares
  <2> QED
    BY <2>1, <2>2, FateStays, SourceStays, Bounds
<1>2. CASE DrainStatus
  <2>1. UNCHANGED <<source, fate>>
    BY <1>2 DEF DrainStatus
  <2>2. /\ last' \in Samples /\ last' \in SampleSet /\ last \in SampleSet /\ Before(last, last')
        /\ last'.session # 0
    BY <1>2, Drained DEF Samples, WorkerTypes, SamplesPast, InOrder
  <2>3. SUFFICES ASSUME load'.state = "Terminal"
                 PROVE  /\ load'.outcome = fate[load'.selection] /\ load'.outcome \in Outcomes
                        /\ last'.session <= 1 => source[1][load'.id] = load'.selection
    BY <2>1 DEF Ends
  <2>4. CASE load' = load
    <3>1. last'.session <= 1 => last.session <= 1
      BY <2>2, Bounds DEF Before, SampleSet
    <3> QED
      BY <2>3, <2>4, <3>1 DEF Ends
  <2>5. CASE load' # load
    <3>1. ~ uncertain' /\ Concerns(load, last') /\ load'.outcome = last'.progress
          /\ last'.progress \in Outcomes /\ load'.selection = load.selection /\ load'.id = load.id
      BY <1>2, <2>3, <2>5, DrainedLoad DEF Concerns
    <3>2. /\ last'.session \in Sessions /\ last'.id = load.id /\ last'.id # 0
          /\ load.selection \in Operations /\ source[last'.session][last'.id] = load.selection
      BY <1>2, <3>1, Concerned
    <3>3. Decided(last') /\ load.selection # 0
      BY <2>2, <3>2, Bounds DEF SamplesDecided, Operations
    <3>4. fate[load.selection] = last'.progress
      BY <3>1, <3>2, <3>3 DEF Decided, Tells
    <3>5. last'.session <= 1 => last'.session = 1
      BY <3>2, Bounds DEF Sessions
    <3> QED
      BY <3>1, <3>2, <3>4, <3>5
  <2> QED
    BY <2>4, <2>5
<1>3. CASE \E silent, expired \in BOOLEAN : CheckClocks(silent, expired)
  <2>1. PICK silent, expired \in BOOLEAN : CheckClocks(silent, expired)
    BY <1>3
  <2>2. UNCHANGED <<source, fate, last>>
    BY <2>1 DEF CheckClocks, history
  <2>3. /\ load'.selection = load.selection /\ load'.id = load.id /\ load'.outcome = load.outcome
        /\ load'.state = "Terminal" => load.state = "Terminal"
    BY <2>1, Checked
  <2> QED
    BY <2>2, <2>3 DEF Ends
<1>4. CASE TakeSelection
  BY <1>4, TakenLoad DEF Ends
<1>5. CASE LoadReply \/ LoadDeadline
  BY <1>5, Replied, Overran DEF Ends
<1>6. CASE \/ Display \/ Publish \/ Player \/ TakeSeek \/ SeekReply \/ SeekDeadline \/ NothingSubmitted \/ Finish
           \/ UNCHANGED deckVars
  <2>1. UNCHANGED <<load, last>>
    BY <1>6, PlayerMoves DEF Display, Submit, SubmitSeek, Admit, Poll, Publish, TakeSeek, SeekReply, SeekDeadline,
       NothingSubmitted, Finish, deckVars, worker, view
  <2> QED
    BY <1>1, <2>1 DEF Ends
<1> QED
  BY <1>2, <1>3, <1>4, <1>5, <1>6 DEF Next, Worker

LEMMA NamesStep == ASSUME DeckInv, [Next]_deckVars PROVE Names'
<1> USE DEF DeckInv, DeckTypeOK
<1>1. ASSUME last.session <= 1, named.name # 0
      PROVE  /\ last.session = 1 /\ last.track # 0
             /\ source'[last.session][last.track] = named.name
  <2>1. last.track # 0 /\ source[last.session][last.track] = named.name /\ last.session # 0
    BY <1>1 DEF Names, Seen
  <2>2. last.session = 1 /\ last.session \in Sessions /\ last.track \in Loads
    BY <1>1, <2>1, Bounds DEF WorkerTypes, SampleSet, Sessions, Ids, Loads
  <2> QED
    BY <1>1, <2>1, <2>2, SourceStays
<1>2. CASE DrainStatus
  <2>1. /\ last' \in SampleSet /\ last \in SampleSet /\ Before(last, last') /\ last'.session # 0
    BY <1>2, Drained DEF Samples, WorkerTypes, SamplesPast, InOrder
  <2>2. named' = NamedAfter(last', load')
    BY <1>2 DEF DrainStatus
  <2>3. SUFFICES ASSUME last'.session <= 1, named'.name # 0
                 PROVE  last'.track # 0 /\ source'[last'.session][last'.track] = named'.name
    BY DEF Names
  <2>4. last'.session = 1 /\ last.session <= 1
    BY <2>1, <2>3, Bounds DEF Before, SampleSet
  <2>5. CASE load'.state = "Terminal" /\ last'.track = load'.id
             /\ named' = [track |-> last'.track, name |-> load'.selection]
    <3>1. Ends' /\ Slot'
      BY EndsStep, SlotStep
    <3> QED
      BY <2>4, <2>5, <3>1 DEF Ends, Slot
  <2>6. CASE named' = named /\ last'.track = named.track
    BY <1>1, <2>3, <2>4, <2>6 DEF Seen
  <2> QED
    BY <2>2, <2>3, <2>5, <2>6 DEF NamedAfter
<1>3. CASE ~ DrainStatus
  <2>1. UNCHANGED <<last, named>>
    BY <1>3, PlayerMoves DEF Next, Display, Submit, SubmitSeek, Admit, Poll, Publish, Worker, CheckClocks,
       TakeSelection, TakeSeek, LoadReply, LoadDeadline, SeekReply, SeekDeadline, NothingSubmitted, Finish,
       deckVars, worker, view
  <2> QED
    BY <1>1, <2>1 DEF Names
<1> QED
  BY <1>2, <1>3

-----------------------------------------------------------------------------
(* Seeks                                                                   *)

LEMMA SoughtGrows ==
  ASSUME DeckInv, [Next]_deckVars
  PROVE  sought \subseteq sought' /\ (~ PlayerSeeks => sought' = sought)
<1> USE DEF DeckInv, DeckTypeOK
<1>1. CASE ~ Player
  BY <1>1, PlayerRests DEF Next, deckVars, history
<1>2. CASE PlayerSeeks
  BY <1>2, CarriedOut
<1>3. CASE OtherLoad \/ PlayerUnloads \/ PlayerCommits \/ PlayerFails \/ PlayerAcceptsLoad
  BY <1>3, OtherLoaded, UnloadedTrack, CommittedLoad, FailedLoad, AcceptedLoad
<1>4. CASE \/ PlayerAcceptsSeek \/ PlayerRejects \/ PlayerPrepares
           \/ PlayerReadFails \/ PlayerPlays \/ PlayerStops \/ PlayerStarts
  BY <1>4, AcceptedSeek, Rejected, Prepared, Disturbed, Stopped, Started DEF history
<1> QED
  BY <1>1, <1>2, <1>3, <1>4 DEF Player

(* How the player's sample goes on: only a commit shows a new track, and only a *)
(* seek a new generation of the track that was there.                           *)
LEMMA Onwards ==
  ASSUME DeckInv, Player
  PROVE  LET x == player.sample
             y == player'.sample
         IN \/ y.session = x.session /\ y.track = x.track /\ y.gen = x.gen /\ y.at = x.at
            \/ PlayerSeeks /\ Sought(player.sample)'
            \/ PlayerCommits /\ y.track = player.candidate /\ player.candidate # 0 /\ y.session = x.session
            \/ y.track = 0
<1> USE DEF DeckInv, DeckTypeOK
<1>1. CASE PlayerAcceptsLoad \/ PlayerAcceptsSeek \/ PlayerRejects \/ PlayerStops
  BY <1>1, AcceptedLoad, AcceptedSeek, Rejected, Stopped
<1>2. CASE OtherLoad \/ PlayerPrepares \/ PlayerFails \/ PlayerReadFails \/ PlayerPlays
  BY <1>2, OtherLoaded, Prepared, FailedLoad, Disturbed
<1>3. CASE PlayerCommits \/ PlayerUnloads \/ PlayerStarts
  BY <1>3, CommittedLoad, UnloadedTrack, Started
<1>4. CASE PlayerSeeks
  BY <1>4, CarriedOut DEF Sought
<1> QED
  BY <1>1, <1>2, <1>3, <1>4 DEF Player

LEMMA LandingsStep == ASSUME DeckInv, [Next]_deckVars PROVE Landings'
<1> USE DEF DeckInv, DeckTypeOK
<1> DEFINE x == player.sample
           y == player'.sample
<1>1. CASE ~ Player
  <2>1. Samples' \subseteq Samples
    <3>1. CASE DrainStatus
      BY <3>1, Drained DEF Samples, DrainStatus
    <3> QED
      BY <1>1, <3>1, Published, SamplesRest
  <2> QED
    BY <2>1, SoughtGrows DEF Landings, Sought
<1>2. CASE Player
  <2>1. Samples' \subseteq Samples \cup {y} /\ x \in Samples /\ \A s \in Samples : Before(s, y)
    BY <1>2, PlayerAges, SamplesTyped, BeforeTransitive DEF SamplesPast, Past
  <2>2. SUFFICES ASSUME NEW a \in Samples', NEW b \in Samples', a.session = b.session, a.track = b.track,
                        b.track # 0, a.gen < b.gen
                 PROVE  Sought(b)'
    BY DEF Landings
  <2>3. b.gen \in Nat /\ a.gen \in Nat /\ a.session \in Nat
    BY <1>2, <2>1, PlayerAges, SamplesTyped
  <2>4. a \in Samples
    <3> SUFFICES ASSUME a = y PROVE FALSE
      BY <2>1
    <3>1. b # y
      BY <2>2, <2>3
    <3>2. Before(b, a)
      BY <2>1, <3>1
    <3> QED
      BY <2>2, <2>3, <3>2 DEF Before
  <2>5. CASE b \in Samples
    BY <1>2, <2>2, <2>4, <2>5, SoughtGrows DEF Landings, Sought
  <2>6. CASE b = y
    <3>1. CASE y.session = x.session /\ y.track = x.track /\ y.gen = x.gen /\ y.at = x.at
      <4>1. Sought(x)
        BY <2>1, <2>2, <2>4, <2>6, <3>1 DEF Landings
      <4> QED
        BY <2>6, <3>1, <4>1, SoughtGrows DEF Sought
    <3>2. CASE PlayerSeeks /\ Sought(x)'
      BY <2>6, <3>2 DEF Sought
    <3>3. CASE y.track = player.candidate /\ player.candidate # 0 /\ y.session = x.session
      <4>1. a.session = x.session /\ a.track = player.candidate /\ a.track \in Nat
        BY <2>2, <2>4, <2>6, <3>3, SamplesTyped
      <4>2. a.track < player.candidate
        BY <2>4, <3>3, <4>1 DEF SamplesPast, Past, PastIn
      <4> QED
        BY <4>1, <4>2
    <3>4. CASE y.track = 0
      BY <2>2, <2>6, <3>4
    <3> QED
      BY <1>2, <3>1, <3>2, <3>3, <3>4, Onwards
  <2> QED
    BY <2>1, <2>5, <2>6
<1> QED
  BY <1>1, <1>2

LEMMA AimedStep == ASSUME DeckInv, [Next]_deckVars PROVE Aimed'
<1> USE DEF DeckInv, DeckTypeOK
<1> DEFINE x == player.sample
           y == player'.sample
<1>1. CASE \/ Display \/ Publish \/ LoadReply \/ LoadDeadline \/ NothingSubmitted \/ Finish
           \/ UNCHANGED deckVars
  <2>1. UNCHANGED <<seek, uncertain, last, player>>
    BY <1>1, PlayerRests DEF Display, Submit, SubmitSeek, Admit, Poll, Publish, LoadReply, LoadDeadline,
       NothingSubmitted, Finish, deckVars, worker, view
  <2>2. Samples' \subseteq Samples
    <3>1. CASE Publish
      BY <3>1, Published
    <3>2. CASE ~ Publish
      <4>1. statuses' = statuses
        BY <1>1, <3>2 DEF Display, Submit, SubmitSeek, Admit, Poll, LoadReply, LoadDeadline,
           NothingSubmitted, Finish, deckVars
      <4> QED
        BY <2>1, <4>1 DEF Samples, Told
    <3> QED
      BY <3>1, <3>2
  <2> QED
    BY <2>1, <2>2, SoughtGrows DEF Aimed, Sought
<1>2. CASE DrainStatus
  <2>1. player' = player
    BY <1>2 DEF DrainStatus
  <2>2. Samples' \subseteq Samples
    BY <1>2, <2>1, Drained DEF Samples
  <2>3. /\ seek'.on => seek.on
        /\ seek'.request = seek.request
        /\ uncertain' = (uncertain \/ RolledBack(last'))
    BY <1>2, Drained, DrainedSeek
  <2>4. seek'.on /\ ~ uncertain' => last'.session = last.session
    BY <2>3 DEF Seen, RolledBack
  <2> QED
    BY <2>1, <2>2, <2>3, <2>4, SoughtGrows DEF Aimed, Sought
<1>3. CASE \E silent, expired \in BOOLEAN : CheckClocks(silent, expired)
  <2>1. PICK silent, expired \in BOOLEAN : CheckClocks(silent, expired)
    BY <1>3
  <2>2. UNCHANGED <<player, last, statuses>>
    BY <2>1 DEF CheckClocks
  <2>3. seek'.on = seek.on /\ seek'.request = seek.request /\ (uncertain => uncertain')
    BY <2>1, Checked
  <2>4. Samples' = Samples
    BY <2>2 DEF Samples, Told
  <2> QED
    BY <2>2, <2>3, <2>4, SoughtGrows DEF Aimed, Sought
<1>4. CASE TakeSelection
  BY <1>4, TakenLoad, Idle DEF Aimed
<1>5. CASE TakeSeek
  <2>1. UNCHANGED <<player, last, statuses, sought>>
    BY <1>5 DEF TakeSeek, history
  <2>2. Samples' = Samples
    BY <2>1 DEF Samples, Told
  <2>3. SUFFICES ASSUME seek'.on
                 PROVE  /\ seek'.request.track # 0
                        /\ last.session = x.session =>
                             /\ seek'.request.track <= player.issued
                             /\ player.candidate # 0 => seek'.request.track < player.candidate
                        /\ \A b \in Samples :
                             b.session = last.session /\ b.track = seek'.request.track
                               /\ b.gen > seek'.request.gen => Sought(b)
    BY <2>1, <2>2 DEF Aimed, Sought
  <2>4. seek'.request.track = last.track /\ last.track # 0 /\ seek'.request.gen = last.gen
    BY <1>5, <2>3, TakenSeek DEF Seekable
  <2>5. last \in Samples
    BY DEF Samples
  <2>6. \A b \in Samples : b.gen > last.gen <=> last.gen < b.gen
    BY <2>5, SamplesTyped
  <2> QED
    BY <2>4, <2>5, <2>6 DEF Landings, SamplesPast, Past, PastIn
<1>6. CASE SeekReply \/ SeekDeadline
  <2>1. UNCHANGED <<player, last, statuses, uncertain>>
    BY <1>6 DEF SeekReply, SeekDeadline
  <2>2. (seek'.on => seek.on) /\ seek'.request = seek.request
    BY <1>6, SeekEnded
  <2>3. Samples' = Samples
    BY <2>1 DEF Samples, Told
  <2> QED
    BY <2>1, <2>2, <2>3, SoughtGrows DEF Aimed, Sought
<1>7. CASE Player
  <2>1. UNCHANGED <<seek, uncertain, last>>
    BY <1>7, PlayerMoves DEF worker, view
  <2>2. SUFFICES ASSUME seek.on, ~ uncertain
                 PROVE  /\ last.session = y.session =>
                             /\ seek.request.track <= player'.issued
                             /\ player'.candidate # 0 => seek.request.track < player'.candidate
                        /\ \A b \in Samples' :
                             b.session = last.session /\ b.track = seek.request.track
                               /\ b.gen > seek.request.gen => Sought(b)'
    BY <2>1 DEF Aimed, Sought
  <2>3. /\ seek.request.track # 0 /\ seek.request.track \in Nat /\ last \in Samples /\ x \in Samples
        /\ player.issued \in Nat
    BY <2>2, SampleTypes, Bounds DEF Aimed, WorkerTypes, SeekRecords, SeekRequests, Ids, Samples
  <2>4. ASSUME last.session = y.session
        PROVE  /\ seek.request.track <= player'.issued
               /\ player'.candidate # 0 => seek.request.track < player'.candidate
    <3>1. ~ PlayerStarts
      BY <2>3, <2>4, SamplesTyped, Started DEF SamplesPast, Past, Before
    <3>2. \/ player'.candidate = 0 /\ player'.issued = player.issued
          \/ player'.candidate = player.candidate /\ player'.issued = player.issued
          \/ player'.candidate = player.issued + 1 /\ player'.issued = player.issued + 1
      BY <1>7, <3>1, AcceptedLoad, AcceptedSeek, Rejected, OtherLoaded, Prepared, CommittedLoad, FailedLoad,
         UnloadedTrack, CarriedOut, Disturbed, Stopped DEF Player
    <3>3. seek.request.track <= player.issued
          /\ (player.candidate # 0 => seek.request.track < player.candidate)
      BY <1>7, <2>2, <2>4, <3>1, PlayerAges DEF Aimed
    <3>4. CASE player'.candidate = player.issued + 1 /\ player'.issued = player.issued + 1
      BY <2>3, <3>3, <3>4
    <3> QED
      BY <3>2, <3>3, <3>4
  <2>5. ASSUME NEW b \in Samples', b.session = last.session, b.track = seek.request.track,
               b.gen > seek.request.gen
        PROVE  Sought(b)'
    <3>1. CASE b \in Samples
      BY <2>2, <2>5, <3>1, SoughtGrows DEF Aimed, Sought
    <3>2. CASE b = y
      <4>1. CASE y.session = x.session /\ y.track = x.track /\ y.gen = x.gen /\ y.at = x.at
        <5>1. Sought(x)
          BY <2>2, <2>3, <2>5, <3>2, <4>1 DEF Aimed
        <5> QED
          BY <3>2, <4>1, <5>1, SoughtGrows DEF Sought
      <4>2. CASE PlayerSeeks /\ Sought(x)'
        BY <3>2, <4>2 DEF Sought
      <4>3. CASE y.track = player.candidate /\ player.candidate # 0 /\ y.session = x.session
        BY <2>2, <2>3, <2>5, <3>2, <4>3 DEF Aimed
      <4>4. CASE y.track = 0
        BY <2>3, <2>5, <3>2, <4>4
      <4> QED
        BY <1>7, <4>1, <4>2, <4>3, <4>4, Onwards
    <3> QED
      BY <1>7, <3>1, <3>2, PlayerAges
  <2> QED
    BY <2>4, <2>5
<1> QED
  BY <1>1, <1>2, <1>3, <1>4, <1>5, <1>6, <1>7 DEF Next, Worker

LEMMA Fewer ==
  ASSUME DeckInv, [Next]_deckVars, NEW t, Before(last, t), last.session \in Nat, last.gen \in Nat,
         t.session \in Nat, t.gen \in Nat
  PROVE  Unseen(t) \subseteq Unseen(last)
<1>1. \A k \in sought : k.session \in Nat /\ k.gen \in Nat
  BY Bounds DEF DeckInv, DeckTypeOK, PlayerTypes, Sessions
<1> QED
  BY <1>1 DEF Unseen, Before

LEMMA SeekPlaceStep == ASSUME DeckInv, [Next]_deckVars PROVE SeekPlace'
<1> USE DEF DeckInv, DeckTypeOK
<1>0. forsaken => forsaken'
  <2>1. CASE DrainStatus
    BY <2>1, DrainedSeek
  <2>2. CASE ~ DrainStatus
    BY <2>2, PlayerMoves DEF Next, Display, Submit, SubmitSeek, Admit, Poll, Publish, Worker, CheckClocks,
       TakeSelection, TakeSeek, LoadReply, LoadDeadline, SeekReply, SeekDeadline, NothingSubmitted, Finish,
       history, deckVars
  <2> QED
    BY <2>1, <2>2
<1> SUFFICES ASSUME ~ forsaken' PROVE OnlySeek'
  BY DEF SeekPlace
<1>a. OnlySeek
  BY <1>0 DEF SeekPlace
<1> USE DEF OnlySeek
<1>1. ASSUME UNCHANGED <<seek, uncertain, last, sought>>, Queued' => Queued, AsksSeek' => AsksSeek,
             Declined' => Declined
      PROVE  OnlySeek'
  <2>1. Landed' = Landed /\ Unseen(last)' = Unseen(last)
    BY <1>1 DEF Landed, Unseen
  <2> QED
    BY <1>a, <1>1, <2>1
<1>2. CASE \/ Display \/ Publish \/ NothingSubmitted \/ Finish \/ UNCHANGED deckVars
  <2>1. UNCHANGED <<seek, uncertain, last, sought, player, rpc>> /\ (pc' = "seeking" => pc = "seeking")
    BY <1>2, PlayerRests DEF Display, Submit, SubmitSeek, Admit, Poll, Publish, NothingSubmitted, Finish,
       deckVars, worker, view, history
  <2> QED
    BY <1>1, <2>1 DEF Queued, AsksSeek, Asking, Declined
<1>3. CASE LoadReply \/ LoadDeadline
  <2>1. UNCHANGED <<seek, uncertain, last, sought, player>> /\ pc' = "finish"
    BY <1>3 DEF LoadReply, LoadDeadline, history
  <2>2. AsksSeek' => AsksSeek
    BY <1>3, Overdued DEF LoadReply, LoadDeadline, NoRpc, AsksSeek, Asking
  <2> QED
    BY <1>1, <2>1, <2>2 DEF Queued, Declined
<1>4. CASE DrainStatus
  <2>1. UNCHANGED <<player, rpc, sought, pc>> /\ pc = "drain"
    BY <1>4 DEF DrainStatus
  <2>2. (Queued' <=> Queued) /\ (AsksSeek' <=> AsksSeek) /\ ~ Declined /\ ~ Declined'
    BY <2>1 DEF Queued, AsksSeek, Asking, Declined
  <2>3. /\ last' \in Told /\ last' \in Samples /\ last \in Samples
        /\ uncertain' = (uncertain \/ RolledBack(last'))
        /\ Before(last, last')
    BY <1>4, Drained DEF Samples, SamplesPast, InOrder
  <2>4. /\ last.session \in Nat /\ last.gen \in Nat /\ last'.session \in Nat /\ last'.gen \in Nat
        /\ seek.request.gen \in Nat /\ \A k \in sought : k.session \in Nat /\ k.gen \in Nat
    BY <2>3, SamplesTyped, Bounds DEF WorkerTypes, SeekRecords, SeekRequests, PlayerTypes, Sessions
  <2>5. Unseen(last)' = {} <=> Unseen(last') = {}
    BY <2>1 DEF Unseen
  <2>6. seek'.request = seek.request
    BY <1>4, DrainedSeek
  <2>7. CASE seek'.on = seek.on
    <3>1. seek.on /\ ~ uncertain' => ~ uncertain /\ last'.session = last.session
      BY <2>3 DEF Seen, RolledBack
    <3>2. last'.session = last.session => Landed' = Landed
      BY <2>1, <2>6 DEF Landed
    <3>3. Unseen(last') \subseteq Unseen(last)
      BY <2>3, <2>4, Fewer
    <3> QED
      BY <1>a, <2>2, <2>5, <2>7, <3>1, <3>2, <3>3
  <2>8. CASE /\ seek.on /\ ~ seek'.on /\ ~ uncertain' /\ last'.track = seek.request.track
             /\ seek'.state = "PositionObserved" /\ Reached(last')
    <3>1. ~ uncertain /\ last'.session = last.session
      BY <2>3, <2>8 DEF Seen, RolledBack
    <3>2. last'.gen > seek.request.gen
      BY <2>8 DEF Reached
    <3>3. Sought(last')
      BY <2>3, <2>8, <3>1, <3>2 DEF Aimed
    <3> DEFINE k0 == [session |-> last'.session, frame |-> last'.at, track |-> last'.track, gen |-> last'.gen]
    <3>4. k0 \in Landed
      BY <3>1, <3>2, <3>3 DEF Sought, Landed
    <3>5. ~ AsksSeek /\ ~ Queued /\ \A k \in Landed : k = k0
      BY <1>a, <2>8, <3>1, <3>4
    <3>6. Unseen(last') = {}
      <4> SUFFICES ASSUME NEW k \in Unseen(last') PROVE FALSE
        OBVIOUS
      <4>1. k \in Landed /\ (k.session # last'.session \/ k.gen # last'.gen)
        BY <2>4, <3>1, <3>2 DEF Unseen, Landed
      <4> QED
        BY <3>5, <4>1
    <3> QED
      BY <2>2, <2>5, <2>8, <3>5, <3>6
  <2>9. CASE /\ seek.on /\ ~ seek'.on /\ ~ Asking /\ ~ Queued /\ Unseen(last') = {}
    BY <2>2, <2>5, <2>9 DEF AsksSeek
  <2> QED
    BY <1>4, <2>7, <2>8, <2>9, DrainedSeek
<1>5. CASE \E silent, expired \in BOOLEAN : CheckClocks(silent, expired)
  <2>1. PICK silent, expired \in BOOLEAN : CheckClocks(silent, expired)
    BY <1>5
  <2>2. UNCHANGED <<player, rpc, last, sought>> /\ pc' = "take"
    BY <2>1 DEF CheckClocks, history
  <2>3. seek'.on = seek.on /\ seek'.request = seek.request /\ (uncertain => uncertain')
    BY <2>1, Checked
  <2>4. Landed' = Landed /\ Unseen(last)' = Unseen(last)
    BY <2>2, <2>3 DEF Landed, Unseen
  <2>5. (Queued' <=> Queued) /\ (AsksSeek' <=> AsksSeek) /\ ~ Declined'
    BY <2>2 DEF Queued, AsksSeek, Asking, Declined
  <2> QED
    BY <1>a, <2>3, <2>4, <2>5
<1>6. CASE TakeSelection
  <2>1. UNCHANGED <<player, last, sought>>
    BY <1>6 DEF TakeSelection, history
  <2>2. ~ seek.on /\ ~ seek'.on /\ (AsksSeek' => AsksSeek) /\ ~ Declined'
    BY <1>6, TakenLoad, Idle DEF AsksSeek, Asking, Declined
  <2>3. ~ AsksSeek /\ ~ Queued /\ Queued' = Queued
    BY <1>a, <2>1, <2>2 DEF Queued
  <2>4. Unseen(last)' = Unseen(last)
    BY <2>1 DEF Unseen
  <2> QED
    BY <1>a, <2>2, <2>3, <2>4
<1>7. CASE TakeSeek
  <2>1. UNCHANGED <<player, last, sought, uncertain>>
    BY <1>7 DEF TakeSeek, history
  <2>2. ~ seek.on
    BY <1>7, TakenSeek, Idle
  <2>3. ~ AsksSeek /\ ~ Queued /\ ~ Queued' /\ Unseen(last) = {} /\ Unseen(last)' = {}
    BY <1>a, <2>1, <2>2 DEF Queued, Unseen
  <2>4. CASE pc' = "finish" /\ rpc' = rpc /\ ~ seek'.on
    BY <2>3, <2>4 DEF AsksSeek, Asking, Declined
  <2>5. CASE seek'.on /\ pc' = "seeking" /\ seek'.request.gen = last.gen
             /\ rpc' = [at |-> Sent, kind |-> "seek", frame |-> seek'.request.frame]
    <3>1. Landed' = {}
      BY <2>1, <2>3, <2>5 DEF Landed, Unseen
    <3> QED
      BY <2>3, <2>5, <3>1 DEF Declined, Sent
  <2> QED
    BY <1>7, <2>4, <2>5, TakenSeek DEF Seekable
<1>8. CASE SeekReply \/ SeekDeadline
  <2>1. UNCHANGED <<player, last, sought, uncertain>> /\ pc' = "finish" /\ pc = "seeking"
    BY <1>8 DEF SeekReply, SeekDeadline, history
  <2>2. /\ seek'.request = seek.request /\ seek.on /\ ~ uncertain /\ seek.request.gen = last.gen
        /\ seek'.on = (seek.on /\ ~ (SeekReply /\ rpc.id = 0))
    BY <1>8, <2>1, SeekEnded DEF Slot
  <2>3. AsksSeek' => AsksSeek /\ SeekDeadline
    BY <1>8, Overdued DEF SeekReply, SeekDeadline, NoRpc, AsksSeek, Asking
  <2>4. Landed' = Landed /\ Unseen(last)' = Unseen(last) /\ Queued' = Queued /\ ~ Declined'
    BY <2>1, <2>2 DEF Landed, Unseen, Queued, Declined
  <2>5. CASE SeekReply /\ rpc.id = 0
    <3>1. Declined
      BY <2>5 DEF Declined, SeekReply
    <3>2. Unseen(last) \subseteq Landed
      BY <2>2 DEF Landed, Unseen
    <3>3. ~ AsksSeek'
      BY <2>5 DEF SeekReply, AsksSeek, Asking, NoRpc
    <3> QED
      BY <1>a, <2>2, <2>4, <2>5, <3>1, <3>2, <3>3
  <2>6. CASE ~ (SeekReply /\ rpc.id = 0)
    BY <1>a, <2>1, <2>2, <2>3, <2>4, <2>6
  <2> QED
    BY <2>5, <2>6
<1>9. CASE Player
  <2>1. UNCHANGED <<seek, uncertain, last, pc>>
    BY <1>9, PlayerMoves DEF worker, view
  <2>2. CASE PlayerAcceptsLoad
    <3>1. ~ Queued' /\ ~ AsksSeek' /\ ~ Declined' /\ sought' = sought
      BY <2>2, AcceptedLoad, Bounds DEF Queued, AsksSeek, Asking, Declined, NoRpc, Loads
    <3> QED
      BY <1>1, <2>1, <3>1
  <2>3. CASE PlayerAcceptsSeek
    <3>1. AsksSeek /\ ~ AsksSeek' /\ ~ Declined' /\ sought' = sought
      BY <2>3, AcceptedSeek DEF AsksSeek, Asking, Declined, NoRpc, history
    <3>2. Landed' = Landed
      BY <2>1, <3>1 DEF Landed
    <3> QED
      BY <1>a, <2>1, <3>1, <3>2
  <2>4. CASE PlayerRejects
    <3>1. ~ AsksSeek' /\ (Declined' => AsksSeek) /\ Queued' = Queued /\ sought' = sought
      BY <2>1, <2>4, Rejected DEF AsksSeek, Asking, Declined, NoRpc, Queued, RequestPlace, history
    <3>2. Landed' = Landed /\ Unseen(last)' = Unseen(last)
      BY <2>1, <3>1 DEF Landed, Unseen
    <3> QED
      BY <1>a, <2>1, <3>1, <3>2
  <2>5. CASE PlayerSeeks
    <3>1. Queued /\ ~ Queued' /\ rpc' = rpc
      BY <2>5, CarriedOut DEF Queued
    <3>2. ~ AsksSeek' /\ ~ Declined' /\ seek'.on
      BY <1>a, <2>1, <3>1 DEF AsksSeek, Asking, Declined
    <3>3. PICK k0 : sought' = sought \cup {k0}
      BY <2>5, CarriedOut
    <3>4. ~ uncertain => \A k, l \in Landed' : k = l
      <4>1. Landed' \subseteq Landed \cup {k0}
        BY <2>1, <3>3 DEF Landed
      <4>2. ~ uncertain => Landed = {}
        BY <1>a, <3>1
      <4> QED
        BY <4>1, <4>2
    <3> QED
      BY <2>1, <3>1, <3>2, <3>4
  <2>6. CASE PlayerStops
    <3>1. ~ Queued' /\ ~ AsksSeek' /\ (Declined' => Declined) /\ sought' = sought
      BY <2>1, <2>6, Stopped DEF Queued, AsksSeek, Asking, Declined, history
    <3> QED
      BY <1>1, <2>1, <3>1
  <2>7. CASE \/ OtherLoad \/ PlayerPrepares \/ PlayerCommits \/ PlayerFails \/ PlayerUnloads
             \/ PlayerReadFails \/ PlayerPlays \/ PlayerStarts
    <3>1. (Queued' => Queued) /\ rpc' = rpc /\ sought' = sought
      BY <2>7, OtherLoaded, Prepared, CommittedLoad, FailedLoad, UnloadedTrack, Disturbed, Started
         DEF Queued, history
    <3> QED
      BY <1>1, <2>1, <3>1 DEF AsksSeek, Asking, Declined
  <2> QED
    BY <1>9, <2>2, <2>3, <2>4, <2>5, <2>6, <2>7 DEF Player
<1> QED
  BY <1>2, <1>3, <1>4, <1>5, <1>6, <1>7, <1>8, <1>9 DEF Next, Worker

-----------------------------------------------------------------------------
(* The invariant and the theorems                                          *)

LEMMA DeckInvInit == DeckInit => DeckInv
<1> SUFFICES ASSUME DeckInit PROVE DeckInv
  OBVIOUS
<1>1. /\ submitted = <<>> /\ statuses = <<>> /\ rpc = NoRpc /\ pc = "drain"
      /\ occupied = FALSE /\ active = FALSE /\ uncertain = FALSE /\ connected = FALSE /\ fresh = FALSE
      /\ used = 0 /\ load = NewLoad /\ last = NoSample
      /\ named.track = 0 /\ named.name = 0 /\ seek.on = FALSE
      /\ player.sample.session = 1 /\ player.sample.track = 0 /\ player.sample.gen = 0
      /\ player.sample.id = 0 /\ player.sample.progress = "idle"
      /\ player.issued = 0 /\ player.candidate = 0 /\ player.seekTo = {} /\ player.up
      /\ \A s \in Sessions, i \in Loads : source[s][i] = 0
      /\ sought = {}
  BY DEF DeckInit, NewPlayer, NoSample
<1>2. Samples = {NoSample, player.sample} /\ Told = {}
  BY <1>1 DEF Samples, Told
<1>3. NoSample \in SampleSet
  BY Bounds DEF NoSample, SampleSet, Progress
<1>4. WorkerTypes
  <2>1. /\ submitted \in Seq(Items) /\ Len(submitted) = 0
        /\ views \in Seq(Selections) /\ Len(views) = 0
    BY EmptySeq DEF DeckInit
  <2>2. load \in LoadRecords
    BY <1>1, Bounds DEF NewLoad, LoadRecords, LoadStates, Progress, Selections
  <2>3. seek \in SeekRecords
    BY Bounds DEF DeckInit, NoSeek, SeekRecords, SeekStates, SeekRequests
  <2>4. named \in [track : Ids, name : Selections] /\ used \in Selections
    BY Bounds DEF DeckInit, Selections
  <2>5. Len(submitted) <= 1 /\ Len(views) <= ViewCapacity
    BY <2>1, DeckBounds
  <2>6. /\ occupied \in BOOLEAN /\ active \in BOOLEAN /\ uncertain \in BOOLEAN
        /\ connected \in BOOLEAN /\ fresh \in BOOLEAN
    BY <1>1
  <2> QED
    BY <1>1, <1>3, <2>1, <2>2, <2>3, <2>4, <2>5, <2>6 DEF WorkerTypes
<1>5. StreamTypes
  BY <1>1, EmptySeq, DeckBounds DEF StreamTypes, Requests
<1>6. PlayerTypes
  <2>1. [NoSample EXCEPT !.session = 1] \in SampleSet /\ [NoSample EXCEPT !.session = 1].session = 1
    <3>1. 1 \in 0 .. MaxSessions
      BY Bounds
    <3> QED
      BY <1>3, <3>1 DEF SampleSet, NoSample
  <2>2. player \in Players /\ player.sample.session \in Sessions
    BY <1>1, <2>1, Bounds DEF DeckInit, NewPlayer, Players
  <2>3. /\ source \in [Sessions -> [Loads -> Selections]]
        /\ fate \in [Operations -> {"none"} \cup Outcomes]
        /\ forsaken \in BOOLEAN /\ events \in Nat
    <3>1. 0 \in Selections
      BY Bounds DEF Selections
    <3>2. source = [s \in Sessions |-> [i \in Loads |-> 0]]
      BY DEF DeckInit
    <3>3. source \in [Sessions -> [Loads -> Selections]]
      BY <3>1, <3>2
    <3>4. fate \in [Operations -> {"none"} \cup Outcomes]
      BY DEF DeckInit
    <3>5. forsaken \in BOOLEAN /\ events \in Nat
      BY DEF DeckInit
    <3> QED
      BY <3>3, <3>4, <3>5
  <2> QED
    BY <1>1, <2>2, <2>3 DEF PlayerTypes
<1>7. Slot /\ Seen /\ RequestPlace
  BY <1>1 DEF Slot, Seen, RequestPlace, LoadOpen, InFlight, Unresolved, NewLoad, NoSample, AsksLoad, Asking, NoRpc
<1>8. Identities /\ Unissued /\ Prepares
  BY <1>1, Bounds DEF Identities, Unissued, Prepares, Preparing, NewLoad, AsksLoad, Asking, NoRpc, Refused,
     NotIssued, Operations
<1>9. SamplesPast
  BY <1>1, <1>2 DEF SamplesPast, InOrder, Past, PastIn, Before, NoSample
<1>10. SamplesDecided /\ Matched /\ Ends /\ Names /\ Landings /\ Aimed /\ SeekPlace
  BY <1>1, <1>2 DEF SamplesDecided, Decided, Tells, Matched, Awaits, Answers, Ends, Names, Landings, Aimed,
     SeekPlace, OnlySeek, Unseen, AsksSeek, Asking, NoRpc, Queued, NewLoad, NoSample
<1> QED
  BY <1>4, <1>5, <1>6, <1>7, <1>8, <1>9, <1>10 DEF DeckInv, DeckTypeOK

LEMMA DeckInvStep == DeckInv /\ [Next]_deckVars => DeckInv'
<1> SUFFICES ASSUME DeckInv, [Next]_deckVars PROVE DeckInv'
  OBVIOUS
<1>1. DeckTypeOK'
  BY DeckTypeStep
<1>2. Slot' /\ Seen' /\ RequestPlace' /\ Identities' /\ Unissued' /\ Prepares'
  BY SlotStep, SeenStep, RequestPlaceStep, IdentitiesStep, UnissuedStep, PreparesStep
<1>3. SamplesPast' /\ SamplesDecided' /\ Matched' /\ Ends' /\ Names'
  BY SamplesPastStep, SamplesDecidedStep, MatchedStep, EndsStep, NamesStep
<1>4. Landings' /\ Aimed' /\ SeekPlace'
  BY LandingsStep, AimedStep, SeekPlaceStep
<1> QED
  BY <1>1, <1>2, <1>3, <1>4 DEF DeckInv

(* The inductive invariant holds in every reachable state: one operation has    *)
(* the slot, one request of it is on its way, an identity stands for one        *)
(* operation, and a sample tells of the player's past.                          *)
THEOREM DeckInvariant == Spec => []DeckInv
BY DeckInvInit, DeckInvStep, PTL DEF Spec

(* The records, queues and identities of the worker keep their types, and the   *)
(* slot never holds two submissions.                                            *)
THEOREM DeckTypesHold == Spec => []LoadTypeOK
<1>1. DeckInv => LoadTypeOK
  BY DEF DeckInv, DeckTypeOK, WorkerTypes, StreamTypes, LoadTypeOK, LoadRecords, Selections, Ids
<1> QED
  BY <1>1, DeckInvariant, PTL

(* What the deck reports of a selection is what happened to it in the player,   *)
(* also when replies are late or lost and the player was restarted.             *)
THEOREM OutcomesReal == Spec => []OutcomeReal
<1>1. DeckInv => OutcomeReal
  <2> SUFFICES ASSUME DeckInv PROVE OutcomeReal
    OBVIOUS
  <2>1. load.state = "Terminal" => fate[load.selection] = load.outcome
    BY DEF DeckInv, Ends
  <2>2. load.state \in {"Rejected", "ValidationFailed", "Unavailable"} => NotIssued(load.selection)
    BY DEF DeckInv, Unissued
  <2> QED
    BY <2>1, <2>2 DEF OutcomeReal, NotIssued
<1> QED
  BY <1>1, DeckInvariant, PTL

(* The player never has two undecided requests of the deck, unless a seek was   *)
(* reported as failed too early, and a slot whose session is in doubt is kept.  *)
THEOREM OneIsOutstanding == Spec => []OneOutstanding
<1>1. DeckInv => OneOutstanding
  <2> SUFFICES ASSUME DeckInv PROVE OneOutstanding
    OBVIOUS
  <2> USE DEF DeckInv, DeckTypeOK
  <2>1. UncertainBlocks
    BY DEF UncertainBlocks, Slot, LoadOpen, Settled
  <2> DEFINE K == {k \in DOMAIN Pending : Pending[k]}
  <2>2. ASSUME ~ forsaken PROVE Cardinality(K) <= 1
    <3>1. ~ (Queued /\ Preparing /\ Candidate # 0)
      BY <2>2 DEF Prepares, SeekPlace, OnlySeek, Slot, LoadOpen, InFlight, Unresolved
    <3>2. ~ (Queued /\ Asking)
      <4>1. Asking => AsksLoad \/ AsksSeek
        BY RequestTypes DEF Asking, AsksLoad, AsksSeek, Underway
      <4>2. Queued => seek.on /\ ~ AsksSeek
        BY <2>2 DEF SeekPlace, OnlySeek
      <4>3. AsksLoad => ~ seek.on
        BY AskedFor DEF Slot, LoadOpen, InFlight, Unresolved
      <4> QED
        BY <4>1, <4>2, <4>3
    <3>3. ~ (Asking /\ Preparing /\ Candidate # 0)
      <4> SUFFICES ASSUME Asking, Preparing, Candidate # 0 PROVE FALSE
        OBVIOUS
      <4>1. Candidate = load.selection
            /\ load.state \in {"AwaitingAcceptance", "AwaitingCompletion", "OutcomeUnknown"}
        BY DEF Prepares
      <4>2. AsksLoad
        <5>1. ~ AsksSeek
          BY <2>2, <4>1 DEF SeekPlace, OnlySeek, Slot, LoadOpen, InFlight, Unresolved
        <5> QED
          BY <5>1, RequestTypes DEF Asking, AsksLoad, AsksSeek, Underway
      <4>3. NotIssued(load.selection)
        BY <4>2 DEF Unissued
      <4>4. player.sample.session \in Sessions /\ player.candidate \in Loads
        BY SampleTypes, Bounds DEF Preparing, Ids, Loads
      <4> QED
        BY <4>1, <4>3, <4>4 DEF NotIssued, Candidate
    <3>4. /\ DOMAIN Pending = {"rpc", "load", "seek"}
          /\ Pending["rpc"] = Asking /\ Pending["seek"] = Queued
          /\ Pending["load"] = (Preparing /\ Candidate # 0)
      BY DEF Pending, Asking, Queued, Preparing, Candidate
    <3>5. \A j, k \in K : j = k
      BY <3>1, <3>2, <3>3, <3>4
    <3>6. CASE K = {}
      BY <3>6, FS_EmptySet
    <3>7. CASE K # {}
      <4>1. PICK k \in K : K = {k}
        BY <3>5, <3>7
      <4> HIDE DEF K
      <4> QED
        BY <4>1, FS_Singleton
    <3> QED
      BY <3>6, <3>7
  <2> QED
    BY <2>1, <2>2 DEF OneOutstanding
<1> QED
  BY <1>1, DeckInvariant, PTL

(* As long as the player has not been restarted, the name shown for the active  *)
(* track is that of the selection it was loaded from.                           *)
THEOREM NameIsRight == Spec => []NameUnlessRestarted
<1>1. DeckInv => NameUnlessRestarted
  BY DEF DeckInv, Names, Seen, NameUnlessRestarted, NameOfTrack
<1> QED
  BY <1>1, DeckInvariant, PTL

LEMMA SeekRealStep ==
  ASSUME DeckInv, [Next]_deckVars, seek.on, ~ seek'.on, seek'.state = "PositionObserved"
  PROVE  \E k \in sought : /\ k.session = last'.session /\ k.track = seek.request.track
                           /\ k.gen > seek.request.gen /\ Near(k.frame, seek.request.frame)
<1> USE DEF DeckInv, DeckTypeOK
<1>1. DrainStatus
  <2>1. ~ TakeSelection
    BY TakenLoad
  <2>2. ~ TakeSeek
    BY TakenSeek, Idle
  <2>3. ~ (\E silent, expired \in BOOLEAN : CheckClocks(silent, expired))
    BY Checked
  <2>4. ~ SeekReply /\ ~ SeekDeadline
    BY SeekEnded DEF SeekReply, WorkerTypes, SeekRecords
  <2>5. ~ (Display \/ Publish \/ LoadReply \/ LoadDeadline \/ NothingSubmitted \/ Finish \/ Player
           \/ UNCHANGED deckVars)
    BY PlayerMoves DEF Display, Submit, SubmitSeek, Admit, Poll, Publish, LoadReply, LoadDeadline,
       NothingSubmitted, Finish, deckVars, worker, view
  <2> QED
    BY <2>1, <2>2, <2>3, <2>4, <2>5 DEF Next, Worker
<1>2. ~ uncertain' /\ last'.track = seek.request.track /\ Reached(last')
  BY <1>1, DrainedSeek
<1>3. last' \in Samples /\ uncertain' = (uncertain \/ RolledBack(last'))
  BY <1>1, Drained DEF Samples
<1>4. ~ uncertain /\ last'.session = last.session
  BY <1>2, <1>3 DEF Seen, RolledBack
<1>5. last'.gen > seek.request.gen /\ Near(last'.at, seek.request.frame)
  BY <1>2 DEF Reached
<1>6. Sought(last')
  BY <1>2, <1>3, <1>4, <1>5 DEF Aimed
<1> QED
  BY <1>2, <1>4, <1>5, <1>6 DEF Sought

(* A seek reported as reached was carried out after it was asked for, on the    *)
(* track it was asked for.                                                      *)
THEOREM SeeksAreReal == Spec => SeekReal
<1>1. DeckInv /\ [Next]_deckVars =>
        [seek.on /\ ~ seek'.on /\ seek'.state = "PositionObserved" =>
           \E k \in sought : /\ k.session = last'.session /\ k.track = seek.request.track
                             /\ k.gen > seek.request.gen /\ Near(k.frame, seek.request.frame)]_deckVars
  BY SeekRealStep
<1> QED
  BY <1>1, DeckInvariant, PTL DEF Spec, SeekReal
=============================================================================
