------------------------------- MODULE DeckLoad -------------------------------
(***************************************************************************)
(* The deck's load and seek worker (backends/media/deck_load_worker.cpp)   *)
(* between the display thread, the status stream and the player.           *)
(*                                                                         *)
(* Threads: the display submits selections and seeks and polls views; the  *)
(* deck's process callback publishes status samples; the worker loops over *)
(* statuses, clocks, one operation, and a view.  Its calls to the player   *)
(* are remote: a request may be answered in time, be carried out after the *)
(* 500 ms deadline, or be lost with the player's process.  A reply is      *)
(* always well formed; SelectionLoad says what happens if it is not.       *)
(*                                                                         *)
(* The player is AudioFilePlayer as far as a client can tell: what its     *)
(* replies and status samples show, each change in one step.  Another      *)
(* client of it, its lifecycle and restarts of its process are external.   *)
(*                                                                         *)
(* Abstractions.  Clocks: a second without a status, or the timeout of an  *)
(* operation, may have passed at any reading, as the loop may be delayed.  *)
(* Sequence numbers: within a session later samples have greater numbers;  *)
(* a restarted player counts from zero again, and its first sample seen is *)
(* assumed to be below the last one seen of the session before.            *)
(* A restart is assumed to take longer than the worker needs from draining *)
(* the statuses to sending a command.  A late request that is still under  *)
(* way when the next one is sent, as only a seek that was forsaken can be, *)
(* is taken as lost.                                                       *)
(* Left out: rekordbox metadata and beat grids (display only), samples     *)
(* marked invalid or waiting for a synchronised seek (the worker waits for *)
(* the next one), the count of dropped samples, and SelectionLoad's        *)
(* reset_for_new_player_session, which the program never calls.            *)
(***************************************************************************)
EXTENDS SelectionLoad, Integers, Sequences, FiniteSets, TLC

CONSTANTS
  MaxOperations,   \* bound: selections and seeks the display submits
  MaxEvents,       \* bound: what other clients, faults and restarts do to the player
  MaxLoads,        \* bound: load requests one player session accepts
  MaxSessions,     \* bound: player sessions (restarts + 1)
  Targets,         \* media frames a seek may ask for
  Duration,        \* frames of every track
  StatusCapacity,  \* entries statuses_ can hold
  ViewCapacity     \* entries views_ can hold

ASSUME DeckBounds ==
  /\ {MaxOperations, MaxEvents, MaxLoads, Duration} \subseteq Nat
  /\ MaxSessions \in Nat \ {0}
  /\ Targets \subseteq Nat
  /\ StatusCapacity \in Nat \ {0} /\ ViewCapacity \in Nat \ {0}

VARIABLES
  occupied,    \* occupied_: the one operation slot
  submitted,   \* selections_ and seeks_: the slot allows one entry in both
  statuses,    \* statuses_
  views,       \* views_
  shown,       \* display: the view polled last
  pc,          \* worker: what it does next
  load,        \* view.load
  last,        \* view.playback: the status seen last
  named,       \* view.active_name and named_track
  seek,        \* seek_request, seeking, view.seek_state
  fresh,       \* last_status is of this iteration
  connected,   \* view.connected
  uncertain,   \* view.session_uncertain
  active,      \* request_active
  rpc,         \* the request under way to the player
  player,      \* the player: its sample, request counter, load and seek to carry out
  source,      \* history: the operation each load identity was issued for, per session
  fate,        \* history: how the load of each operation ended in the player
  sought,      \* history: the seeks the player carried out
  forsaken,    \* history: a seek was reported failed before its end was seen
  events,      \* how much of MaxEvents is used
  used         \* how much of MaxOperations is used

display == <<occupied, submitted, shown, used>>
view == <<load, last, named, seek, connected, uncertain>>
worker == <<pc, view, fresh, active>>
history == <<source, fate, sought, forsaken>>
deckVars == <<display, statuses, views, worker, rpc, player, history, events>>

Sessions == 1 .. MaxSessions
Operations == 1 .. MaxOperations
Loads == 1 .. MaxLoads

NoRpc == [at |-> "none"]
NoSeek == [track |-> 0, gen |-> 0, frame |-> 0]

(* What a status sample tells; an identity or session of 0 means none.  A decode *)
(* error (broken) stays until the generation changes, whether or not it plays.   *)
NoSample == [session |-> 0, id |-> 0, progress |-> "idle",
             track |-> 0, gen |-> 0, at |-> 0, playing |-> FALSE, broken |-> FALSE]

(* The part of a DeckLoadView that is followed to the display: the selection *)
(* whose outcome it shows, 0 for none.                                         *)
View == IF load.state = "Terminal" THEN load.selection ELSE 0

NewPlayer(session) ==
  [up |-> TRUE, sample |-> [NoSample EXCEPT !.session = session],
   issued |-> 0, candidate |-> 0, seekTo |-> {}]

DeckInit ==
  /\ occupied = FALSE /\ submitted = <<>> /\ statuses = <<>> /\ views = <<>>
  /\ pc = "drain" /\ fresh = FALSE /\ active = FALSE
  /\ load = NewLoad /\ last = NoSample
  /\ named = [track |-> 0, name |-> 0]
  /\ seek = [state |-> "Idle", on |-> FALSE, request |-> NoSeek]
  /\ connected = FALSE /\ uncertain = FALSE
  /\ rpc = NoRpc
  /\ player = NewPlayer(1)
  /\ source = [s \in Sessions |-> [i \in Loads |-> 0]]
  /\ fate = [o \in Operations |-> "none"]
  /\ sought = {} /\ forsaken = FALSE
  /\ used = 0 /\ events = 0
  /\ shown = View

----------------------------------------------------------------------------
(* Display thread.  submit and submit_seek: the compare-exchange that takes the *)
(* slot and the push it permits, which nobody tells apart from one step.        *)

M_SlotFree == TRUE
SlotFree == ~ occupied

Admit(item) ==
  /\ used < MaxOperations /\ SlotFree
  /\ used' = used + 1
  /\ occupied' = TRUE
  /\ submitted' = Append(submitted, item)
  /\ UNCHANGED <<shown, statuses, views, worker, rpc, player, history, events>>

Submit(valid) == Admit([kind |-> "load", selection |-> used + 1, valid |-> valid])

(* The display asks for the track and generation it was shown, which may be past *)
(* when the worker takes the request.                                             *)
SubmitSeek(frame) ==
  /\ last.track # 0
  /\ Admit([kind |-> "seek",
            request |-> [track |-> last.track, gen |-> last.gen, frame |-> frame]])

Poll ==
  /\ views # <<>>
  /\ shown' = Head(views) /\ views' = Tail(views)
  /\ UNCHANGED <<occupied, submitted, used, statuses, worker, rpc, player, history, events>>

----------------------------------------------------------------------------
(* The deck's process callback: a fresh sample is pushed, or dropped on a full queue. *)

Publish ==
  /\ player.up /\ Len(statuses) < StatusCapacity
  /\ statuses' = Append(statuses, player.sample)
  /\ UNCHANGED <<display, views, worker, rpc, player, history, events>>

----------------------------------------------------------------------------
(* Worker: statuses *)

(* sequence_number < the last one seen, while an operation depends on the session. *)
M_RolledBack(s) == FALSE
RolledBack(s) ==
  /\ last.session # 0 /\ s.session # last.session
  /\ seek.on \/ InFlight(load) \/ load.state = "OutcomeUnknown"

Near(a, b) == a - b \in -1 .. 1

M_Reached(s) == Near(s.at, seek.request.frame)
Reached(s) == s.gen > seek.request.gen /\ Near(s.at, seek.request.frame)

SeekAfter(s) ==
  IF s.track # seek.request.track \/ s.playing
    THEN [seek EXCEPT !.state = "OutcomeUnknown"]
  ELSE IF s.broken THEN [seek EXCEPT !.state = "Failed", !.on = FALSE]
  ELSE IF Reached(s) THEN [seek EXCEPT !.state = "PositionObserved", !.on = FALSE]
  ELSE seek

M_NamedAfter(s, ld) ==
  IF /\ ld.state = "Terminal" /\ ld.outcome = "committed"
     /\ s.track = ld.id /\ named.track # s.track
    THEN [track |-> s.track, name |-> ld.selection]
  ELSE named
NamedAfter(s, ld) ==
  IF /\ ld.state = "Terminal" /\ ld.outcome = "committed"
     /\ s.track = ld.id /\ named.track # s.track
    THEN [track |-> s.track, name |-> ld.selection]
  ELSE IF s.track # named.track THEN [track |-> s.track, name |-> 0]
  ELSE named

(* History: the requests of the deck the player has not decided yet. *)
Pending ==
  [rpc |-> rpc.at \in {"sent", "late"},
   load |-> /\ player.up /\ player.candidate # 0
            /\ source[player.sample.session][player.candidate] # 0,
   seek |-> player.up /\ player.seekTo # {}]

(* History: the seeks carried out that a status sample does not show yet. *)
Unseen(s) ==
  {k \in sought : k.session > s.session \/ (k.session = s.session /\ k.gen > s.gen)}

DrainStatus ==
  /\ pc = "drain" /\ statuses # <<>>
  /\ LET s == Head(statuses)
         lost == uncertain \/ RolledBack(s)
         before == IF RolledBack(s) THEN OutcomeUnknown(load) ELSE load
         after == IF lost THEN before ELSE Observe(before, s)
     IN /\ last' = s
        /\ load' = after
        /\ uncertain' = lost
        /\ seek' = IF seek.on /\ ~ lost THEN SeekAfter(s) ELSE seek
        /\ named' = NamedAfter(s, after)
  /\ forsaken' = (forsaken \/ (seek.on /\ ~ seek'.on /\ seek'.state = "Failed"
                                /\ (Pending.seek \/ Pending.rpc \/ Unseen(last') # {})))
  /\ statuses' = Tail(statuses)
  /\ fresh' = TRUE
  /\ UNCHANGED <<display, views, pc, connected, active, rpc, player, source, fate, sought, events>>

(* Worker: clocks.  A status of this iteration is never old; once a second has  *)
(* passed without one, the connection stays lost until the next status.         *)

DependsOnSession ==
  seek.on \/ (load.id # 0 /\ (InFlight(load) \/ load.state = "OutcomeUnknown"))

M_LostSession(online) == uncertain \/ ~ online
LostSession(online) == uncertain \/ (~ online /\ DependsOnSession)

M_GivenUp(online, expired) == ~ online /\ expired
GivenUp(online, expired) == ~ online \/ expired

CheckClocks(silent, expired) ==
  /\ pc = "drain" /\ statuses = <<>>
  /\ LET online == fresh \/ (connected /\ ~ silent)
     IN /\ connected' = online
        /\ uncertain' = LostSession(online)
        /\ load' = IF GivenUp(online, expired) THEN OutcomeUnknown(load) ELSE load
        /\ seek' = IF seek.on /\ (GivenUp(online, expired) \/ uncertain')
                   THEN [seek EXCEPT !.state = "OutcomeUnknown"] ELSE seek
  /\ fresh' = FALSE
  /\ pc' = "take"
  /\ UNCHANGED <<display, statuses, views, last, named, active, rpc, player, history, events>>

----------------------------------------------------------------------------
(* Worker: one operation.  Invalid and unsendable ones end at once. *)

(* A player that is down loses the request; its successor does not answer it. *)
Sent == IF player.up THEN "sent" ELSE "lost"

TakeSelection ==
  /\ pc = "take" /\ submitted # <<>> /\ Head(submitted).kind = "load"
  /\ LET s == Head(submitted)
         begun == Begin(load, s.selection, s.valid)
         sends == begun # load /\ begun.state = "AwaitingAcceptance"
     IN /\ load' = IF sends /\ ~ connected THEN UnavailableBeforeSend(begun) ELSE begun
        /\ \/ /\ sends /\ connected
              /\ rpc' = [at |-> Sent, kind |-> "load", selection |-> s.selection]
              /\ pc' = "loading"
           \/ ~ (sends /\ connected) /\ pc' = "finish" /\ UNCHANGED rpc
  /\ submitted' = Tail(submitted)
  /\ active' = TRUE
  /\ seek' = [seek EXCEPT !.state = "Idle"]
  /\ UNCHANGED <<occupied, shown, used, statuses, views, last, named, connected, uncertain,
                 fresh, player, history, events>>

Seekable(r) ==
  /\ r.track # 0 /\ r.track = last.track
  /\ r.gen # 0 /\ r.gen = last.gen
  /\ ~ last.playing /\ ~ last.broken /\ r.frame < Duration

TakeSeek ==
  /\ pc = "take" /\ submitted # <<>> /\ Head(submitted).kind = "seek"
  /\ LET r == Head(submitted).request
         offline == ~ connected \/ uncertain
     IN \/ /\ offline \/ ~ Seekable(r)
           /\ seek' = [seek EXCEPT !.request = r,
                         !.state = IF offline THEN "Unavailable" ELSE "InvalidTarget"]
           /\ pc' = "finish" /\ UNCHANGED rpc
        \/ /\ ~ offline /\ Seekable(r)
           /\ seek' = [seek EXCEPT !.request = r, !.on = TRUE]
           /\ rpc' = [at |-> Sent, kind |-> "seek", frame |-> r.frame]
           /\ pc' = "seeking"
  /\ submitted' = Tail(submitted)
  /\ active' = TRUE
  /\ UNCHANGED <<occupied, shown, used, statuses, views, load, last, named, connected,
                 uncertain, fresh, player, history, events>>

NothingSubmitted ==
  /\ pc = "take" /\ submitted = <<>>
  /\ pc' = "finish"
  /\ UNCHANGED <<display, statuses, views, view, fresh, active, rpc, player, history, events>>

LoadReply ==
  /\ pc = "loading" /\ rpc.at = "answered"
  /\ load' = Accept(load, rpc.id # 0, rpc.id)
  /\ rpc' = NoRpc /\ pc' = "finish"
  /\ UNCHANGED <<display, statuses, views, last, named, seek, connected, uncertain, fresh,
                 active, player, history, events>>

SeekReply ==
  /\ pc = "seeking" /\ rpc.at = "answered"
  /\ seek' = IF rpc.id # 0 THEN [seek EXCEPT !.state = "AwaitingPosition"]
                           ELSE [seek EXCEPT !.state = "Rejected", !.on = FALSE]
  /\ rpc' = NoRpc /\ pc' = "finish"
  /\ UNCHANGED <<display, statuses, views, load, last, named, connected, uncertain, fresh,
                 active, player, history, events>>

(* No reply until the deadline says nothing about the request: it may still come. *)
Overdue == IF rpc.at = "sent" THEN [rpc EXCEPT !.at = "late"] ELSE NoRpc

LoadDeadline ==
  /\ pc = "loading"
  /\ load' = OutcomeUnknown(load)
  /\ rpc' = Overdue /\ pc' = "finish"
  /\ UNCHANGED <<display, statuses, views, last, named, seek, connected, uncertain, fresh,
                 active, player, history, events>>

SeekDeadline ==
  /\ pc = "seeking"
  /\ seek' = [seek EXCEPT !.state = "OutcomeUnknown"]
  /\ rpc' = Overdue /\ pc' = "finish"
  /\ UNCHANGED <<display, statuses, views, load, last, named, connected, uncertain, fresh,
                 active, player, history, events>>

(* Worker: the slot is freed once the operation taken has an outcome; a full view *)
(* queue leaves the current state to a later iteration.                           *)

M_Settled == active /\ ~ InFlight(load) /\ ~ Unresolved(load)
Settled == active /\ ~ seek.on /\ ~ InFlight(load) /\ ~ Unresolved(load)

M_Pushed == IF active /\ Len(views) < ViewCapacity THEN Append(views, View) ELSE views
Pushed == IF Len(views) < ViewCapacity THEN Append(views, View) ELSE views

Finish ==
  /\ pc = "finish"
  /\ active' = (active /\ ~ Settled)
  /\ occupied' = (occupied /\ ~ Settled)
  /\ views' = Pushed
  /\ pc' = "drain"
  /\ UNCHANGED <<submitted, shown, used, statuses, view, fresh, rpc, player, history, events>>

Worker ==
  \/ DrainStatus
  \/ \E silent, expired \in BOOLEAN : CheckClocks(silent, expired)
  \/ TakeSelection \/ LoadReply \/ LoadDeadline
  \/ TakeSeek \/ SeekReply \/ SeekDeadline
  \/ NothingSubmitted \/ Finish

----------------------------------------------------------------------------
(* Player: it answers the deck's requests, in time or late.  A request is refused  *)
(* while another is carried out, and for a moment after.                           *)

Answered(id) == IF rpc.at = "sent" THEN [at |-> "answered", id |-> id] ELSE NoRpc
Asked(kind) == player.up /\ rpc.at \in {"sent", "late"} /\ rpc.kind = kind
Busy == player.candidate # 0 \/ player.seekTo # {}

Issue(operation, sample) ==
  /\ player.issued < MaxLoads
  /\ source' = [source EXCEPT ![sample.session][player.issued + 1] = operation]
  /\ player' = [player EXCEPT !.issued = @ + 1, !.candidate = player.issued + 1,
                              !.seekTo = {}, !.sample = sample]

PlayerAcceptsLoad ==
  /\ Asked("load") /\ ~ Busy
  /\ Issue(rpc.selection, player.sample)
  /\ rpc' = Answered(player.issued + 1)
  /\ UNCHANGED <<display, statuses, views, worker, fate, sought, forsaken, events>>

PlayerAcceptsSeek ==
  /\ Asked("seek") /\ ~ Busy
  /\ player' = [player EXCEPT !.seekTo = {rpc.frame}]
  /\ rpc' = Answered(1)
  /\ UNCHANGED <<display, statuses, views, worker, history, events>>

PlayerRejects ==
  /\ Asked("load") \/ Asked("seek")
  /\ rpc' = Answered(0)
  /\ UNCHANGED <<display, statuses, views, worker, player, history, events>>

(* Player: it carries requests out. *)

Ended(o, outcome) ==
  fate' = [p \in Operations |-> IF p = o THEN outcome ELSE fate[p]]

PlayerPrepares ==
  /\ player.up /\ player.candidate # 0 /\ player.sample.id # player.candidate
  /\ player' = [player EXCEPT !.sample.id = player.candidate, !.sample.progress = "preparing"]
  /\ UNCHANGED <<display, statuses, views, worker, rpc, history, events>>

(* A new generation starts without an error; the play state goes on.  *)
NewGeneration(sample, frame) ==
  [sample EXCEPT !.gen = sample.gen + 1, !.at = frame, !.broken = FALSE]

PlayerCommits ==
  /\ player.up /\ player.candidate # 0
  /\ player' = [player EXCEPT !.candidate = 0,
                  !.sample = [NewGeneration(player.sample, 0) EXCEPT
                    !.id = player.candidate, !.progress = "committed", !.track = player.candidate]]
  /\ Ended(source[player.sample.session][player.candidate], "committed")
  /\ UNCHANGED <<display, statuses, views, worker, rpc, source, sought, forsaken, events>>

(* Stands for a failed and for a protected load: the deck treats them alike. *)
PlayerFails ==
  /\ player.up /\ player.candidate # 0
  /\ player' = [player EXCEPT !.candidate = 0, !.sample.id = player.candidate,
                              !.sample.progress = "failed"]
  /\ Ended(source[player.sample.session][player.candidate], "failed")
  /\ UNCHANGED <<display, statuses, views, worker, rpc, source, sought, forsaken, events>>

PlayerSeeks ==
  /\ player.up /\ player.sample.track # 0
  /\ \E frame \in player.seekTo :
       /\ player' = [player EXCEPT !.seekTo = {}, !.sample = NewGeneration(player.sample, frame)]
       /\ sought' = sought \union {[session |-> player.sample.session, frame |-> frame,
                                    track |-> player.sample.track,
                                    gen |-> player.sample.gen + 1]}
  /\ UNCHANGED <<display, statuses, views, worker, rpc, source, fate, forsaken, events>>

(* Faults, other clients, lifecycle. *)

Event == events < MaxEvents /\ events' = events + 1

(* A read error, of the audio being decoded or of a seek being carried out. *)
PlayerReadFails ==
  /\ Event
  /\ player.up /\ (player.sample.track # 0 \/ player.seekTo # {})
  /\ ~ player.sample.broken
  /\ \E seekTo \in {{}, player.seekTo} :
       player' = [player EXCEPT !.sample.broken = TRUE, !.seekTo = seekTo]
  /\ UNCHANGED <<display, statuses, views, worker, rpc, history>>

PlayerPlays ==
  /\ Event
  /\ player.up
  /\ player' = [player EXCEPT !.sample.playing = ~ @]
  /\ UNCHANGED <<display, statuses, views, worker, rpc, history>>

(* A lifecycle callback withdraws what is queued or prepared; the end of a load *)
(* that is withdrawn may or may not be seen in a sample.                        *)
Withdrawn ==
  {player.sample} \union
    (IF player.candidate = 0 THEN {}
     ELSE {[player.sample EXCEPT !.id = player.candidate, !.progress = "cancelled"]})

Withdraw ==
  IF player.candidate = 0 THEN UNCHANGED fate
  ELSE Ended(source[player.sample.session][player.candidate], "cancelled")

(* Another client's load, or the one of the path the player is enabled with. *)
OtherLoad ==
  /\ Event
  /\ player.up
  /\ \E sample \in Withdrawn : Issue(0, sample)
  /\ Withdraw
  /\ UNCHANGED <<display, statuses, views, worker, rpc, sought, forsaken>>

(* Another client's unload, or the player is disabled. *)
PlayerUnloads ==
  /\ Event
  /\ player.up /\ (player.sample.track # 0 \/ Busy)
  /\ \E sample \in Withdrawn :
       player' = [player EXCEPT !.candidate = 0, !.seekTo = {},
                                !.sample = [NewGeneration(sample, 0) EXCEPT !.track = 0]]
  /\ Withdraw
  /\ UNCHANGED <<display, statuses, views, worker, rpc, source, sought, forsaken>>

PlayerStops ==
  /\ Event
  /\ player.up /\ player.sample.session < MaxSessions
  /\ player' = [player EXCEPT !.up = FALSE]
  /\ rpc' = IF rpc.at \in {"sent", "late"} THEN [rpc EXCEPT !.at = "lost"] ELSE rpc
  /\ UNCHANGED <<display, statuses, views, worker, history>>

PlayerStarts ==
  /\ ~ player.up
  /\ pc \in {"drain", "loading", "seeking"}
  /\ player' = NewPlayer(player.sample.session + 1)
  /\ UNCHANGED <<display, statuses, views, worker, rpc, history, events>>

Display ==
  \/ \E valid \in BOOLEAN : Submit(valid)
  \/ \E frame \in Targets : SubmitSeek(frame)
  \/ Poll

Player ==
  \/ PlayerAcceptsLoad \/ PlayerAcceptsSeek \/ PlayerRejects
  \/ OtherLoad \/ PlayerPrepares \/ PlayerCommits \/ PlayerFails
  \/ PlayerUnloads \/ PlayerSeeks \/ PlayerReadFails \/ PlayerPlays
  \/ PlayerStops \/ PlayerStarts

Next == Display \/ Publish \/ Worker \/ Player

Spec == DeckInit /\ [][Next]_deckVars

(* The worker and the display run on and time passes; the process callback is     *)
(* called for every block, but not faster than the worker drains its queue.       *)
LiveSpec ==
  /\ Spec
  /\ WF_deckVars(Worker) /\ WF_deckVars(Poll) /\ WF_deckVars(Publish)
  /\ SF_deckVars(\E silent \in BOOLEAN : CheckClocks(silent, TRUE))

----------------------------------------------------------------------------
(* Properties *)

(* Types. *)
LoadTypeOK ==
  /\ {occupied, uncertain, connected, active, fresh} \subseteq BOOLEAN
  /\ load.state \in LoadStates /\ load.outcome \in Progress
  /\ load.selection \in 0 .. MaxOperations /\ load.id \in 0 .. MaxLoads
  /\ Len(submitted) <= 1
  /\ Len(statuses) <= StatusCapacity /\ Len(views) <= ViewCapacity

(* What the deck reports of a selection is what happened to it in the player,   *)
(* also when replies are late or lost and when the player was restarted: a      *)
(* terminal outcome is the outcome of the load issued for this selection, and   *)
(* for a selection reported as rejected or not sent no load was ever issued.    *)
OutcomeReal ==
  /\ load.state = "Terminal" => fate[load.selection] = load.outcome
  /\ load.state \in {"Rejected", "ValidationFailed", "Unavailable"} =>
       \A s \in Sessions, i \in Loads : source[s][i] # load.selection

(* A seek reported as reached was carried out by the player after it was asked  *)
(* for, on the track it was asked for.                                          *)
SeekReal ==
  [][seek.on /\ ~ seek'.on /\ seek'.state = "PositionObserved" =>
       \E k \in sought : /\ k.session = last'.session /\ k.track = seek.request.track
                         /\ k.gen > seek.request.gen /\ Near(k.frame, seek.request.frame)]_deckVars

(* Once the player may have been restarted under a pending operation, the slot  *)
(* stays taken, so that no identity of another session is ever matched.         *)
UncertainBlocks == uncertain => occupied /\ active /\ ~ Settled

(* Loads and seeks share one slot, also while an outcome is unknown: the player *)
(* never has two undecided requests of the deck, and a slot whose session is in *)
(* doubt is not given away.  The exception is a seek that was reported as       *)
(* failed while the player still had it queued, or had carried it out unseen.   *)
OneOutstanding ==
  /\ ~ forsaken => Cardinality({k \in DOMAIN Pending : Pending[k]}) <= 1
  /\ UncertainBlocks

(* The name shown for the active track is the name of the selection it was      *)
(* loaded from, whoever else loads and unloads tracks.                          *)
NameOfTrack ==
  named.name # 0 =>
    last.track = named.track /\ source[last.session][last.track] = named.name

(* The name is right as long as the player has not been restarted: afterwards   *)
(* an identity of the former session can name the track of another client.      *)
NameUnlessRestarted == last.session <= 1 => NameOfTrack

(* Every admitted operation ends: the slot is freed, or the outcome is reported *)
(* as unknown or the reply as invalid.                                          *)
SlotDecided == occupied ~> (~ occupied \/ Unresolved(load) \/ seek.state = "OutcomeUnknown")

(* A full view queue delays an outcome but never hides it from the display.     *)
OutcomeShown ==
  \A o \in Operations :
    load.selection = o /\ load.state = "Terminal" ~>
      load.selection # o \/ shown = o

(* A load that timed out without a gap in the statuses is still reconciled with *)
(* its result while the player shows it.                                        *)
LateResult ==
  LET shows == player.up /\ player.sample.id = load.id /\ player.sample.progress \in Outcomes
  IN (load.state = "OutcomeUnknown" /\ load.id # 0 /\ ~ uncertain /\ shows) ~>
       (load.state # "OutcomeUnknown" \/ uncertain \/ ~ shows)
=============================================================================
