----------------------------- MODULE TempoAnalysis -----------------------------
(***************************************************************************)
(* The tempo analysis worker (backends/media/tempo_grid_analysis.hpp): a   *)
(* load submits the track, the latest submission replaces the pending one, *)
(* the worker analyses it and pushes the result for the audio thread.  The *)
(* worker produces for the queue, and when it is full pops it to make room.*)
(* In the queue a result is the number of its push.  The estimate itself   *)
(* is the operator BestLag, on whole energies; sample rates, the limits of *)
(* length and confidence and the conversion to BPM are left out.           *)
(***************************************************************************)
EXTENDS SpscQueue, FiniteSets, FiniteSetsExt, SequencesExt

-----------------------------------------------------------------------------
(* analyze: rises of energy above their mean (times the length, to stay    *)
(* with integers), their product with themselves at each lag, the first    *)
(* best lag, and half or twice of it when that scores nearly as well.  No  *)
(* lag (0) when nothing repeats.                                           *)
Sum(s) == MapThenSumSet(LAMBDA i : s[i], DOMAIN s)
Rises(energy) == [i \in DOMAIN energy |-> Max({0, energy[i] - (IF i = 1 THEN 0 ELSE energy[i - 1])})]
Novelty(energy) ==
  LET rises == Rises(energy)
  IN [i \in DOMAIN rises |-> Max({0, Len(rises) * rises[i] - Sum(rises)})]
LagScore(novelty, lag) ==
  MapThenSumSet(LAMBDA i : novelty[i] * novelty[i - lag], lag + 1 .. Len(novelty))
Better(novelty, lags, best) ==
  FoldLeft(LAMBDA lag, other :
             IF other \in lags /\ 100 * LagScore(novelty, other) > 94 * LagScore(novelty, lag)
             THEN other ELSE lag, best, <<best \div 2, best * 2>>)
BestLag(novelty, lags) ==
  LET highest == Max({LagScore(novelty, lag) : lag \in lags})
  IN IF highest = 0 THEN 0
     ELSE Better(novelty, lags, Min({lag \in lags : LagScore(novelty, lag) = highest}))

(* Whatever the music: the lag is one that was asked for, its score is     *)
(* within two corrections of the best, and a lag is found exactly when     *)
(* some lag repeats at all.                                                *)
ASSUME LagsNearBest ==
  \A energy \in [1 .. 5 -> 0 .. 2], longest \in 1 .. 4 :
    LET novelty == Novelty(energy)
        lag == BestLag(novelty, 1 .. longest)
        highest == Max({LagScore(novelty, l) : l \in 1 .. longest})
    IN IF lag = 0 THEN highest = 0
       ELSE lag \in 1 .. longest /\ 10000 * LagScore(novelty, lag) >= 8836 * highest
-----------------------------------------------------------------------------

VARIABLES
  tempoPending,   \* pending_ready_
  stopTempo,      \* stop was requested
  analyst,        \* analysis thread: what it does next
  rooming,        \* analysis thread inside pop: the tail it loaded
  fullOnce        \* history: the analysis thread found the queue full

tempoVars == <<queueVars, tempoPending, stopTempo, analyst, rooming, fullOnce>>

TempoInit == /\ QueueInit /\ tempoPending = FALSE /\ stopTempo = FALSE
             /\ analyst = "wait" /\ rooming = 0 /\ fullOnce = FALSE

QueueAlone == UNCHANGED <<queueVars, rooming, fullOnce>>

SubmitTempo ==
  /\ ~ stopTempo /\ tempoPending' = TRUE
  /\ analyst' = IF analyst = "asleep" THEN "wait" ELSE analyst
  /\ QueueAlone /\ UNCHANGED stopTempo

(* ~TempoGridAnalysisWorker asks for the stop without holding mutex_. *)
StopTempo ==
  /\ ~ stopTempo /\ stopTempo' = TRUE
  /\ analyst' = IF analyst = "asleep" THEN "wait" ELSE analyst
  /\ QueueAlone /\ UNCHANGED tempoPending

(* run: the predicate is evaluated under mutex_, the sleep begins after it. *)
TempoWait ==
  /\ analyst = "wait"
  /\ analyst' = IF stopTempo THEN "returned" ELSE IF tempoPending THEN "analyze" ELSE "falling asleep"
  /\ tempoPending' = (tempoPending /\ stopTempo)
  /\ QueueAlone /\ UNCHANGED stopTempo
TempoSleep ==
  /\ analyst = "falling asleep" /\ analyst' = IF tempoPending THEN "wait" ELSE "asleep"
  /\ QueueAlone /\ UNCHANGED <<tempoPending, stopTempo>>

Analyze ==
  /\ analyst = "analyze" /\ analyst' = "push"
  /\ QueueAlone /\ UNCHANGED <<tempoPending, stopTempo>>

(* while (!push(result) && !stop) pop(discarded) *)
TempoPush ==
  /\ analyst = "push"
  /\ IF pusher.pc = "idle" /\ Full
     THEN /\ analyst' = (IF stopTempo THEN "wait" ELSE "make room") /\ fullOnce' = TRUE
          /\ UNCHANGED queueVars
     ELSE Push /\ analyst' = (IF pusher.pc = "store" THEN "wait" ELSE "push") /\ UNCHANGED fullOnce
  /\ UNCHANGED <<tempoPending, stopTempo, rooming>>
MakeRoom ==
  /\ analyst = "make room"
  /\ IF tail = head THEN analyst' = "push" /\ UNCHANGED rooming
                    ELSE analyst' = "room" /\ rooming' = tail
  /\ UNCHANGED <<queueVars, tempoPending, stopTempo, fullOnce>>
MadeRoom ==
  /\ analyst = "room" /\ analyst' = "push"
  /\ tail' = After(rooming)
  /\ UNCHANGED <<head, values, pusher, popper, pushed, popped, tempoPending, stopTempo, rooming, fullOnce>>

PollTempo == Pop /\ UNCHANGED <<tempoPending, stopTempo, analyst, rooming, fullOnce>>

TempoNext == \/ SubmitTempo \/ StopTempo \/ PollTempo
             \/ TempoWait \/ TempoSleep \/ Analyze \/ TempoPush \/ MakeRoom \/ MadeRoom
TempoSpec == TempoInit /\ [][TempoNext]_tempoVars

(* "One producer and one consumer" holds until the queue is full once:     *)
(* what the audio thread takes is whole, and later than what it took       *)
(* before, however often the ring wraps.  Once the analysis thread makes   *)
(* room itself there are two consumers, and it does not hold any more.     *)
ResultsInOrderUnlessFull ==
  fullOnce \/ \A i \in 1 .. Len(popped) :
                 popped[i] # Torn /\ \A j \in 1 .. i - 1 : popped[j] < popped[i]
=============================================================================
