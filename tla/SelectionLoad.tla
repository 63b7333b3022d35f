----------------------------- MODULE SelectionLoad -----------------------------
(***************************************************************************)
(* What control/selection_load.hpp does with one selected file: the        *)
(* selection is sent as a load command, the player's reply names the       *)
(* request, and the player's status tells how the request ended.           *)
(*                                                                         *)
(* A load is the record of SelectionLoad's members that its answers depend *)
(* on; the error codes that are only displayed are left out.               *)
(*                                                                         *)
(* M_X is a plausible bug in X: the properties are checked to notice it.   *)
(***************************************************************************)

LoadStates == {"Idle", "AwaitingAcceptance", "AwaitingCompletion", "Terminal", "Rejected",
               "ValidationFailed", "InvalidReply", "OutcomeUnknown", "Unavailable"}

(* MediaLoadState, and the part of it that ends a request. *)
Outcomes == {"committed", "failed", "protected", "cancelled"}
Progress == {"idle", "preparing", "prepared"} \union Outcomes

NewLoad == [state |-> "Idle", selection |-> 0, id |-> 0, outcome |-> "idle"]

InFlight(load) == load.state \in {"AwaitingAcceptance", "AwaitingCompletion"}
Unresolved(load) == load.state \in {"OutcomeUnknown", "InvalidReply"}

(* begin: only the first of two selections is taken, and an invalid one is not sent. *)
Begin(load, selection, valid) ==
  IF InFlight(load) \/ Unresolved(load) THEN load
  ELSE [NewLoad EXCEPT !.selection = selection,
                       !.state = IF valid THEN "AwaitingAcceptance" ELSE "ValidationFailed"]

(* accept: the reply carries an identity exactly if it accepts. *)
Accept(load, accepted, id) ==
  LET late == load.state = "OutcomeUnknown" /\ load.id = 0
      next == IF late THEN load.state ELSE "AwaitingCompletion"
  IN IF load.state # "AwaitingAcceptance" /\ ~ late THEN load
     ELSE IF accepted # (id # 0) THEN [load EXCEPT !.state = "InvalidReply"]
     ELSE IF accepted THEN [load EXCEPT !.id = id, !.state = next]
     ELSE [load EXCEPT !.state = "Rejected"]

(* observe: only a status of the accepted request counts. *)
M_Concerns(load, status) ==
  load.state = "AwaitingCompletion" /\ status.id = load.id
Concerns(load, status) ==
  /\ load.state \in {"AwaitingCompletion", "OutcomeUnknown"}
  /\ load.id # 0 /\ status.id = load.id

Malformed(load, status) ==
  \/ status.progress = "idle"
  \/ status.progress = "committed" /\ status.track # load.id

Observe(load, status) ==
  IF ~ Concerns(load, status) THEN load
  ELSE IF Malformed(load, status) THEN [load EXCEPT !.state = "InvalidReply"]
  ELSE [load EXCEPT !.outcome = status.progress,
                    !.state = IF status.progress \in Outcomes THEN "Terminal" ELSE @]

OutcomeUnknown(load) == IF InFlight(load) THEN [load EXCEPT !.state = "OutcomeUnknown"] ELSE load

UnavailableBeforeSend(load) ==
  IF load.state = "AwaitingAcceptance" THEN [load EXCEPT !.state = "Unavailable"] ELSE load
=============================================================================
