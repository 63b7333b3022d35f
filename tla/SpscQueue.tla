------------------------------- MODULE SpscQueue -------------------------------
(***************************************************************************)
(* utility/spsc_queue.hpp: a ring of Capacity slots, one of them kept free *)
(* to tell full from empty, with a producer's index and a consumer's.      *)
(*                                                                         *)
(* Two threads.  An index is loaded and stored in one step, copying an     *)
(* element in or out takes two, so that a copy that overlaps another shows *)
(* up as Torn.  Elements are numbered by the push that carried them.       *)
(***************************************************************************)
EXTENDS Integers, Sequences

CONSTANTS
  Capacity,   \* template parameter Capacity
  MaxPush     \* bound on successful pushes

ASSUME QueueAssumption == Capacity \in Nat \ {0, 1} /\ MaxPush \in Nat

VARIABLES
  head, tail,   \* head_, tail_
  values,       \* values_
  pusher,       \* producer thread: pc and the head it loaded
  popper,       \* consumer thread: pc, the tail it loaded and the element it saw
  pushed,       \* history: elements pushed
  popped        \* history: elements popped, in order

queueVars == <<head, tail, values, pusher, popper, pushed, popped>>

Torn == -1
SlotsOf == 0 .. Capacity - 1
After(i) == (i + 1) % Capacity

QueueInit ==
  /\ head = 0 /\ tail = 0 /\ values = [i \in SlotsOf |-> 0]
  /\ pusher = [pc |-> "idle", at |-> 0]
  /\ popper = [pc |-> "idle", at |-> 0, value |-> 0]
  /\ pushed = 0 /\ popped = <<>>

(* push *)
M_Full == head = tail - 1
Full == After(head) = tail
PushLoad ==
  /\ pusher.pc = "idle" /\ pushed < MaxPush
  /\ pusher' = IF Full THEN pusher ELSE [pc |-> "copy", at |-> head]
  /\ UNCHANGED <<head, tail, values, popper, pushed, popped>>
PushCopy ==
  /\ pusher.pc = "copy" /\ pusher' = [pusher EXCEPT !.pc = "copied"]
  /\ values' = [values EXCEPT ![pusher.at] = Torn]
  /\ UNCHANGED <<head, tail, popper, pushed, popped>>
PushCopied ==
  /\ pusher.pc = "copied" /\ pusher' = [pusher EXCEPT !.pc = "store"]
  /\ values' = [values EXCEPT ![pusher.at] = pushed + 1]
  /\ UNCHANGED <<head, tail, popper, pushed, popped>>
PushStore ==
  /\ pusher.pc = "store" /\ pusher' = [pusher EXCEPT !.pc = "idle"]
  /\ head' = After(pusher.at) /\ pushed' = pushed + 1
  /\ UNCHANGED <<tail, values, popper, popped>>

(* pop *)
PopLoad ==
  /\ popper.pc = "idle" /\ tail # head
  /\ popper' = [pc |-> "copy", at |-> tail, value |-> 0]
  /\ UNCHANGED <<head, tail, values, pusher, pushed, popped>>
PopCopy ==
  /\ popper.pc = "copy"
  /\ popper' = [popper EXCEPT !.pc = "copied", !.value = values[popper.at]]
  /\ UNCHANGED <<head, tail, values, pusher, pushed, popped>>
PopCopied ==
  /\ popper.pc = "copied"
  /\ popper' = [popper EXCEPT !.pc = "store", !.value = IF values[popper.at] = @ THEN @ ELSE Torn]
  /\ UNCHANGED <<head, tail, values, pusher, pushed, popped>>
PopStore ==
  /\ popper.pc = "store" /\ popper' = [popper EXCEPT !.pc = "idle"]
  /\ tail' = After(popper.at) /\ popped' = Append(popped, popper.value)
  /\ UNCHANGED <<head, values, pusher, pushed>>

Push == PushLoad \/ PushCopy \/ PushCopied \/ PushStore
Pop == PopLoad \/ PopCopy \/ PopCopied \/ PopStore
QueueNext == Push \/ Pop
QueueSpec == QueueInit /\ [][QueueNext]_queueVars
=============================================================================
