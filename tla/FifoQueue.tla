----------------------------- MODULE FifoQueue -----------------------------
(***************************************************************************)
(* What a queue of the library promises, whatever its implementation: an   *)
(* enqueue puts its element behind all the others at one instant, and a    *)
(* dequeue hands its caller the oldest element or, as the code does with a *)
(* NULL in *data, nothing.  When it may hand out nothing is a property of  *)
(* each implementation: the swap queue overlooks elements that are not     *)
(* linked yet.                                                             *)
(***************************************************************************)
EXTENDS Sequences

CONSTANTS Consumers, Data, NULL

VARIABLES
  items,  \* the elements in the queue, the oldest first
  out     \* what each consumer's last dequeue stored into *data

vars == <<items, out>>

Init == items = << >> /\ out = [c \in Consumers |-> NULL]

Enqueue(v) == items' = Append(items, v) /\ UNCHANGED out

Dequeue(c) ==
  /\ items # << >>
  /\ out' = [out EXCEPT ![c] = Head(items)]
  /\ items' = Tail(items)

Miss(c) == out' = [out EXCEPT ![c] = NULL] /\ UNCHANGED items

Next ==
  \/ \E c \in Consumers : Dequeue(c) \/ Miss(c)
  \/ \E v \in Data : Enqueue(v)

Spec == Init /\ [][Next]_vars
=============================================================================
