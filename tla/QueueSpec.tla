------------------------------ MODULE QueueSpec -----------------------------
(***************************************************************************)
(* What a FreeRTOS queue promises: a bounded sequence of items, put in at  *)
(* the back or the front and taken out at the front.  out is the item the  *)
(* last receive or peek copied to its caller.                              *)
(***************************************************************************)
EXTENDS Naturals, Sequences

CONSTANTS Items, Length

VARIABLES items, out

Init == items = <<>> /\ out \in Items

Room == Len(items) < Length

SendToBack(x)  == Room /\ items' = Append(items, x) /\ UNCHANGED out
SendToFront(x) == Room /\ items' = <<x>> \o items /\ UNCHANGED out

Receive == items # <<>> /\ out' = Head(items) /\ items' = Tail(items)
Peek    == items # <<>> /\ out' = Head(items) /\ UNCHANGED items

Reset == items' = <<>> /\ UNCHANGED out

Next ==
  \/ \E x \in Items : SendToBack(x) \/ SendToFront(x)
  \/ Receive \/ Peek \/ Reset

Spec == Init /\ [][Next]_<<items, out>>
=============================================================================
