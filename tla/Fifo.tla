-------------------------------- MODULE Fifo --------------------------------
(***************************************************************************)
(* What a ring promises: a bounded first-in first-out queue.  A value is   *)
(* added at the back while there is room, and a batch of values is taken   *)
(* from the front.  Nothing is lost, duplicated, reordered or altered in   *)
(* between.                                                                *)
(***************************************************************************)
EXTENDS Naturals, Sequences

CONSTANTS Value, Capacity

VARIABLE buf

Init == buf = << >>

Enqueue(v) ==
  /\ Len(buf) < Capacity
  /\ buf' = Append(buf, v)

Dequeue(n) ==
  /\ n <= Len(buf)
  /\ buf' = SubSeq(buf, n + 1, Len(buf))

Next ==
  \/ \E v \in Value : Enqueue(v)
  \/ \E n \in 1 .. Capacity : Dequeue(n)

Spec == Init /\ [][Next]_buf

=============================================================================
