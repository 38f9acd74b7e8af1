------------------------------ MODULE ByteQueue ------------------------------
(***************************************************************************)
(* What a ring of bytes promises: a first-in first-out queue of bounded    *)
(* length.  A put appends as much as fits, a take removes from the front,  *)
(* neither changes anything else.                                          *)
(***************************************************************************)
EXTENDS Naturals, Sequences

CONSTANTS Capacity, Data

VARIABLE queue

Init == queue = <<>>

Put == \E k \in 1 .. Capacity - Len(queue) : \E s \in [1 .. k -> Data] :
         queue' = queue \o s

Take == \E k \in 1 .. Len(queue) :
          queue' = SubSeq(queue, k + 1, Len(queue))

Next == Put \/ Take

Spec == Init /\ [][Next]_queue
=============================================================================
