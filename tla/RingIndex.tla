------------------------------ MODULE RingIndex ------------------------------
(***************************************************************************)
(* The index and length arithmetic that fifo_blocked/fifo.c and            *)
(* fifo_atomic/fifo.c do on their ring of MaxSize bytes, in C's types.     *)
(***************************************************************************)
EXTENDS Integers

(* `n > lim ? lim : n' with an unsigned n and an int lim: a negative lim   *)
(* is converted to a size_t larger than every n, so n is kept.             *)
ClampSize(n, lim) == IF 0 <= lim /\ lim < n THEN lim ELSE n

(* C's remainder truncates towards zero: (-1) % m is -1, so a write of no  *)
(* bytes to a fresh ring leaves end at -1.                                 *)
CMod(a, m) == IF a < 0 THEN -((-a) % m) ELSE a % m
=============================================================================
