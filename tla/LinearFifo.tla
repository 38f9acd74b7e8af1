----------------------------- MODULE LinearFifo -----------------------------
(***************************************************************************)
(* fifo/fifo.c: a page that is filled once from the front and read once    *)
(* from the rear, with no lock and no test against its size.  A byte is    *)
(* named by its position in the page.  The calls interleave at every       *)
(* access to front and rear; Init is the state init_fifo leaves.           *)
(***************************************************************************)
EXTENDS Naturals, Sequences

CONSTANTS Readers, Writers,    \* tasks that call read, and write
          Lens,                \* the values of the argument n
          MaxBytes             \* bound on front: how much is ever written

ASSUME LinearFifoAssumption == Lens \subseteq Nat /\ MaxBytes \in Nat

Tasks == Readers \union Writers

VARIABLES front, rear,         \* fields of fifo
          pc, len, size, tmp,  \* a call: program counter, n, locals
          taken,               \* history: bytes copied to readers, in order
          faulted,             \* history: bytes whose copy to a reader faulted
          late                 \* history: bytes appended during a read

history == <<taken, faulted, late>>
vars    == <<front, rear, pc, len, size, tmp, taken, faulted, late>>

Init ==
  /\ front = 0 /\ rear = 0
  /\ pc   = [t \in Tasks |-> "idle"]
  /\ len  = [t \in Tasks |-> 0]
  /\ size = [t \in Tasks |-> 0]
  /\ tmp  = [t \in Tasks |-> 0]
  /\ taken = <<>> /\ faulted = {} /\ late = {}

Goto(t, from, to) == pc[t] = from /\ pc' = [pc EXCEPT ![t] = to]

Return(t) ==
  /\ pc'   = [pc   EXCEPT ![t] = "idle"]
  /\ len'  = [len  EXCEPT ![t] = 0]
  /\ size' = [size EXCEPT ![t] = 0]
  /\ tmp'  = [tmp  EXCEPT ![t] = 0]

Call(t, first, n) ==
  /\ Goto(t, "idle", first)
  /\ len' = [len EXCEPT ![t] = n]
  /\ UNCHANGED <<front, rear, size, tmp, history>>

-----------------------------------------------------------------------------
(* fifo_read.  size = front - rear, then min(n, size) bytes are copied.    *)
ReadSize(t) ==
  /\ Goto(t, "r_size", "r_copy")
  /\ size' = [size EXCEPT ![t] = front - rear]
  /\ UNCHANGED <<front, rear, len, tmp, history>>

ReadEmpty(t) ==
  /\ pc[t] = "r_copy" /\ size[t] = 0
  /\ Return(t)
  /\ UNCHANGED <<front, rear, history>>

Drains(t) == len[t] >= size[t]
Copied(t) == rear .. rear + (IF Drains(t) THEN size[t] ELSE len[t]) - 1

(* What copy_to_user returns is never looked at, so a copy that faults     *)
(* consumes its bytes all the same.                                        *)
ReadCopy(t) ==
  /\ size[t] # 0
  /\ Goto(t, "r_copy", IF Drains(t) THEN "r_drain" ELSE "r_advance")
  /\ tmp' = [tmp EXCEPT ![t] = rear]
  /\ \/ /\ taken' = taken \o [k \in 1 .. (IF Drains(t) THEN size[t]
                                          ELSE len[t]) |-> rear + k - 1]
        /\ UNCHANGED faulted
     \/ /\ faulted' = faulted \union Copied(t)
        /\ UNCHANGED taken
  /\ UNCHANGED <<front, rear, len, size, late>>

(* rear = front reads front once more, not what size was computed from.    *)
ReadDrain(t) ==
  /\ pc[t] = "r_drain"
  /\ rear' = front
  /\ Return(t)
  /\ UNCHANGED <<front, history>>

(* Mutant: the size of the buffer is added, not the bytes asked for.       *)
ReadAdvanceBySize(t) ==
  /\ pc[t] = "r_advance"
  /\ rear' = tmp[t] + size[t]
  /\ Return(t)
  /\ UNCHANGED <<front, history>>

(* Mutant: rear steps one byte short.                                      *)
ReadAdvanceShort(t) ==
  /\ pc[t] = "r_advance"
  /\ rear' = tmp[t] + (IF len[t] = 0 THEN 0 ELSE len[t] - 1)
  /\ Return(t)
  /\ UNCHANGED <<front, history>>

ReadAdvance(t) ==
  /\ pc[t] = "r_advance"
  /\ rear' = tmp[t] + len[t]
  /\ Return(t)
  /\ UNCHANGED <<front, history>>

-----------------------------------------------------------------------------
(* fifo_write: the bytes land at front, which then moves past them.  A     *)
(* copy that faults leaves front alone.                                    *)
WriteCopy(t) ==
  /\ Goto(t, "w_copy", "w_front")
  /\ tmp' = [tmp EXCEPT ![t] = front]
  /\ UNCHANGED <<front, rear, len, size, history>>

WriteFault(t) ==
  /\ pc[t] = "w_copy"
  /\ Return(t)
  /\ UNCHANGED <<front, rear, history>>

ReadingNow == \E r \in Readers : pc[r] \in {"r_copy", "r_drain"}

WriteFront(t) ==
  /\ pc[t] = "w_front"
  /\ front' = tmp[t] + len[t]
  /\ late' = late \union (IF ReadingNow THEN tmp[t] .. front' - 1 ELSE {})
  /\ Return(t)
  /\ UNCHANGED <<rear, taken, faulted>>

Next ==
  \/ \E t \in Readers, n \in Lens : Call(t, "r_size", n)
  \/ \E t \in Writers, n \in Lens :
       front + n <= MaxBytes /\ Call(t, "w_copy", n)
  \/ \E t \in Tasks :
       \/ ReadSize(t) \/ ReadEmpty(t) \/ ReadCopy(t) \/ ReadDrain(t)
       \/ ReadAdvance(t)
       \/ WriteCopy(t) \/ WriteFault(t) \/ WriteFront(t)

Spec == Init /\ [][Next]_vars

-----------------------------------------------------------------------------
TypeOK ==
  /\ front \in Nat /\ rear \in Nat
  /\ pc \in [Tasks -> {"idle", "r_size", "r_copy", "r_drain", "r_advance",
                       "w_copy", "w_front"}]
  /\ len \in [Tasks -> Nat] /\ size \in [Tasks -> Nat]
  /\ tmp \in [Tasks -> Nat]
  /\ taken \in Seq(Nat) /\ faulted \subseteq Nat /\ late \subseteq Nat

(* With one reader and one writer no byte is returned twice, or out of     *)
(* order, or before its write has published it.  (fifo.c:40-55, 67)        *)
TakenInOrder ==
  /\ \A i, j \in DOMAIN taken : i < j => taken[i] < taken[j]
  /\ \A i \in DOMAIN taken : taken[i] < front

(* A read that drains the buffer skips what a write appended since the     *)
(* read computed size: a byte behind rear that no reader got either        *)
(* faulted or arrived during a read, never anything else.  (fifo.c:40, 48) *)
OnlyLateBytesSkipped ==
  \A b \in 0 .. rear - 1 :
    (\A i \in DOMAIN taken : taken[i] # b) => b \in faulted \union late
=============================================================================
