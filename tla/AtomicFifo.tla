----------------------------- MODULE AtomicFifo -----------------------------
(***************************************************************************)
(* fifo_atomic/fifo.c: the ring behind an open that counts in the atomic   *)
(* `available'.  Reads never sleep: an empty ring reads as end of file.    *)
(***************************************************************************)
EXTENDS Ring

CONSTANT Openers        \* tasks that open the device

ASSUME AtomicFifoAssumption == Tasks \subseteq Openers /\ IsFiniteSet(Openers)

VARIABLES available,    \* FIFO.available
          file          \* what task t has of the device: "closed", "open", or
                        \* "undo", a refused open before its atomic_inc

doorVars == <<available, file>>
vars     == <<ringVars, doorVars>>

Init ==
  /\ RingInit
  /\ available = 1
  /\ file = [t \in Openers |-> "closed"]

-----------------------------------------------------------------------------
(* fifo_open: atomic_dec_and_test is true when the counter reaches 0, and  *)
(* the code lets in whoever finds it false.                                *)
OpenAdmits(left) == left # 0

(* Mutant: the test the other way round.                                   *)
OpenReachingZero(t) ==
  /\ file[t] = "closed"
  /\ available' = available - 1
  /\ file' = [file EXCEPT ![t] = IF OpenAdmits(available') THEN "undo"
                                 ELSE "open"]
  /\ UNCHANGED ringVars

Open(t) ==
  /\ file[t] = "closed"
  /\ available' = available - 1
  /\ file' = [file EXCEPT ![t] = IF OpenAdmits(available') THEN "open"
                                 ELSE "undo"]
  /\ UNCHANGED ringVars

(* Mutant: a refused open keeps its decrement.                             *)
OpenBusyKeeps(t) ==
  /\ file[t] = "undo"
  /\ file' = [file EXCEPT ![t] = "closed"]
  /\ UNCHANGED <<ringVars, available>>

OpenBusy(t) ==
  /\ file[t] = "undo"
  /\ available' = available + 1
  /\ file' = [file EXCEPT ![t] = "closed"]
  /\ UNCHANGED ringVars

(* fifo_release: the last reference goes, so no call is under way.         *)
Release(t) ==
  /\ file[t] = "open"
  /\ t \in Tasks => pc[t] = "idle"
  /\ available' = available + 1
  /\ file' = [file EXCEPT ![t] = "closed"]
  /\ UNCHANGED ringVars

-----------------------------------------------------------------------------
ReadCall(t, n)  == file[t] = "open" /\ Enter(t, "r_size", n)
WriteCall(t, n) == file[t] = "open" /\ Enter(t, "w_space", n)

ReadEmpty(t) ==
  /\ pc[t] = "r_size" /\ ClampSize(len[t], cursize) = 0
  /\ Return(t)
  /\ UNCHANGED fields

Read(t) ==
  \/ ReadEmpty(t)
  \/ ClampSize(len[t], cursize) # 0 /\ ReadSize(t)
  \/ ReadCopies(t)
  \/ ReadFault(t)

WriteDone(t) ==
  /\ pc[t] = "w_done"
  /\ Return(t)
  /\ UNCHANGED fields

Write(t) == WriteCopies(t) \/ WriteFault(t) \/ WriteDone(t)

Next ==
  \/ \E t \in Openers : Open(t) \/ OpenBusy(t) \/ Release(t)
  \/ /\ \/ \E t \in Readers, n \in Lens : ReadCall(t, n)
        \/ \E t \in Writers, n \in Lens : WriteCall(t, n)
        \/ \E t \in Tasks : Read(t) \/ Write(t)
     /\ UNCHANGED doorVars

Spec == Init /\ [][Next]_vars

-----------------------------------------------------------------------------
TypeOK ==
  /\ RingTypeOK(RingPCs)
  /\ available \in Int
  /\ file \in [Openers -> {"closed", "undo", "open"}]

(* Everybody who holds the device or is about to be told -EBUSY.           *)
NotClosed == {t \in Openers : file[t] # "closed"}

(* The counter is one less all of these, so every refused open and every   *)
(* release restores exactly what its open took.  (fifo.c:48-56, 143, 170)  *)
AvailableCounts == available = 1 - Cardinality(NotClosed)

(* -EBUSY is for the task that is alone: at most one open is being         *)
(* refused, and nobody held the device when it was.  (fifo.c:48-56)        *)
RefusedOnlyWhenFree ==
  [][\A t \in Openers :
       file[t] = "closed" /\ file'[t] = "undo" =>
         \A u \in Openers : file[u] = "closed"]_vars

(* An open succeeds only while another task holds the device or is being   *)
(* refused: used by one task at a time, the device can never be opened.    *)
(* (fifo.c:48-49)                                                          *)
AdmittedOnlyInContention ==
  [][\A t \in Openers :
       file[t] = "closed" /\ file'[t] = "open" =>
         \E u \in Openers \ {t} : file[u] # "closed"]_vars

(* What the code that the atomic replaces says (fifo.c:40-42): the device  *)
(* is taken by the open that finds it available, so one task has it.       *)
ExclusiveOpen ==
  \A t, u \in Openers : file[t] = "open" /\ file[u] = "open" => t = u
=============================================================================
