----------------------------- MODULE BlockedFifo -----------------------------
(***************************************************************************)
(* fifo_blocked/fifo.c: a character device over the ring.  A read sleeps   *)
(* while the ring is empty, a write wakes the sleepers.                    *)
(***************************************************************************)
EXTENDS Ring

VARIABLES readqueue,    \* tasks on the wait queue, in TASK_INTERRUPTIBLE
          sig           \* a signal is pending for the task

waitVars == <<readqueue, sig>>
vars     == <<ringVars, waitVars>>

WaitPCs == {"r_prepare", "r_recheck", "r_sleep"}
PCs     == RingPCs \union WaitPCs \union {"r_check"}

Init ==
  /\ RingInit
  /\ readqueue = {}
  /\ sig = [t \in Tasks |-> FALSE]

-----------------------------------------------------------------------------
ReadCall(t, n)  == Enter(t, "r_check", n) /\ UNCHANGED waitVars
WriteCall(t, n) == Enter(t, "w_space", n) /\ UNCHANGED waitVars

(* The test of cursize and wait_event's own first test, which would leave  *)
(* in the same way.                                                        *)
ReadCheck(t) ==
  /\ Goto(t, "r_check", IF cursize = 0 THEN "r_prepare" ELSE "r_size")
  /\ UNCHANGED <<fields, frame, waitVars>>

(* wait_event_interruptible: get on the queue, test again, sleep; a        *)
(* signal ends the wait, and fifo_read ignores that it did.                *)
WaitPrepare(t) ==
  /\ Goto(t, "r_prepare", "r_recheck")
  /\ readqueue' = readqueue \union {t}
  /\ UNCHANGED <<fields, frame, sig>>

WaitDone(t) ==
  /\ cursize # 0 \/ sig[t]
  /\ Goto(t, "r_recheck", "r_size")
  /\ readqueue' = readqueue \ {t}
  /\ UNCHANGED <<fields, frame, sig>>

(* Mutant: no second test between getting on the queue and sleeping.       *)
WaitSleepUntested(t) ==
  /\ Goto(t, "r_recheck", "r_sleep")
  /\ UNCHANGED <<fields, frame, waitVars>>

WaitSleep(t) ==
  /\ cursize = 0 /\ ~sig[t]
  /\ Goto(t, "r_recheck", "r_sleep")
  /\ UNCHANGED <<fields, frame, waitVars>>

(* Mutant: whoever is woken reads, without a new test (an if for a while). *)
WaitResumeUntested(t) ==
  /\ t \notin readqueue \/ sig[t]
  /\ Goto(t, "r_sleep", "r_size")
  /\ UNCHANGED <<fields, frame, waitVars>>

WaitResume(t) ==
  /\ t \notin readqueue \/ sig[t]
  /\ Goto(t, "r_sleep", "r_prepare")
  /\ UNCHANGED <<fields, frame, waitVars>>

(* Mutant: the write returns without a wake-up.                            *)
WriteWakeNobody(t) ==
  /\ pc[t] = "w_done"
  /\ Return(t)
  /\ UNCHANGED <<fields, waitVars>>

(* wake_up_interruptible takes every sleeper off the queue.                *)
WriteWake(t) ==
  /\ pc[t] = "w_done"
  /\ readqueue' = {}
  /\ Return(t)
  /\ UNCHANGED <<fields, sig>>

(* Going back to user space delivers a pending signal.                     *)
Deliver(t) ==
  /\ sig' = [sig EXCEPT ![t] = sig[t] /\ pc'[t] # "idle"]
  /\ UNCHANGED readqueue

(* A signal matters only to a task that waits.                             *)
Signal(t) ==
  /\ pc[t] \in WaitPCs
  /\ sig' = [sig EXCEPT ![t] = TRUE]
  /\ UNCHANGED <<ringVars, readqueue>>

CallStep(t) ==
  \/ ReadCheck(t) \/ WaitPrepare(t) \/ WaitDone(t) \/ WaitSleep(t)
  \/ WaitResume(t) \/ WriteWake(t)
  \/ (ReadSize(t) \/ ReadCopies(t) \/ WriteCopies(t)) /\ Deliver(t)

Next ==
  \/ \E t \in Readers, n \in Lens : ReadCall(t, n)
  \/ \E t \in Writers, n \in Lens : WriteCall(t, n)
  \/ \E t \in Tasks : \/ CallStep(t)
                      \/ Signal(t)
                      \/ (ReadFault(t) \/ WriteFault(t)) /\ Deliver(t)

(* The scheduler runs every task that is in a call and not asleep; nobody  *)
(* has to call, to be signalled or to fault.                               *)
Fairness == \A t \in Tasks : WF_vars(CallStep(t))

Spec     == Init /\ [][Next]_vars
FairSpec == Spec /\ Fairness

-----------------------------------------------------------------------------
(* Every variable has its type; in particular start and end stay indices   *)
(* of the page for any number of tasks.  (fifo.c:76, 115)                  *)
TypeOK ==
  /\ RingTypeOK(PCs)
  /\ readqueue \subseteq Tasks
  /\ sig \in [Tasks -> BOOLEAN]

(* A reader never sleeps over data unless the write that stored it has     *)
(* still to call wake_up_interruptible.  (fifo.c:42-44, 116-119)           *)
NoLostWakeup ==
  \A r \in Readers :
    pc[r] = "r_sleep" /\ r \in readqueue /\ cursize # 0 =>
      \E w \in Writers : pc[w] = "w_done"

(* A read of some bytes that no signal interrupted has found some: the     *)
(* wait at fifo.c:43-44 did not end over an empty ring.                    *)
WaitEndsWithData ==
  \A r \in Readers :
    /\ pc[r] \in {"r_copy1", "r_copy2", "r_start", "r_setstart", "r_load",
                  "r_store"}
    /\ ~sig[r] /\ len[r] > 0
    => size[r] > 0

(* A sleeping reader whose ring has data gets out of the call: it is woken *)
(* and its read runs to its end.  (fifo.c:44, 119)                         *)
DataEndsTheSleep ==
  \A r \in Readers :
    (pc[r] = "r_sleep" /\ cursize # 0) ~> (pc[r] = "idle")

-----------------------------------------------------------------------------
(* Calls that do not overlap, and what the ring then stores.               *)

(* The bytes counted as unread.  A read has consumed once it stored start, *)
(* a write has produced once it stored cursize.                            *)
Consuming == {t \in Tasks : pc[t] \in {"r_load", "r_store"}}
Unread    == cursize - (IF Consuming = {} THEN 0
                        ELSE size[CHOOSE t \in Consuming : TRUE])
Contents  == [k \in 1 .. Unread |-> qbuf[(start + k - 1) % MaxSize]]

(* The ring implements a bounded first-in first-out queue: wherever the    *)
(* data wraps and whichever copy faults, a write appends to what is unread *)
(* and a read removes a prefix of it.  (fifo.c:76-77, 87-116)              *)
Queue == INSTANCE ByteQueue WITH Capacity <- MaxSize, queue <- Contents
RingIsQueue == Queue!Spec

(* The bytes of a read, when all were copied, are the oldest unread ones.  *)
InOrder(t) == got[t] = SubSeq(Contents, 1, size[t])

(* What the comment "queue property" (fifo.c:23) and the device's name     *)
(* promise of every read that succeeds.                                    *)
ReadsInOrder == \A t \in Tasks : pc[t] = "r_start" => InOrder(t)

(* What the code keeps of it: the reads that find start at 0 or the data   *)
(* wrapped return the oldest bytes, and no read returns more or fewer      *)
(* bytes than it removes.  (fifo.c:52-76)                                  *)
WrappedReadsInOrder ==
  \A t \in Tasks :
    pc[t] = "r_start" =>
      /\ Len(got[t]) = size[t]
      /\ start = 0 \/ start > end => InOrder(t)

(* Between calls the three fields agree: counting cursize bytes on from    *)
(* start leads to end.  (fifo.c:76-77, 115-116)                            *)
FieldsAgree ==
  (\A t \in Tasks : pc[t] = "idle") =>
    (start + cursize) % MaxSize = (end + 1) % MaxSize
=============================================================================
