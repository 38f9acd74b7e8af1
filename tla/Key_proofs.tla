----------------------------- MODULE Key_proofs -----------------------------
(***************************************************************************)
(* The presses of key/key.c for every number of tasks that open, read and  *)
(* poll the device at the same time.                                       *)
(***************************************************************************)
EXTENDS Key, FiniteSetTheorems, TLAPS

LEMMA InitType == Init => TypeOK
BY DEF Init, TypeOK

LEMMA TypeStep == TypeOK /\ [Next]_vars => TypeOK'
<1> SUFFICES ASSUME TypeOK, [Next]_vars
             PROVE  TypeOK'
  OBVIOUS
<1> USE KeyAssumption DEF TypeOK
<1>1. CASE UNCHANGED vars
  BY <1>1 DEF vars
<1>2. CASE Interrupt \/ TimerFires \/ TimerSet \/ TimerWake
  <2>1. available' \in Int /\ available' <= 1 /\ credit' \in Int
    BY <1>2 DEF Interrupt, TimerFires, TimerSet, TimerWake
  <2>2. armed' \in BOOLEAN /\ timer' \in {"off", "set", "wake"}
    BY <1>2 DEF Interrupt, TimerFires, TimerSet, TimerWake
  <2>3. /\ queue' \subseteq Tasks /\ file' = file /\ sig' = sig
        /\ told' = told /\ pc' = pc
    BY <1>2 DEF Interrupt, TimerFires, TimerSet, TimerWake
  <2>4. QED
    BY <2>1, <2>2, <2>3
<1>3. ASSUME NEW t \in Tasks, Open(t) \/ Release(t) \/ Signal(t)
      PROVE  TypeOK'
  BY <1>3 DEF Open, Release, Signal
<1>4. ASSUME NEW t \in Tasks, Call(t, "r_test") \/ Call(t, "p_arm")
      PROVE  TypeOK'
  BY <1>4 DEF Call, Goto
<1>5. ASSUME NEW t \in Tasks, CallStep(t)
      PROVE  TypeOK'
  <2>1. CASE ReadFinds(t) \/ ReadMisses(t) \/ ReadInterrupted(t)
    BY <2>1 DEF ReadFinds, ReadMisses, ReadInterrupted, Test, Return, Goto
  <2>2. CASE Prepare(t) \/ Resume(t)
    BY <2>2 DEF Prepare, Resume, Goto
  <2>3. CASE PollFinds(t) \/ PollMisses(t) \/ PollRestore(t)
             \/ PollInterrupted(t)
    BY <2>3 DEF PollFinds, PollMisses, PollRestore, PollInterrupted, Test,
       Return, Goto
  <2>4. QED
    BY <1>5, <2>1, <2>2, <2>3 DEF CallStep
<1>6. QED
  BY <1>1, <1>2, <1>3, <1>4, <1>5 DEF Next, Tasks

LEMMA TypeInvariance == Spec => []TypeOK
BY InitType, TypeStep, PTL DEF Spec

(* The polls about to put a press back are finitely many.                  *)
LEMMA RestoringFinite ==
  IsFiniteSet(Restoring) /\ Cardinality(Restoring) \in Nat
BY KeyAssumption, FS_Subset, FS_CardinalityType DEF Restoring

(* A press moves from `available' to a poll and back, from `available' to  *)
(* a read, or is forgotten; only the timer makes one.                      *)
LEMMA PressStep == TypeOK /\ NoPressTwice /\ [Next]_vars => NoPressTwice'
<1> SUFFICES ASSUME TypeOK, NoPressTwice, [Next]_vars
             PROVE  NoPressTwice'
  OBVIOUS
<1>0. IsFiniteSet(Restoring) /\ Cardinality(Restoring) \in Nat
  BY RestoringFinite
<1>1. ASSUME Restoring' = Restoring, credit' = credit,
             available' = 1 => available = 1
      PROVE  NoPressTwice'
  BY <1>0, <1>1 DEF NoPressTwice, TypeOK
<1>2. CASE UNCHANGED vars
  BY <1>1, <1>2 DEF vars, Restoring
<1>3. CASE Interrupt \/ TimerFires \/ TimerWake
  BY <1>1, <1>3 DEF Interrupt, TimerFires, TimerWake, Restoring
<1>4. CASE TimerSet
  <2>1. Restoring' = Restoring
    BY <1>4 DEF TimerSet, Restoring
  <2>2. QED
    BY <1>0, <1>4, <2>1 DEF TimerSet, NoPressTwice, TypeOK
<1>5. ASSUME NEW t \in Tasks,
             \/ Open(t) \/ Release(t) \/ Signal(t)
             \/ Call(t, "r_test") \/ Call(t, "p_arm")
      PROVE  NoPressTwice'
  <2>1. Restoring' = Restoring
    BY <1>5 DEF Open, Release, Signal, Call, Goto, Restoring, TypeOK
  <2>2. credit' = credit /\ (available' = 1 => available = 1)
    BY <1>5 DEF Open, Release, Signal, Call
  <2>3. QED
    BY <1>1, <2>1, <2>2
<1>6. ASSUME NEW t \in Tasks, ReadFinds(t)
      PROVE  NoPressTwice'
  <2>1. Restoring' = Restoring
    BY <1>6 DEF ReadFinds, Return, Restoring, TypeOK
  <2>2. QED
    BY <1>0, <1>6, <2>1 DEF ReadFinds, Pressed, Test, NoPressTwice, TypeOK
<1>7. ASSUME NEW t \in Tasks,
             \/ ReadMisses(t) \/ ReadInterrupted(t) \/ PollMisses(t)
             \/ Prepare(t) \/ Resume(t) \/ PollInterrupted(t)
      PROVE  NoPressTwice'
  <2>1. Restoring' = Restoring
    BY <1>7 DEF ReadMisses, ReadInterrupted, PollMisses, Prepare, Resume,
       PollInterrupted, Return, Goto, Restoring, TypeOK
  <2>2. credit' = credit /\ (available' = 1 => available = 1)
    BY <1>7 DEF ReadMisses, ReadInterrupted, PollMisses, Prepare, Resume,
       PollInterrupted, Test, Pressed, TypeOK
  <2>3. QED
    BY <1>1, <2>1, <2>2
<1>8. ASSUME NEW t \in Tasks, PollFinds(t)
      PROVE  NoPressTwice'
  <2>1. Restoring' = Restoring \union {t} /\ t \notin Restoring
    BY <1>8 DEF PollFinds, Goto, Restoring, TypeOK
  <2>2. Cardinality(Restoring') = Cardinality(Restoring) + 1
    BY <1>0, <2>1, FS_AddElement
  <2>3. QED
    BY <1>0, <1>8, <2>2 DEF PollFinds, Pressed, Test, NoPressTwice, TypeOK
<1>9. ASSUME NEW t \in Tasks, PollRestore(t)
      PROVE  NoPressTwice'
  <2>1. Restoring' = Restoring \ {t} /\ t \in Restoring
    BY <1>9 DEF PollRestore, Return, Restoring, TypeOK
  <2>2. Cardinality(Restoring') = Cardinality(Restoring) - 1
    BY <1>0, <2>1, FS_RemoveElement
  <2>3. QED
    BY <1>0, <1>9, <2>2 DEF PollRestore, NoPressTwice, TypeOK
<1>10. QED
  BY <1>2, <1>3, <1>4, <1>5, <1>6, <1>7, <1>8, <1>9
     DEF Next, CallStep, Tasks

(* Whatever tasks open, read and poll at once, no press is read twice.     *)
THEOREM PressesAreReadOnce == Spec => []NoPressTwice
<1>1. Init => NoPressTwice
  <2>1. Init => Restoring = {}
    BY DEF Init, Restoring
  <2>2. QED
    BY <2>1, FS_EmptySet DEF Init, NoPressTwice
<1>2. TypeOK /\ NoPressTwice /\ [Next]_vars => NoPressTwice'
  BY PressStep
<1>3. QED
  BY <1>1, <1>2, TypeInvariance, PTL DEF Spec
-----------------------------------------------------------------------------
(* Sleeping over a press.                                                  *)

(* Only the tasks that may poll are ever inside a poll.                    *)
PollRole ==
  \A t \in Tasks : pc[t] \in {"p_arm", "p_test", "p_restore", "p_sleep"}
                   => t \in Pollers

LEMMA PollRoleStep == TypeOK /\ PollRole /\ [Next]_vars => PollRole'
<1> SUFFICES ASSUME TypeOK, PollRole, [Next]_vars
             PROVE  PollRole'
  OBVIOUS
<1> USE DEF TypeOK, PollRole
<1>1. CASE UNCHANGED vars
  BY <1>1 DEF vars
<1>2. CASE Interrupt \/ TimerFires \/ TimerSet \/ TimerWake
  BY <1>2 DEF Interrupt, TimerFires, TimerSet, TimerWake
<1>3. ASSUME NEW t \in Tasks, Open(t) \/ Release(t) \/ Signal(t)
      PROVE  PollRole'
  BY <1>3 DEF Open, Release, Signal
<1>4. ASSUME NEW t \in Readers, Call(t, "r_test")
      PROVE  PollRole'
  BY <1>4 DEF Call, Goto
<1>5. ASSUME NEW t \in Pollers, Call(t, "p_arm")
      PROVE  PollRole'
  BY <1>5 DEF Call, Goto
<1>6. ASSUME NEW t \in Tasks, CallStep(t)
      PROVE  PollRole'
  BY <1>6 DEF CallStep, ReadFinds, ReadMisses, ReadInterrupted, Prepare,
     Resume, PollFinds, PollMisses, PollRestore, PollInterrupted, Return, Goto
<1>7. QED
  BY <1>1, <1>2, <1>3, <1>4, <1>5, <1>6 DEF Next

(* The counter becomes 1 in the timer, whose wake-up follows, and in a     *)
(* poll that puts a press back, which wakes nobody: no poller may then     *)
(* have company.  A task goes to sleep only after a miss.                  *)
LEMMA WakeupStep ==
  ASSUME \A p \in Pollers : Tasks = {p},
         TypeOK, PollRole, NoLostWakeup, [Next]_vars
  PROVE  NoLostWakeup'
<1> USE DEF TypeOK, NoLostWakeup
<1>1. CASE UNCHANGED vars
  BY <1>1 DEF vars
<1>2. CASE Interrupt \/ TimerFires \/ TimerSet \/ TimerWake
  BY <1>2 DEF Interrupt, TimerFires, TimerSet, TimerWake
<1>3. ASSUME NEW t \in Tasks,
             \/ Open(t) \/ Release(t) \/ Signal(t)
             \/ Call(t, "r_test") \/ Call(t, "p_arm")
      PROVE  NoLostWakeup'
  BY <1>3 DEF Open, Release, Signal, Call, Goto
<1>4. ASSUME NEW t \in Tasks,
             ReadFinds(t) \/ ReadMisses(t) \/ ReadInterrupted(t)
             \/ PollFinds(t) \/ PollMisses(t)
      PROVE  NoLostWakeup'
  <2>1. available' # 1
    BY <1>4 DEF ReadFinds, ReadMisses, ReadInterrupted, PollFinds, PollMisses,
       Test
  <2>2. QED
    BY <2>1
<1>5. ASSUME NEW t \in Tasks, Prepare(t) \/ Resume(t) \/ PollInterrupted(t)
      PROVE  NoLostWakeup'
  BY <1>5 DEF Prepare, Resume, PollInterrupted, Return, Goto
<1>6. ASSUME NEW t \in Tasks, PollRestore(t)
      PROVE  NoLostWakeup'
  <2>1. Tasks = {t}
    BY <1>6 DEF PollRestore, PollRole
  <2>2. pc'[t] = "idle"
    BY <1>6 DEF PollRestore, Return
  <2>3. QED
    BY <2>1, <2>2
<1>7. QED
  BY <1>1, <1>2, <1>3, <1>4, <1>5, <1>6 DEF Next, CallStep, Tasks

(* A task that sleeps over a press is about to be woken, for any number of *)
(* readers when nobody polls, and for a task that both polls and reads     *)
(* when it is alone.                                                       *)
THEOREM SleepersAreWoken ==
  ASSUME \A p \in Pollers : Tasks = {p}
  PROVE  Spec => []NoLostWakeup
<1>1. Init => PollRole /\ NoLostWakeup
  BY DEF Init, PollRole, NoLostWakeup
<1>2. TypeOK /\ PollRole /\ NoLostWakeup /\ [Next]_vars
        => (PollRole /\ NoLostWakeup)'
  BY PollRoleStep, WakeupStep
<1>3. QED
  BY <1>1, <1>2, TypeInvariance, PTL DEF Spec

-----------------------------------------------------------------------------
(* What "readable" is worth to the task that was told.                     *)

(* Until the told task reads, the press it was told of is in the counter,  *)
(* or in the hands of its own next poll.                                   *)
ToldInv(t) ==
  /\ pc[t] # "idle" => t \in file
  /\ t \in told => /\ t \in file
                   /\ pc[t] \in {"idle", "r_test", "p_arm", "p_test",
                                 "p_restore"}
                   /\ pc[t] # "p_restore" => available = 1

LEMMA ToldStep ==
  ASSUME NEW t, Tasks = {t}, TypeOK, ToldInv(t), [Next]_vars
  PROVE  ToldInv(t)'
<1> USE DEF TypeOK, ToldInv
<1>1. CASE UNCHANGED vars
  BY <1>1 DEF vars
<1>2. CASE Interrupt \/ TimerFires \/ TimerSet \/ TimerWake
  BY <1>2 DEF Interrupt, TimerFires, TimerSet, TimerWake
<1>3. CASE Open(t) \/ Release(t) \/ Signal(t)
  BY <1>3 DEF Open, Release, Signal
<1>4. CASE Call(t, "r_test") \/ Call(t, "p_arm")
  BY <1>4 DEF Call, Goto
<1>5. CASE ReadFinds(t) \/ ReadMisses(t) \/ ReadInterrupted(t)
  BY <1>5 DEF ReadFinds, ReadMisses, ReadInterrupted, Pressed, Test, Return,
     Goto
<1>6. CASE Prepare(t) \/ Resume(t)
  BY <1>6 DEF Prepare, Resume, Goto
<1>7. CASE PollFinds(t) \/ PollMisses(t)
  BY <1>7 DEF PollFinds, PollMisses, Pressed, Test, Goto
<1>8. CASE PollRestore(t) \/ PollInterrupted(t)
  BY <1>8 DEF PollRestore, PollInterrupted, Return
<1>9. QED
  BY <1>1, <1>2, <1>3, <1>4, <1>5, <1>6, <1>7, <1>8 DEF Next, CallStep, Tasks

(* A task that uses the device alone and was told "readable" does not      *)
(* sleep in its next read, whatever the button, the timer and signals do   *)
(* in between.                                                             *)
THEOREM ReadableIsReadable ==
  ASSUME NEW t, Tasks = {t}
  PROVE  Spec => []ReadableMeansNoSleep
<1>1. Init => ToldInv(t)
  BY DEF Init, ToldInv
<1>2. TypeOK /\ ToldInv(t) /\ [Next]_vars => ToldInv(t)'
  BY ToldStep
<1>3. TypeOK /\ ToldInv(t) => ReadableMeansNoSleep
  BY DEF TypeOK, ToldInv, ReadableMeansNoSleep
<1>4. QED
  BY <1>1, <1>2, <1>3, TypeInvariance, PTL DEF Spec
=============================================================================
