----------------------------- MODULE Adc_proofs -----------------------------
(***************************************************************************)
(* Safety of adc/adc.c for every number of tasks.                          *)
(***************************************************************************)
EXTENDS Adc, TLAPS

(* The mutex is held by exactly the task between lock and unlock.          *)
Mutex == \A t \in Tasks : pc[t] \in InLockPCs <=> lock = t

(* Completion seen under the mutex is that of the read's own conversion,   *)
(* and the answer it left in ADCDAT stays one when later samples replace   *)
(* it.                                                                     *)
Answer ==
  \A t \in Tasks :
    /\ pc[t] \in StartedPCs /\ complete => t \in data
    /\ pc[t] \in {"unlock", "data"} /\ t \notin cut => t \in data
    /\ pc[t] = "put" /\ t \notin cut => t \in answered

IInv == TypeOK /\ Mutex /\ Answer /\ NoLostWakeup

LEMMA InitHolds == Init => IInv
BY AdcAssumption DEF Init, IInv, TypeOK, Mutex, Answer, NoLostWakeup,
   StartedPCs, InLockPCs, WaitPCs

(* One lemma per part of the invariant.                                    *)
LEMMA TypeStep == TypeOK /\ [Next]_vars => TypeOK'
<1> SUFFICES ASSUME TypeOK, [Next]_vars
             PROVE  TypeOK'
  OBVIOUS
<1> USE DEF TypeOK, InLockPCs, StartedPCs, WaitPCs, device
<1>1. CASE UNCHANGED vars
  BY <1>1 DEF vars
<1>2. CASE Convert \/ HandlerClear \/ HandlerWake
  BY <1>2 DEF Convert, HandlerClear, HandlerWake
<1>3. ASSUME NEW t \in Tasks, Call(t) \/ Lock(t) \/ Signal(t)
      PROVE  TypeOK'
  BY <1>3 DEF Call, Lock, Signal, Goto
<1>4. ASSUME NEW t \in Tasks, ReadStep(t)
      PROVE  TypeOK'
  <2>1. CASE Start(t) \/ Test(t) \/ Prepare(t) \/ WaitDone(t)
    BY <2>1 DEF Start, Test, Prepare, WaitDone, Goto
  <2>2. CASE Sleep(t) \/ Resume(t) \/ Unlock(t) \/ ReadData(t) \/ Put(t)
    BY <2>2 DEF Sleep, Resume, Unlock, ReadData, Put, Goto
  <2>3. QED
    BY <1>4, <2>1, <2>2 DEF ReadStep
<1>5. QED
  BY <1>1, <1>2, <1>3, <1>4 DEF Next

LEMMA MutexStep == TypeOK /\ Mutex /\ [Next]_vars => Mutex'
<1> SUFFICES ASSUME TypeOK, Mutex, [Next]_vars
             PROVE  Mutex'
  OBVIOUS
<1> USE AdcAssumption DEF TypeOK, Mutex, InLockPCs, StartedPCs, WaitPCs
<1>1. CASE UNCHANGED vars
  BY <1>1 DEF vars
<1>2. CASE Convert \/ HandlerClear \/ HandlerWake
  BY <1>2 DEF Convert, HandlerClear, HandlerWake
<1>3. ASSUME NEW t \in Tasks, Call(t) \/ Lock(t) \/ Signal(t)
      PROVE  Mutex'
  BY <1>3 DEF Call, Lock, Signal, Goto
<1>4. ASSUME NEW t \in Tasks, ReadStep(t)
      PROVE  Mutex'
  <2>1. CASE Start(t) \/ Test(t) \/ Prepare(t) \/ WaitDone(t) \/ Sleep(t)
             \/ Resume(t)
    BY <2>1 DEF Start, Test, Prepare, WaitDone, Sleep, Resume, Goto
  <2>2. CASE Unlock(t) \/ ReadData(t) \/ Put(t)
    BY <2>2 DEF Unlock, ReadData, Put, Goto
  <2>3. QED
    BY <1>4, <2>1, <2>2 DEF ReadStep
<1>5. QED
  BY <1>1, <1>2, <1>3, <1>4 DEF Next

LEMMA AnswerStep == TypeOK /\ Mutex /\ Answer /\ [Next]_vars => Answer'
<1> SUFFICES ASSUME TypeOK, Mutex, Answer, [Next]_vars
             PROVE  Answer'
  OBVIOUS
<1> USE AdcAssumption DEF TypeOK, Answer, StartedPCs, WaitPCs, InLockPCs, device
<1>1. CASE UNCHANGED vars
  BY <1>1 DEF vars
<1>2. CASE Convert \/ HandlerClear \/ HandlerWake
  BY <1>2 DEF Convert, HandlerClear, HandlerWake
<1>3. ASSUME NEW t \in Tasks, Call(t) \/ Lock(t) \/ Signal(t)
      PROVE  Answer'
  BY <1>3 DEF Call, Lock, Signal, Goto
<1>4. ASSUME NEW t \in Tasks, ReadStep(t)
      PROVE  Answer'
  <2>1. CASE Start(t)
    BY <2>1 DEF Start, Goto, Mutex
  <2>2. CASE Test(t) \/ Prepare(t) \/ Sleep(t) \/ Resume(t) \/ Unlock(t)
    BY <2>2 DEF Test, Prepare, Sleep, Resume, Unlock, Goto
  <2>3. CASE WaitDone(t)
    BY <2>3 DEF WaitDone, Goto
  <2>4. CASE ReadData(t) \/ Put(t)
    BY <2>4 DEF ReadData, Put, Goto
  <2>5. QED
    BY <1>4, <2>1, <2>2, <2>3, <2>4 DEF ReadStep
<1>5. QED
  BY <1>1, <1>2, <1>3, <1>4 DEF Next

LEMMA WakeStep == TypeOK /\ NoLostWakeup /\ [Next]_vars => NoLostWakeup'
<1> SUFFICES ASSUME TypeOK, NoLostWakeup, [Next]_vars
             PROVE  NoLostWakeup'
  OBVIOUS
<1> USE DEF TypeOK, NoLostWakeup, device
<1>1. CASE UNCHANGED vars
  BY <1>1 DEF vars
<1>2. CASE Convert \/ HandlerClear \/ HandlerWake
  BY <1>2 DEF Convert, HandlerClear, HandlerWake
<1>3. ASSUME NEW t \in Tasks, Call(t) \/ Lock(t) \/ Signal(t)
      PROVE  NoLostWakeup'
  BY <1>3 DEF Call, Lock, Signal, Goto
<1>4. ASSUME NEW t \in Tasks, ReadStep(t)
      PROVE  NoLostWakeup'
  <2>1. CASE Start(t) \/ Test(t) \/ Prepare(t) \/ WaitDone(t)
    BY <2>1 DEF Start, Test, Prepare, WaitDone, Goto
  <2>2. CASE Sleep(t) \/ Resume(t) \/ Unlock(t) \/ ReadData(t) \/ Put(t)
    BY <2>2 DEF Sleep, Resume, Unlock, ReadData, Put, Goto
  <2>3. QED
    BY <1>4, <2>1, <2>2 DEF ReadStep
<1>5. QED
  BY <1>1, <1>2, <1>3, <1>4 DEF Next

LEMMA Invariance == Spec => []IInv
<1>1. IInv /\ [Next]_vars => IInv'
  BY TypeStep, MutexStep, AnswerStep, WakeStep DEF IInv
<1>2. QED
  BY <1>1, InitHolds, PTL DEF Spec

(* An uninterrupted read returns the result of a conversion completed      *)
(* after the read asked for one, however many tasks read.                  *)
THEOREM SamplesAreFresh == Spec => []SampleIsFresh
<1>1. IInv => SampleIsFresh
  BY DEF IInv, Answer, SampleIsFresh
<1>2. QED
  BY <1>1, Invariance, PTL

(* Nobody sleeps over a complete conversion without a wake-up to come.     *)
THEOREM NoWakeupIsLost == Spec => []NoLostWakeup
<1>1. IInv => NoLostWakeup
  BY DEF IInv
<1>2. QED
  BY <1>1, Invariance, PTL

(* The mutex reserves the converter from the start to the unlock.          *)
THEOREM ConversionIsReserved == Spec => ConversionIsMine
<1>1. ASSUME IInv, [Next]_vars, NEW t \in Tasks, pc[t] \in StartedPCs
      PROVE  (complete => complete') /\ (busy' => busy)
  <2> USE <1>1 DEF IInv, TypeOK
  <2>1. ASSUME NEW u \in Tasks, Start(u)
        PROVE  FALSE
    BY <2>1 DEF Start, Goto, Mutex, InLockPCs, StartedPCs, WaitPCs
  <2>2. CASE UNCHANGED vars
    BY <2>2 DEF vars
  <2>3. CASE Convert \/ HandlerClear \/ HandlerWake
    BY <2>3 DEF Convert, HandlerClear, HandlerWake
  <2>4. ASSUME NEW u \in Tasks, Call(u) \/ Lock(u) \/ Signal(u)
        PROVE  (complete => complete') /\ (busy' => busy)
    BY <2>4 DEF Call, Lock, Signal, device
  <2>5. ASSUME NEW u \in Tasks, ReadStep(u)
        PROVE  (complete => complete') /\ (busy' => busy)
    BY <2>1, <2>5 DEF ReadStep, Test, Prepare, WaitDone, Sleep, Resume,
       Unlock, ReadData, Put, device
  <2>6. QED
    BY <2>2, <2>3, <2>4, <2>5 DEF Next
<1>2. IInv /\ [Next]_vars
        => [\A t \in Tasks :
              pc[t] \in StartedPCs => /\ complete => complete'
                                      /\ busy' => busy]_vars
  BY <1>1
<1>3. QED
  BY <1>2, Invariance, PTL DEF Spec, ConversionIsMine
=============================================================================
