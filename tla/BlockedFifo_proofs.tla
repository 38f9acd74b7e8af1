------------------------- MODULE BlockedFifo_proofs -------------------------
(***************************************************************************)
(* Safety of fifo_blocked/fifo.c for every page size, every set of request *)
(* lengths and, where a theorem does not say otherwise, every set of       *)
(* tasks: first the calls that interleave, then those of a lone task,      *)
(* whose ring implements ByteQueue and whose wrapped reads are in order.   *)
(***************************************************************************)
EXTENDS BlockedFifo, Ring_proofs

(* The program counters of this driver include the ring's.                 *)
LEMMA PCsIncludeRing == RingPCs \subseteq PCs
BY DEF PCs

(* A step of the ring's copies leaves the wait queue and has signals       *)
(* delivered.                                                              *)
RingStep(t) ==
  /\ \/ ReadSize(t) \/ ReadCopies(t) \/ ReadFault(t)
     \/ WriteCopies(t) \/ WriteFault(t)
  /\ Deliver(t)

(* The steps this driver adds to the ring's.                               *)
WaitStep(t) ==
  \/ ReadCheck(t) \/ WaitPrepare(t) \/ WaitDone(t) \/ WaitSleep(t)
  \/ WaitResume(t) \/ WriteWake(t) \/ Signal(t)

(* The three kinds of steps.                                               *)
LEMMA StepKinds ==
  ASSUME Next
  PROVE  \/ \E t \in Readers, n \in Lens : ReadCall(t, n)
         \/ \E t \in Writers, n \in Lens : WriteCall(t, n)
         \/ \E t \in Tasks : WaitStep(t)
         \/ \E t \in Tasks : RingStep(t)
BY Zenon DEF Next, CallStep, WaitStep, RingStep

TypeInv == TypeOK /\ IndexInv

(* The types and the indices are preserved.                                *)
LEMMA TypeStep == TypeInv /\ [Next]_vars => TypeInv'
<1> SUFFICES ASSUME TypeInv, [Next]_vars
             PROVE  TypeInv'
  OBVIOUS
<1> USE RingAssumption
<1>1. CASE UNCHANGED vars
  BY <1>1 DEF TypeInv, TypeOK, RingTypeOK, IndexInv, vars, ringVars, waitVars,
     Slots
<1>2. ASSUME NEW t \in Readers, NEW n \in Lens, ReadCall(t, n)
      PROVE  TypeInv'
  <2>1. t \in Tasks /\ n \in Nat /\ "r_check" \in PCs
    BY DEF Tasks, PCs
  <2>2. (RingTypeOK(PCs) /\ IndexInv)'
    BY <1>2, <2>1, EnterType DEF ReadCall, TypeInv, TypeOK
  <2>3. QED
    BY <1>2, <2>2 DEF ReadCall, TypeInv, TypeOK, waitVars
<1>3. ASSUME NEW t \in Writers, NEW n \in Lens, WriteCall(t, n)
      PROVE  TypeInv'
  <2>1. t \in Tasks /\ n \in Nat /\ "w_space" \in PCs
    BY DEF Tasks, PCs, RingPCs, WritePCs
  <2>2. (RingTypeOK(PCs) /\ IndexInv)'
    BY <1>3, <2>1, EnterType DEF WriteCall, TypeInv, TypeOK
  <2>3. QED
    BY <1>3, <2>2 DEF WriteCall, TypeInv, TypeOK, waitVars
<1>4. ASSUME NEW t \in Tasks, WaitStep(t)
      PROVE  TypeInv'
  <2> USE DEF TypeInv, TypeOK
  <2>1. CASE ReadCheck(t) \/ WaitPrepare(t) \/ WaitDone(t) \/ WaitSleep(t)
             \/ WaitResume(t)
    BY <2>1 DEF ReadCheck, WaitPrepare, WaitDone, WaitSleep, WaitResume, Goto,
       fields, frame, waitVars, RingTypeOK, IndexInv, PCs, RingPCs, WaitPCs,
       Slots
  <2>2. CASE WriteWake(t)
    <3>1. Return(t)
      BY <2>2 DEF WriteWake
    <3>2. /\ qbuf' \in [Slots -> Data] /\ start' \in Slots
          /\ end' \in -1 .. MaxSize - 1 /\ cursize' \in Int
          /\ readqueue' \subseteq Tasks /\ sig' \in [Tasks -> BOOLEAN]
      BY <2>2 DEF WriteWake, fields, RingTypeOK
    <3>3. QED
      BY <3>1, <3>2, PCsIncludeRing, ReturnType DEF RingTypeOK
  <2>3. CASE Signal(t)
    BY <2>3 DEF Signal, ringVars, RingTypeOK, IndexInv, Slots
  <2>4. QED
    BY <1>4, <2>1, <2>2, <2>3 DEF WaitStep
<1>5. ASSUME NEW t \in Tasks, RingStep(t)
      PROVE  TypeInv'
  <2>1. (RingTypeOK(PCs) /\ IndexInv)'
    BY <1>5, PCsIncludeRing, RingStepType DEF RingStep, TypeInv, TypeOK
  <2>2. readqueue' \subseteq Tasks /\ sig' \in [Tasks -> BOOLEAN]
    BY <1>5 DEF RingStep, Deliver, TypeInv, TypeOK
  <2>3. QED
    BY <2>1, <2>2 DEF TypeInv, TypeOK
<1>6. QED
  BY <1>1, <1>2, <1>3, <1>4, <1>5, StepKinds

LEMMA TypeInit == Init => TypeInv
<1>1. << >> \in Seq(Data \union {Beyond})
  OBVIOUS
<1>2. QED
  BY <1>1, RingAssumption DEF Init, RingInit, TypeInv, TypeOK, RingTypeOK,
     IndexInv, PCs, RingPCs, Slots

LEMMA TypeInvariance == Spec => []TypeInv
BY TypeInit, TypeStep, PTL DEF Spec

(* Every variable keeps its type; start and end are indices of the page    *)
(* (end also -1) whatever tasks interleave.                                *)
THEOREM TypeCorrect == Spec => []TypeOK
<1>1. TypeInv => TypeOK
  BY DEF TypeInv
<1>2. QED
  BY <1>1, TypeInvariance, PTL

-----------------------------------------------------------------------------
(* One reading task and one writing task.                                  *)

(* The wait of the reader leaves both sizes and the count alone.           *)
LEMMA CountStep ==
  ASSUME NEW r, NEW w, r # w, Readers = {r}, Writers = {w},
         TypeInv, CountInv(r, w), [Next]_vars
  PROVE  CountInv(r, w)'
<1> USE RingAssumption
<1>0. Tasks = {r, w}
  BY DEF Tasks
<1>1. CASE UNCHANGED vars
  BY <1>1 DEF CountInv, vars, ringVars
<1>2. CASE \E t \in Readers, n \in Lens : ReadCall(t, n)
  BY <1>2, <1>0 DEF ReadCall, Enter, Goto, fields, CountInv, TypeInv, TypeOK,
     RingTypeOK, WritePCs, Taking, Adding
<1>3. CASE \E t \in Writers, n \in Lens : WriteCall(t, n)
  BY <1>3, <1>0 DEF WriteCall, Enter, Goto, fields, CountInv, TypeInv, TypeOK,
     RingTypeOK, WritePCs, Taking, Adding
<1>4. ASSUME NEW t \in Tasks, WaitStep(t)
      PROVE  CountInv(r, w)'
  <2>1. CASE ReadCheck(t) \/ WaitPrepare(t) \/ WaitDone(t) \/ WaitSleep(t)
             \/ WaitResume(t)
    <3>1. t = r
      BY <2>1, <1>0 DEF ReadCheck, WaitPrepare, WaitDone, WaitSleep,
         WaitResume, Goto, CountInv, WritePCs
    <3>2. QED
      BY <2>1, <3>1, <1>0 DEF ReadCheck, WaitPrepare, WaitDone, WaitSleep,
         WaitResume, Goto, fields, frame, CountInv, TypeInv, TypeOK,
         RingTypeOK, WritePCs, Taking, Adding
  <2>2. CASE WriteWake(t)
    <3>1. t = w
      BY <2>2, <1>0 DEF WriteWake, CountInv, WritePCs
    <3>2. QED
      BY <2>2, <3>1, <1>0 DEF WriteWake, Return, fields, CountInv, TypeInv,
         TypeOK, RingTypeOK, WritePCs, Taking, Adding
  <2>3. CASE Signal(t)
    BY <2>3 DEF Signal, ringVars, CountInv
  <2>4. QED
    BY <1>4, <2>1, <2>2, <2>3 DEF WaitStep
<1>5. ASSUME NEW t \in Tasks, RingStep(t)
      PROVE  CountInv(r, w)'
  <2>1. RingTypeOK(PCs) /\ r \in Tasks /\ w \in Tasks
    BY <1>0 DEF TypeInv, TypeOK
  <2>2. CASE t = r
    BY <1>5, <2>1, <2>2, OwnSteps, ReaderCount DEF RingStep
  <2>3. CASE t = w
    BY <1>5, <2>1, <2>3, OwnSteps, WriterCount DEF RingStep
  <2>4. QED
    BY <1>0, <2>2, <2>3
<1>6. QED
  BY <1>1, <1>2, <1>3, <1>4, <1>5, StepKinds

LEMMA CountInit ==
  ASSUME NEW r, NEW w, r # w, Readers = {r}, Writers = {w}, Init
  PROVE  CountInv(r, w)
BY RingAssumption DEF Init, RingInit, CountInv, Tasks, WritePCs, Taking,
   Adding

LEMMA CountInvariance ==
  ASSUME NEW r, NEW w, r # w, Readers = {r}, Writers = {w}
  PROVE  Spec => [](TypeInv /\ CountInv(r, w))
<1>1. Init => TypeInv /\ CountInv(r, w)
  BY TypeInit, CountInit
<1>2. TypeInv /\ CountInv(r, w) /\ [Next]_vars
        => (TypeInv /\ CountInv(r, w))'
  BY TypeStep, CountStep
<1>3. QED
  BY <1>1, <1>2, PTL DEF Spec

(* The unsynchronised updates of cursize by one reader and one writer      *)
(* never take it below 0 or above the page.                                *)
THEOREM CountStaysInRange ==
  ASSUME NEW r, NEW w, r # w, Readers = {r}, Writers = {w}
  PROVE  Spec => []CountInRange
<1>1. CountInv(r, w) => CountInRange
  BY DEF CountInv, CountInRange
<1>2. QED
  BY <1>1, CountInvariance, PTL

(* Hence no copy of theirs reaches outside the page.                       *)
THEOREM CopiesInPage ==
  ASSUME NEW r, NEW w, r # w, Readers = {r}, Writers = {w}
  PROVE  Spec => []CopiesStayInPage
<1>1. TypeInv /\ CountInv(r, w) => CopiesStayInPage
  BY CountKeepsCopiesInPage DEF TypeInv, TypeOK, Tasks
<1>2. QED
  BY <1>1, CountInvariance, PTL

-----------------------------------------------------------------------------
(* The wake-up.                                                            *)

(* Only the tasks that may read are ever inside a read.                    *)
RoleInv ==
  \A t \in Tasks : pc[t] \notin {"idle"} \union WritePCs => t \in Readers

LEMMA RoleStep ==
  ASSUME TypeInv, RoleInv, [Next]_vars
  PROVE  RoleInv'
<1> USE DEF RoleInv, WritePCs
<1>1. CASE UNCHANGED vars
  BY <1>1 DEF vars, ringVars
<1>2. CASE \E t \in Readers, n \in Lens : ReadCall(t, n)
  BY <1>2 DEF ReadCall, Enter, Goto, TypeInv, TypeOK, RingTypeOK, Tasks
<1>3. CASE \E t \in Writers, n \in Lens : WriteCall(t, n)
  BY <1>3 DEF WriteCall, Enter, Goto, TypeInv, TypeOK, RingTypeOK
<1>4. ASSUME NEW t \in Tasks, WaitStep(t)
      PROVE  RoleInv'
  BY <1>4 DEF WaitStep, ReadCheck, WaitPrepare, WaitDone, WaitSleep,
     WaitResume, WriteWake, Signal, Goto, Return, ringVars, TypeInv, TypeOK,
     RingTypeOK
<1>5. ASSUME NEW t \in Tasks, RingStep(t)
      PROVE  RoleInv'
  <2>1. CASE ReadSize(t) \/ ReadCopies(t) \/ ReadFault(t)
    BY <2>1 DEF ReadSize, ReadCopies, ReadFault, ReadCopyOnce, ReadCopyTail,
       ReadCopyFront, ReadRefused, ReadLoadStart, ReadStoreStart,
       ReadLoadCount, ReadStoreCount, Goto, Return, TypeInv, TypeOK,
       RingTypeOK
  <2>2. CASE WriteCopies(t) \/ WriteFault(t)
    BY <2>2 DEF WriteCopies, WriteFault, WriteSpace, WriteFull,
       WriteCopyOnce, WriteCopyTail, WriteCopyFront, WriteLoadEnd,
       WriteStoreEnd, WriteLoadCount, WriteStoreCount, Goto, Return, TypeInv,
       TypeOK, RingTypeOK
  <2>3. QED
    BY <1>5, <2>1, <2>2 DEF RingStep
<1>6. QED
  BY <1>1, <1>2, <1>3, <1>4, <1>5, StepKinds

(* With a single reader, only the stores of writers make the count differ  *)
(* from 0 while it sleeps, and the wake-up follows each of them.           *)
LEMMA WakeStep ==
  ASSUME NEW r, Readers = {r}, TypeInv, RoleInv, NoLostWakeup, [Next]_vars
  PROVE  NoLostWakeup'
<1> SUFFICES ASSUME pc'[r] = "r_sleep", r \in readqueue', cursize' # 0
             PROVE  \E w \in Writers : pc'[w] = "w_done"
  BY DEF NoLostWakeup
<1> USE DEF TypeInv, TypeOK, RingTypeOK, NoLostWakeup
<1>0. r \in Tasks /\ Writers \subseteq Tasks
  BY DEF Tasks
<1>1. CASE UNCHANGED vars
  BY <1>1 DEF vars, ringVars, waitVars
<1>2. CASE \E t \in Readers, n \in Lens : ReadCall(t, n)
  BY <1>2, <1>0 DEF ReadCall, Enter, Goto
<1>3. ASSUME NEW t \in Writers, NEW n \in Lens, WriteCall(t, n)
      PROVE  \E w \in Writers : pc'[w] = "w_done"
  <2>1. /\ pc[t] = "idle" /\ pc' = [pc EXCEPT ![t] = "w_space"]
        /\ cursize' = cursize /\ readqueue' = readqueue
    BY <1>3 DEF WriteCall, Enter, Goto, fields, waitVars
  <2>2. pc[r] = "r_sleep"
    BY <2>1, <1>0
  <2>3. PICK w \in Writers : pc[w] = "w_done"
    BY <2>1, <2>2
  <2>4. pc'[w] = "w_done"
    BY <2>1, <2>3, <1>0
  <2>5. QED
    BY <2>4
<1>4. ASSUME NEW t \in Tasks, WaitStep(t)
      PROVE  \E w \in Writers : pc'[w] = "w_done"
  <2>1. CASE ReadCheck(t) \/ WaitPrepare(t) \/ WaitDone(t) \/ WaitSleep(t)
             \/ WaitResume(t)
    <3>1. t = r
      BY <2>1 DEF ReadCheck, WaitPrepare, WaitDone, WaitSleep, WaitResume,
         Goto, RoleInv, WritePCs
    <3>2. cursize' = 0
      BY <2>1, <3>1, <1>0 DEF ReadCheck, WaitPrepare, WaitDone, WaitSleep,
         WaitResume, Goto, fields
    <3>3. QED
      BY <3>2
  <2>2. CASE WriteWake(t)
    BY <2>2 DEF WriteWake
  <2>3. CASE Signal(t)
    BY <2>3 DEF Signal, ringVars
  <2>4. QED
    BY <1>4, <2>1, <2>2, <2>3 DEF WaitStep
<1>5. ASSUME NEW t \in Tasks, RingStep(t)
      PROVE  \E w \in Writers : pc'[w] = "w_done"
  <2>0. readqueue' = readqueue
    BY <1>5 DEF RingStep, Deliver
  <2>1. CASE ReadSize(t) \/ ReadCopies(t) \/ ReadFault(t)
    <3>1. /\ t = r
          /\ pc'[r] # "r_sleep"
      BY <2>1, <1>0 DEF ReadSize, ReadCopies, ReadFault, ReadCopyOnce,
         ReadCopyTail, ReadCopyFront, ReadRefused, ReadLoadStart,
         ReadStoreStart, ReadLoadCount, ReadStoreCount, Goto, Return, RoleInv,
         WritePCs
    <3>2. QED
      BY <3>1
  <2>2. CASE WriteStoreCount(t)
    <3>1. pc[t] = "w_store" /\ pc' = [pc EXCEPT ![t] = "w_done"]
      BY <2>2 DEF WriteStoreCount, Goto
    <3>2. t \in Writers
      BY <3>1, <1>0 DEF Tasks
    <3>3. pc'[t] = "w_done"
      BY <3>1
    <3>4. QED
      BY <3>2, <3>3
  <2>3. CASE (WriteCopies(t) /\ ~WriteStoreCount(t)) \/ WriteFault(t)
    <3>1. /\ cursize' = cursize
          /\ pc[t] # "w_done" /\ pc'[t] # "r_sleep"
          /\ \A u \in Tasks \ {t} : pc'[u] = pc[u]
      BY <2>3 DEF WriteCopies, WriteFault, WriteSpace, WriteFull,
         WriteCopyOnce, WriteCopyTail, WriteCopyFront, WriteLoadEnd,
         WriteStoreEnd, WriteLoadCount, Goto, Return, fields
    <3>2. pc[r] = "r_sleep"
      BY <3>1, <1>0
    <3>3. PICK w \in Writers : pc[w] = "w_done"
      BY <3>1, <3>2, <2>0
    <3>4. pc'[w] = "w_done"
      BY <3>1, <3>3, <1>0
    <3>5. QED
      BY <3>4
  <2>4. QED
    BY <1>5, <2>1, <2>2, <2>3 DEF RingStep
<1>6. QED
  BY <1>1, <1>2, <1>3, <1>4, <1>5, StepKinds

(* A single reader never sleeps over data that nobody will wake it for,    *)
(* however many tasks write.                                               *)
THEOREM NoWakeupIsLost ==
  ASSUME NEW r, Readers = {r}
  PROVE  Spec => []NoLostWakeup
<1>1. Init => TypeInv /\ RoleInv /\ NoLostWakeup
  <2>1. Init => RoleInv /\ NoLostWakeup
    BY DEF Init, RingInit, RoleInv, NoLostWakeup, Tasks
  <2>2. QED
    BY <2>1, TypeInit
<1>2. TypeInv /\ RoleInv /\ NoLostWakeup /\ [Next]_vars
        => (TypeInv /\ RoleInv /\ NoLostWakeup)'
  BY TypeStep, RoleStep, WakeStep
<1>3. QED
  BY <1>1, <1>2, PTL DEF Spec

-----------------------------------------------------------------------------
(* A read that no signal ended has found data.                             *)
WaitInv(r) ==
  /\ pc[r] = "r_size" /\ ~sig[r] => cursize > 0
  /\ pc[r] \in Taking \union {"r_copy2", "r_store"} /\ ~sig[r] /\ len[r] > 0
       => size[r] > 0

LEMMA WaitInvStep ==
  ASSUME NEW r, NEW w, r # w, Readers = {r}, Writers = {w},
         TypeInv, CountInv(r, w), WaitInv(r), [Next]_vars
  PROVE  WaitInv(r)'
<1> USE RingAssumption DEF TypeInv, TypeOK, RingTypeOK, WaitInv
<1>0. Tasks = {r, w} /\ r \in Tasks /\ w \in Tasks
  BY DEF Tasks
<1>1. CASE UNCHANGED vars
  BY <1>1 DEF vars, ringVars, waitVars
<1>2. CASE \E t \in Readers, n \in Lens : ReadCall(t, n)
  BY <1>2, <1>0 DEF ReadCall, Enter, Goto, Taking
<1>3. CASE \E t \in Writers, n \in Lens : WriteCall(t, n)
  BY <1>3, <1>0 DEF WriteCall, Enter, Goto, fields, waitVars, Taking
<1>4. ASSUME NEW t \in Tasks, WaitStep(t)
      PROVE  WaitInv(r)'
  <2>1. CASE ReadCheck(t) \/ WaitPrepare(t) \/ WaitDone(t) \/ WaitSleep(t)
             \/ WaitResume(t)
    <3>1. t = r
      BY <2>1, <1>0 DEF ReadCheck, WaitPrepare, WaitDone, WaitSleep,
         WaitResume, Goto, CountInv, WritePCs
    <3>2. QED
      BY <2>1, <3>1, <1>0 DEF ReadCheck, WaitPrepare, WaitDone, WaitSleep,
         WaitResume, Goto, fields, frame, waitVars, CountInv, Taking
  <2>2. CASE WriteWake(t)
    <3>1. t = w
      BY <2>2, <1>0 DEF WriteWake, CountInv, WritePCs
    <3>2. QED
      BY <2>2, <3>1, <1>0 DEF WriteWake, Return, fields, Taking
  <2>3. CASE Signal(t)
    BY <2>3, <1>0 DEF Signal, ringVars
  <2>4. QED
    BY <1>4, <2>1, <2>2, <2>3 DEF WaitStep
<1>5. ASSUME NEW t \in Tasks, RingStep(t)
      PROVE  WaitInv(r)'
  <2>1. CASE t = r
    <3>1. ReadSize(r) \/ ReadCopies(r) \/ ReadFault(r)
      BY <1>5, <2>1, OwnSteps DEF RingStep
    <3>2. pc'[r] # "idle" => sig'[r] = sig[r]
      BY <1>5, <2>1, <1>0 DEF RingStep, Deliver
    <3>3. CASE ReadSize(r)
      <4>1. len[r] \in Nat /\ cursize \in Int
        BY <1>0
      <4>2. cursize > 0 /\ len[r] > 0 => ClampSize(len[r], cursize) > 0
        BY <4>1, ClampRange
      <4>3. QED
        BY <3>2, <3>3, <4>2, <1>0 DEF ReadSize, Goto, Taking
    <3>4. CASE ReadCopies(r) \/ ReadFault(r)
      <4>1. CASE ReadRefused(r) \/ ReadFault(r) \/ ReadStoreCount(r)
        <5>1. pc'[r] = "idle"
          BY <4>1, <1>0 DEF ReadRefused, ReadFault, ReadStoreCount, Return
        <5>2. QED
          BY <5>1 DEF Taking
      <4>2. CASE ReadCopyOnce(r) \/ ReadCopyTail(r) \/ ReadCopyFront(r)
        <5>1. pc[r] \in {"r_copy1", "r_copy2"} /\ pc'[r] # "r_size"
          BY <4>2, <1>0 DEF ReadCopyOnce, ReadCopyTail, ReadCopyFront, Goto
        <5>2. size' = size /\ len' = len /\ pc'[r] # "idle"
          BY <4>2, <1>0 DEF ReadCopyOnce, ReadCopyTail, ReadCopyFront, Goto
        <5>3. QED
          BY <3>2, <5>1, <5>2 DEF Taking
      <4>3. CASE ReadLoadStart(r) \/ ReadStoreStart(r) \/ ReadLoadCount(r)
        <5>1. /\ pc[r] \in {"r_start", "r_setstart", "r_load"}
              /\ pc'[r] # "r_size"
          BY <4>3, <1>0 DEF ReadLoadStart, ReadStoreStart, ReadLoadCount, Goto
        <5>2. size' = size /\ len' = len /\ pc'[r] # "idle"
          BY <4>3, <1>0 DEF ReadLoadStart, ReadStoreStart, ReadLoadCount, Goto,
             frame
        <5>3. QED
          BY <3>2, <5>1, <5>2 DEF Taking
      <4>4. QED
        BY <3>4, <4>1, <4>2, <4>3 DEF ReadCopies
    <3>5. QED
      BY <3>1, <3>3, <3>4
  <2>2. CASE t = w
    <3>1. WriteCopies(w) \/ WriteFault(w)
      BY <1>5, <2>2, OwnSteps DEF RingStep
    <3>2. /\ pc'[r] = pc[r] /\ len'[r] = len[r] /\ size'[r] = size[r]
          /\ cursize' \in Int /\ cursize \in Int /\ cursize' >= cursize
      <4>1. CASE WriteStoreCount(w)
        BY <4>1, <2>2, <1>0 DEF WriteStoreCount, Goto, frame, CountInv
      <4>2. CASE WriteFull(w) \/ WriteFault(w)
        BY <4>2, <1>0 DEF WriteFull, WriteFault, Return, fields
      <4>3. CASE WriteSpace(w) \/ WriteLoadEnd(w) \/ WriteLoadCount(w)
        BY <4>3, <1>0 DEF WriteSpace, WriteLoadEnd, WriteLoadCount, Goto,
           fields
      <4>4. CASE WriteCopyOnce(w) \/ WriteCopyTail(w) \/ WriteCopyFront(w)
        BY <4>4, <1>0 DEF WriteCopyOnce, WriteCopyTail, WriteCopyFront, Goto,
           frame
      <4>5. CASE WriteStoreEnd(w)
        BY <4>5, <1>0 DEF WriteStoreEnd, Goto, frame
      <4>6. QED
        BY <3>1, <4>1, <4>2, <4>3, <4>4, <4>5 DEF WriteCopies
    <3>3. sig'[r] = sig[r]
      BY <1>5, <2>2, <1>0 DEF RingStep, Deliver
    <3>4. pc[r] = "r_size" /\ ~sig[r] => cursize' > 0
      BY <3>2
    <3>5. QED
      BY <3>2, <3>3, <3>4
  <2>3. QED
    BY <1>0, <2>1, <2>2
<1>6. QED
  BY <1>1, <1>2, <1>3, <1>4, <1>5, StepKinds

(* With one reader and one writer the wait of a read that is not           *)
(* interrupted ends over a ring with data, and the data is still there     *)
(* when the read takes it.                                                 *)
THEOREM WaitFindsData ==
  ASSUME NEW r, NEW w, r # w, Readers = {r}, Writers = {w}
  PROVE  Spec => []WaitEndsWithData
<1>1. Init => WaitInv(r)
  BY DEF Init, RingInit, WaitInv, Tasks, Taking
<1>2. TypeInv /\ CountInv(r, w) /\ WaitInv(r) /\ [Next]_vars => WaitInv(r)'
  BY WaitInvStep
<1>3. WaitInv(r) => WaitEndsWithData
  BY DEF WaitInv, WaitEndsWithData, Taking
<1>4. QED
  BY <1>1, <1>2, <1>3, CountInvariance, PTL DEF Spec
-----------------------------------------------------------------------------
(* Calls that do not overlap: one task t that reads and writes.            *)

LEMMA SerialInit ==
  ASSUME NEW t, Tasks = {t}, Init
  PROVE  SerialInv(t)
BY RingAssumption DEF Init, RingInit, SerialInv, SerialSizes, SerialCopies,
   SerialLoads, SerialLeads, Leads, Taking, Adding

(* Where a call knows nothing of the fields yet, or no more.               *)
Outside == {"idle", "r_check", "r_size", "w_space", "w_done"} \union WaitPCs

LEMMA SerialOutside ==
  ASSUME NEW t, SerialInv(t), UNCHANGED fields,
         pc[t] \in Outside, pc'[t] \in Outside
  PROVE  SerialInv(t)'
BY DEF Outside, WaitPCs, fields, SerialInv, SerialSizes, SerialCopies,
   SerialLoads, SerialLeads, Leads, Taking, Adding

LEMMA SerialStep ==
  ASSUME NEW t, Tasks = {t}, TypeInv, SerialInv(t), [Next]_vars
  PROVE  SerialInv(t)'
<1>0. t \in Tasks /\ RingTypeOK(PCs) /\ pc \in [Tasks -> PCs]
  BY DEF TypeInv, TypeOK, RingTypeOK
<1>1. CASE UNCHANGED ringVars
  BY <1>1 DEF ringVars, SerialInv, SerialSizes, SerialCopies, SerialLoads,
     SerialLeads, Leads, Bytes
<1>2. ASSUME NEW n, ReadCall(t, n) \/ WriteCall(t, n)
      PROVE  SerialInv(t)'
  <2>1. UNCHANGED fields /\ pc[t] \in Outside /\ pc'[t] \in Outside
    BY <1>0, <1>2 DEF ReadCall, WriteCall, Enter, Goto, Outside
  <2>2. QED
    BY <2>1, SerialOutside
<1>3. CASE WaitStep(t) /\ ~Signal(t)
  <2>1. UNCHANGED fields
    BY <1>3 DEF WaitStep, ReadCheck, WaitPrepare, WaitDone, WaitSleep,
       WaitResume, WriteWake
  <2>2. pc[t] \in Outside /\ pc'[t] \in Outside
    BY <1>0, <1>3 DEF WaitStep, ReadCheck, WaitPrepare, WaitDone, WaitSleep,
       WaitResume, WriteWake, Goto, Return, Outside, WaitPCs
  <2>3. QED
    BY <2>1, <2>2, SerialOutside
<1>4. CASE RingStep(t)
  <2>1. \/ ReadSize(t) \/ ReadCopies(t) \/ ReadFault(t)
        \/ WriteCopies(t) \/ WriteFault(t)
    BY <1>4 DEF RingStep
  <2>2. QED
    BY <1>0, <2>1, SerialRead, SerialWrite
<1>5. QED
  <2>1. CASE UNCHANGED vars
    BY <1>1, <2>1 DEF vars
  <2>2. CASE Next
    <3>1. \/ \E n : ReadCall(t, n) \/ WriteCall(t, n)
          \/ WaitStep(t) \/ RingStep(t)
      BY <2>2, StepKinds, Zenon DEF Tasks
    <3>2. CASE Signal(t)
      BY <1>1, <3>2 DEF Signal
    <3>3. QED
      BY <1>2, <1>3, <1>4, <3>1, <3>2
  <2>3. QED
    BY <2>1, <2>2

LEMMA SerialInvariance ==
  ASSUME NEW t, Tasks = {t}
  PROVE  Spec => [](TypeInv /\ SerialInv(t))
<1>1. Init => TypeInv /\ SerialInv(t)
  BY TypeInit, SerialInit
<1>2. TypeInv /\ SerialInv(t) /\ [Next]_vars => (TypeInv /\ SerialInv(t))'
  BY TypeStep, SerialStep
<1>3. QED
  BY <1>1, <1>2, PTL DEF Spec

(* As long as calls do not overlap, whatever faults, wraps or is           *)
(* interrupted, start, end and cursize agree between them.                 *)
THEOREM FieldsStayInAgreement ==
  ASSUME NEW t, Tasks = {t}
  PROVE  Spec => []FieldsAgree
<1>1. TypeInv /\ SerialInv(t) => FieldsAgree
  <2> SUFFICES ASSUME TypeInv, SerialInv(t), pc[t] = "idle"
               PROVE  (start + cursize) % MaxSize = (end + 1) % MaxSize
    BY DEF FieldsAgree
  <2>1. /\ MaxSize \in Nat \ {0} /\ start \in 0 .. MaxSize - 1
        /\ cursize \in 0 .. MaxSize /\ end \in -1 .. MaxSize - 1
    BY RingAssumption DEF TypeInv, TypeOK, RingTypeOK, Slots, SerialInv,
       SerialSizes
  <2>2. (start + cursize) - (end + 1) \in {-MaxSize, 0, MaxSize}
    BY DEF SerialInv, SerialLeads, Leads
  <2>3. /\ start + cursize \in 0 .. 2 * MaxSize - 1
        /\ end + 1 \in 0 .. 2 * MaxSize - 1
    BY <2>1
  <2>4. /\ (start + cursize) % MaxSize
             = IF start + cursize < MaxSize THEN start + cursize
                                            ELSE (start + cursize) - MaxSize
        /\ (end + 1) % MaxSize
             = IF end + 1 < MaxSize THEN end + 1 ELSE (end + 1) - MaxSize
    BY <2>1, <2>3, ModBelowTwice
  <2>5. QED
    BY <2>1, <2>2, <2>4
<1>2. QED
  BY <1>1, SerialInvariance, PTL
-----------------------------------------------------------------------------
(* The bytes of the ring as a sequence.                                    *)

(* The n bytes from slot i on, around the end of the page.                 *)
Ahead(i, k) == (i + k - 1) % MaxSize
From(q, i, n) == [k \in 1 .. n |-> q[Ahead(i, k)]]

LEMMA AheadIs ==
  ASSUME NEW i \in 0 .. MaxSize - 1, NEW k \in 1 .. MaxSize
  PROVE  /\ Ahead(i, k) = IF i + k <= MaxSize THEN (i + k) - 1
                                              ELSE ((i + k) - 1) - MaxSize
         /\ Ahead(i, k) \in 0 .. MaxSize - 1
<1> USE RingAssumption
<1>1. (i + k) - 1 \in 0 .. 2 * MaxSize - 1
  OBVIOUS
<1>2. Ahead(i, k) = ((i + k) - 1) % MaxSize
  BY DEF Ahead
<1>3. ((i + k) - 1) % MaxSize = IF (i + k) - 1 < MaxSize
                                THEN (i + k) - 1 ELSE ((i + k) - 1) - MaxSize
  BY <1>1, ModBelowTwice
<1>4. QED
  BY <1>2, <1>3

LEMMA FromType ==
  ASSUME NEW q \in [Slots -> Data], NEW i \in Slots,
         NEW n \in 0 .. MaxSize
  PROVE  /\ From(q, i, n) \in Seq(Data)
         /\ Len(From(q, i, n)) = n
         /\ \A k \in 1 .. n : From(q, i, n)[k] = q[Ahead(i, k)]
<1>1. n \in Nat /\ \A k \in 1 .. n : q[Ahead(i, k)] \in Data
  BY AheadIs, RingAssumption DEF Slots
<1>2. QED
  BY <1>1 DEF From

(* Two stretches that follow each other.                                   *)
LEMMA FromConcat ==
  ASSUME NEW q \in [Slots -> Data], NEW i \in Slots,
         NEW m \in 0 .. MaxSize, NEW n \in 0 .. MaxSize - m
  PROVE  From(q, i, m + n)
           = From(q, i, m) \o [j \in 1 .. n |-> q[Ahead(i, m + j)]]
<1> DEFINE s == [j \in 1 .. n |-> q[Ahead(i, m + j)]]
           u == From(q, i, m)
           v == From(q, i, m + n)
<1>0. m \in Nat /\ n \in Nat /\ m + n \in 0 .. MaxSize
  BY RingAssumption
<1>1. u \in Seq(Data) /\ Len(u) = m /\ \A k \in 1 .. m : u[k] = q[Ahead(i, k)]
  BY <1>0, FromType
<1>2. /\ v \in Seq(Data) /\ Len(v) = m + n
      /\ \A k \in 1 .. m + n : v[k] = q[Ahead(i, k)]
  BY <1>0, FromType
<1>3. s \in Seq(Data) /\ Len(s) = n
  <2>1. \A j \in 1 .. n : Ahead(i, m + j) \in Slots
    BY <1>0, AheadIs, RingAssumption DEF Slots
  <2>2. QED
    BY <1>0, <2>1
<1> HIDE DEF s, u, v
<1>4. u \o s \in Seq(Data) /\ Len(u \o s) = m + n
  BY <1>0, <1>1, <1>3
<1>5. ASSUME NEW k \in 1 .. m + n
      PROVE  (u \o s)[k] = v[k]
  <2>1. CASE k <= m
    BY <1>0, <1>1, <1>2, <1>3, <1>5, <2>1
  <2>2. CASE k > m
    <3>1. (u \o s)[k] = s[k - m] /\ k - m \in 1 .. n
      BY <1>0, <1>1, <1>3, <1>5, <2>2
    <3>2. s[k - m] = q[Ahead(i, m + (k - m))] /\ m + (k - m) = k
      BY <1>0, <1>5, <3>1 DEF s
    <3>3. QED
      BY <1>2, <1>5, <3>1, <3>2
  <2>3. k <= m \/ k > m
    BY <1>0, <1>5
  <2>4. QED
    BY <2>1, <2>2, <2>3, Zenon
<1>6. u \o s = v
  BY <1>2, <1>4, <1>5
<1>7. QED
  BY <1>6 DEF s, u, v

(* The first n bytes of a stretch.                                         *)
LEMMA FromHead ==
  ASSUME NEW q \in [Slots -> Data], NEW i \in Slots,
         NEW m \in 0 .. MaxSize, NEW n \in 0 .. m
  PROVE  SubSeq(From(q, i, m), 1, n) = From(q, i, n)
<1>0. m \in Nat /\ n \in Nat /\ n \in 0 .. MaxSize
  BY RingAssumption
<1>1. /\ From(q, i, m) \in Seq(Data) /\ Len(From(q, i, m)) = m
      /\ \A k \in 1 .. m : From(q, i, m)[k] = q[Ahead(i, k)]
  BY FromType
<1>2. /\ From(q, i, n) \in Seq(Data) /\ Len(From(q, i, n)) = n
      /\ \A k \in 1 .. n : From(q, i, n)[k] = q[Ahead(i, k)]
  BY <1>0, FromType
<1> DEFINE u == From(q, i, m)
           v == From(q, i, n)
<1> HIDE DEF u, v
<1>3. SubSeq(u, 1, n) \in Seq(Data) /\ Len(SubSeq(u, 1, n)) = n
  BY <1>0, <1>1 DEF u
<1>4. ASSUME NEW k \in 1 .. n
      PROVE  SubSeq(u, 1, n)[k] = v[k]
  <2>1. SubSeq(u, 1, n)[k] = u[k]
    BY <1>0, <1>1, <1>4 DEF u
  <2>2. QED
    BY <1>0, <1>1, <1>2, <1>4, <2>1 DEF u, v
<1>5. SubSeq(u, 1, n) = v
  BY <1>2, <1>3, <1>4 DEF v
<1>6. QED
  BY <1>5 DEF u, v

(* What is left of a stretch after its first n bytes, wherever they end.   *)
LEMMA FromTail ==
  ASSUME NEW q \in [Slots -> Data], NEW i \in Slots, NEW j \in Slots,
         NEW m \in 0 .. MaxSize, NEW n \in 0 .. m,
         j - (i + n) \in {-MaxSize, 0, MaxSize}
  PROVE  From(q, j, m - n) = SubSeq(From(q, i, m), n + 1, m)
<1> DEFINE u == From(q, i, m)
           v == From(q, j, m - n)
<1>0. m \in Nat /\ n \in Nat /\ m - n \in 0 .. MaxSize
  BY RingAssumption
<1>1. u \in Seq(Data) /\ Len(u) = m /\ \A k \in 1 .. m : u[k] = q[Ahead(i, k)]
  BY FromType
<1>2. /\ v \in Seq(Data) /\ Len(v) = m - n
      /\ \A k \in 1 .. m - n : v[k] = q[Ahead(j, k)]
  BY <1>0, FromType
<1> HIDE DEF u, v
<1>3. SubSeq(u, n + 1, m) \in Seq(Data) /\ Len(SubSeq(u, n + 1, m)) = m - n
  BY <1>0, <1>1
<1>4. ASSUME NEW k \in 1 .. m - n
      PROVE  SubSeq(u, n + 1, m)[k] = v[k]
  <2>1. SubSeq(u, n + 1, m)[k] = u[n + k]
    BY <1>0, <1>1, <1>4
  <2>2. u[n + k] = q[Ahead(i, n + k)]
    BY <1>0, <1>1, <1>4
  <2>3. Ahead(i, n + k) = Ahead(j, k)
    <3>1. /\ i \in 0 .. MaxSize - 1 /\ j \in 0 .. MaxSize - 1
          /\ MaxSize \in Nat /\ n + k \in 1 .. MaxSize
          /\ k \in 1 .. MaxSize
      BY <1>0, <1>4, RingAssumption DEF Slots
    <3>2. /\ Ahead(i, n + k) = IF i + (n + k) <= MaxSize
                               THEN (i + (n + k)) - 1
                               ELSE ((i + (n + k)) - 1) - MaxSize
          /\ Ahead(j, k) = IF j + k <= MaxSize THEN (j + k) - 1
                                               ELSE ((j + k) - 1) - MaxSize
      BY <3>1, AheadIs
    <3>3. QED
      BY <1>0, <3>1, <3>2
  <2>4. QED
    BY <1>2, <2>1, <2>2, <2>3, <1>4
<1>5. SubSeq(u, n + 1, m) = v
  BY <1>2, <1>3, <1>4
<1>6. QED
  BY <1>5 DEF u, v
-----------------------------------------------------------------------------
(* The refinement.                                                         *)

(* The bytes counted as unread, of one task, and of the state after a step *)
(* too.                                                                    *)
LEMMA ContentsIs ==
  ASSUME NEW t, Tasks = {t}
  PROVE  /\ cursize \in Int =>
              Unread = IF pc[t] \in {"r_load", "r_store"}
                       THEN cursize - size[t] ELSE cursize
         /\ cursize' \in Int =>
              Unread' = IF pc'[t] \in {"r_load", "r_store"}
                        THEN cursize' - size'[t] ELSE cursize'
         /\ Contents = From(qbuf, start, Unread)
         /\ Contents' = From(qbuf', start', Unread')
<1>0. (CHOOSE u \in {t} : TRUE) = t /\ {t} # {}
  OBVIOUS
<1>1. Consuming = IF pc[t] \in {"r_load", "r_store"} THEN {t} ELSE {}
  BY DEF Consuming
<1>2. Consuming' = IF pc'[t] \in {"r_load", "r_store"} THEN {t} ELSE {}
  BY DEF Consuming
<1>3. Unread = IF pc[t] \in {"r_load", "r_store"} THEN cursize - size[t]
                                                 ELSE cursize - 0
  BY <1>0, <1>1 DEF Unread
<1>4. Unread' = IF pc'[t] \in {"r_load", "r_store"}
               THEN cursize' - size'[t] ELSE cursize' - 0
  BY <1>0, <1>2 DEF Unread
<1>5. /\ Contents = From(qbuf, start, Unread)
      /\ Contents' = From(qbuf', start', Unread')
  BY DEF Contents, From, Ahead
<1>6. QED
  BY <1>3, <1>4, <1>5

LEMMA SerialRanges ==
  ASSUME NEW t, Tasks = {t}, TypeInv, SerialInv(t)
  PROVE  /\ MaxSize \in Nat \ {0}
         /\ start \in 0 .. MaxSize - 1 /\ end \in -1 .. MaxSize - 1
         /\ cursize \in 0 .. MaxSize /\ size[t] \in Nat
         /\ qbuf \in [Slots -> Data]
         /\ pc[t] \in Taking \union {"r_store"} => size[t] <= cursize
         /\ pc[t] \in Adding \union {"w_store"} => size[t] <= MaxSize - cursize
         /\ Unread \in 0 .. MaxSize
         /\ Contents = From(qbuf, start, Unread) /\ Len(Contents) = Unread
<1>1. /\ MaxSize \in Nat \ {0}
      /\ start \in 0 .. MaxSize - 1 /\ end \in -1 .. MaxSize - 1
      /\ size[t] \in Nat
      /\ qbuf \in [Slots -> Data]
  BY RingAssumption DEF TypeInv, TypeOK, RingTypeOK, Slots
<1>2. /\ cursize \in 0 .. MaxSize
      /\ pc[t] \in Taking \union {"r_store"} => size[t] <= cursize
      /\ pc[t] \in Adding \union {"w_store"} => size[t] <= MaxSize - cursize
  BY DEF SerialInv, SerialSizes
<1>3. /\ Unread = IF pc[t] \in {"r_load", "r_store"} THEN cursize - size[t]
                                                    ELSE cursize
      /\ Contents = From(qbuf, start, Unread)
  BY <1>1, <1>2, ContentsIs
<1>4. Unread \in 0 .. MaxSize
  BY <1>1, <1>2, <1>3 DEF Taking
<1>5. Len(Contents) = Unread
  BY <1>1, <1>3, <1>4, FromType DEF Slots
<1>6. QED
  BY <1>1, <1>2, <1>3, <1>4, <1>5

(* The slots a write copies to, the n after end, hold no unread byte.      *)
LEMMA FreeSlots ==
  ASSUME NEW t, Tasks = {t}, TypeInv, SerialInv(t), Leads(cursize),
         NEW n \in Nat, n <= MaxSize - cursize,
         NEW k \in 1 .. cursize
  PROVE  /\ Ahead(start, k) \in Slots
         /\ Ahead(start, k) \notin end + 1 .. end + n
         /\ n > MaxSize - 1 - end
              => Ahead(start, k) \notin 0 .. n - (MaxSize - 1 - end) - 1
<1>1. /\ MaxSize \in Nat \ {0}
      /\ start \in 0 .. MaxSize - 1 /\ end \in -1 .. MaxSize - 1
      /\ cursize \in 0 .. MaxSize
  BY SerialRanges
<1>2. k \in 1 .. MaxSize
  BY <1>1
<1>3. PICK a \in Int : a = Ahead(start, k) /\ a \in 0 .. MaxSize - 1
  BY <1>1, <1>2, AheadIs
<1>4. (start + k) - a \in {1, 1 + MaxSize}
  <2>1. Ahead(start, k) = IF start + k <= MaxSize THEN (start + k) - 1
                          ELSE ((start + k) - 1) - MaxSize
    BY <1>1, <1>2, AheadIs
  <2>2. QED
    BY <1>1, <1>2, <1>3, <2>1
<1>5. PICK i \in {-MaxSize, 0, MaxSize} : (start + cursize) - (end + 1) = i
  BY <1>1 DEF Leads
<1>6. a \notin end + 1 .. end + n
  BY <1>1, <1>3, <1>4, <1>5
<1>7. n > MaxSize - 1 - end => a \notin 0 .. n - (MaxSize - 1 - end) - 1
  BY <1>1, <1>3, <1>4, <1>5
<1>8. QED
  BY <1>3, <1>6, <1>7 DEF Slots
(* Steps outside the updates of start and cursize leave the queue alone.   *)
LEMMA QueueStays ==
  ASSUME NEW t, Tasks = {t}, TypeInv, SerialInv(t), TypeInv',
         start' = start, cursize' = cursize,
         pc[t] \notin {"r_load", "r_store"},
         pc'[t] \notin {"r_load", "r_store"},
         \A k \in 1 .. cursize :
           qbuf'[Ahead(start, k)] = qbuf[Ahead(start, k)]
  PROVE  Contents' = Contents
<1>1. cursize \in Int /\ cursize' \in Int
  BY DEF TypeInv, TypeOK, RingTypeOK
<1>2. Unread = cursize /\ Unread' = cursize
  BY <1>1, ContentsIs
<1>3. Contents = From(qbuf, start, cursize)
      /\ Contents' = From(qbuf', start, cursize)
  BY <1>2, ContentsIs
<1>4. QED
  BY <1>3 DEF From

(* A copy of a write, complete or not, does not touch an unread byte.      *)
LEMMA CopyInIsFree ==
  ASSUME NEW t, Tasks = {t}, TypeInv, SerialInv(t), NEW k \in 1 .. cursize,
         \/ WriteCopyOnce(t) \/ WriteCopyTail(t) \/ WriteCopyFront(t)
         \/ WriteFault(t)
  PROVE  qbuf'[Ahead(start, k)] = qbuf[Ahead(start, k)]
<1> DEFINE n == size[t]
           s == Ahead(start, k)
<1>1. /\ MaxSize \in Nat \ {0} /\ end \in -1 .. MaxSize - 1 /\ n \in Nat
      /\ cursize \in 0 .. MaxSize
  BY SerialRanges
<1>2. pc[t] \in {"w_copy1", "w_copy2"}
  BY DEF WriteCopyOnce, WriteCopyTail, WriteCopyFront, WriteFault, Goto
<1>3. Leads(cursize) /\ n <= MaxSize - cursize
  BY <1>2 DEF SerialInv, SerialLeads, SerialSizes, Adding
<1>4. /\ s \in Slots
      /\ s \notin end + 1 .. end + n
      /\ n > MaxSize - 1 - end => s \notin 0 .. n - (MaxSize - 1 - end) - 1
  BY <1>1, <1>3, FreeSlots
<1> HIDE DEF s
<1>5. ASSUME CopyIn(end + 1, n)
      PROVE  qbuf'[s] = qbuf[s]
  <2>1. s \notin (end + 1) .. (end + 1) + n - 1
    BY <1>1, <1>4
  <2>2. QED
    BY <1>4, <1>5, <2>1 DEF CopyIn
<1>6. ASSUME CopyIn(end + 1, MaxSize - 1 - end), MaxSize - 1 - end < n
      PROVE  qbuf'[s] = qbuf[s]
  <2>1. s \notin (end + 1) .. (end + 1) + (MaxSize - 1 - end) - 1
    BY <1>1, <1>4, <1>6
  <2>2. QED
    BY <1>4, <1>6, <2>1 DEF CopyIn
<1>7. ASSUME CopyIn(0, n - len1[t]), pc[t] = "w_copy2"
      PROVE  qbuf'[s] = qbuf[s]
  <2>1. len1[t] = MaxSize - 1 - end /\ len1[t] < n
    BY <1>7 DEF SerialInv, SerialCopies
  <2>2. s \notin 0 .. 0 + (n - len1[t]) - 1
    BY <1>1, <1>4, <2>1
  <2>3. QED
    BY <1>4, <1>7, <2>2 DEF CopyIn
<1>8. \/ CopyIn(end + 1, n)
      \/ CopyIn(end + 1, MaxSize - 1 - end) /\ MaxSize - 1 - end < n
      \/ CopyIn(0, n - len1[t]) /\ pc[t] = "w_copy2"
  BY Zenon DEF WriteCopyOnce, WriteCopyTail, WriteCopyFront, WriteFault, Goto
<1>9. qbuf'[s] = qbuf[s]
  BY <1>5, <1>6, <1>7, <1>8, Zenon
<1>10. QED
  BY <1>9 DEF s

(* start moves over the bytes the read has delivered: a take.              *)
LEMMA StartTakes ==
  ASSUME NEW t, Tasks = {t}, TypeInv, SerialInv(t), TypeInv', SerialInv(t)',
         ReadStoreStart(t)
  PROVE  Queue!Take \/ Contents' = Contents
<1> DEFINE n == size[t]
<1>1. /\ pc[t] = "r_setstart" /\ pc'[t] = "r_load" /\ size' = size
      /\ start' = CMod(start + n, MaxSize)
      /\ qbuf' = qbuf /\ cursize' = cursize
  BY DEF ReadStoreStart, Goto, frame, TypeInv, TypeOK, RingTypeOK, SerialInv,
     SerialLoads
<1>2. /\ MaxSize \in Nat \ {0} /\ start \in 0 .. MaxSize - 1
      /\ cursize \in 0 .. MaxSize /\ n \in 0 .. cursize
      /\ qbuf \in [Slots -> Data]
  BY <1>1, SerialRanges DEF Taking
<1>3. /\ Unread = cursize /\ Unread' = cursize - n
      /\ Contents = From(qbuf, start, cursize)
      /\ Contents' = From(qbuf, start', cursize - n)
  BY <1>1, <1>2, ContentsIs
<1>4. start' - (start + n) \in {-MaxSize, 0, MaxSize} /\ start' \in Slots
  <2>1. start + n \in -1 .. 2 * MaxSize - 1
    BY <1>2
  <2>2. CMod(start + n, MaxSize) - (start + n) \in {-MaxSize, 0, MaxSize}
    BY <1>2, <2>1, CModShift, Zenon
  <2>3. start' \in Slots
    BY DEF TypeInv, TypeOK, RingTypeOK
  <2>4. QED
    BY <1>1, <2>2, <2>3
<1>5. Contents' = SubSeq(Contents, n + 1, cursize)
  BY <1>2, <1>3, <1>4, FromTail DEF Slots
<1>6. Contents \in Seq(Data) /\ Len(Contents) = cursize
  BY <1>2, <1>3, FromType DEF Slots
<1>7. CASE n = 0
  BY <1>2, <1>5, <1>6, <1>7
<1>8. CASE n > 0
  <2>1. n \in 1 .. Len(Contents)
    BY <1>2, <1>6, <1>8
  <2>2. QED
    BY <1>5, <1>6, <2>1 DEF Queue!Take
<1>9. QED
  BY <1>2, <1>7, <1>8

(* cursize grows over the bytes the write has copied: a put.               *)
LEMMA CountPuts ==
  ASSUME NEW t, Tasks = {t}, TypeInv, SerialInv(t), TypeInv',
         WriteStoreCount(t)
  PROVE  Queue!Put \/ Contents' = Contents
<1> DEFINE n == size[t]
           s == [j \in 1 .. n |-> qbuf[Ahead(start, cursize + j)]]
<1>1. /\ pc[t] = "w_store" /\ pc'[t] = "w_done"
      /\ cursize' = cursize + n
      /\ qbuf' = qbuf /\ start' = start
  BY DEF WriteStoreCount, Goto, frame, TypeInv, TypeOK, RingTypeOK, SerialInv,
     SerialLoads
<1>2. /\ MaxSize \in Nat \ {0} /\ start \in 0 .. MaxSize - 1
      /\ cursize \in 0 .. MaxSize /\ n \in 0 .. MaxSize - cursize
      /\ qbuf \in [Slots -> Data]
  BY <1>1, SerialRanges
<1>3. /\ Contents = From(qbuf, start, cursize)
      /\ Contents' = From(qbuf, start, cursize + n)
  BY <1>1, <1>2, ContentsIs
<1>4. Contents' = Contents \o s
  BY <1>2, <1>3, FromConcat DEF Slots
<1>5. Contents \in Seq(Data) /\ Len(Contents) = cursize
  BY <1>2, <1>3, FromType DEF Slots
<1>6. s \in [1 .. n -> Data]
  <2>1. ASSUME NEW j \in 1 .. n
        PROVE  Ahead(start, cursize + j) \in Slots
    BY <1>2, <2>1, AheadIs DEF Slots
  <2>2. QED
    BY <1>2, <2>1
<1> HIDE DEF s
<1>7. CASE n = 0
  <2>1. s = << >>
    BY <1>6, <1>7
  <2>2. QED
    BY <1>4, <1>5, <2>1
<1>8. CASE n > 0
  <2>1. n \in 1 .. MaxSize - Len(Contents)
    BY <1>2, <1>5, <1>8
  <2>2. QED
    BY <1>4, <1>6, <2>1 DEF Queue!Put
<1>9. QED
  BY <1>2, <1>7, <1>8
(* A read in its last two steps has left the queue already.                *)
LEMMA CountFollows ==
  ASSUME NEW t, Tasks = {t}, TypeInv, SerialInv(t), TypeInv',
         ReadLoadCount(t) \/ ReadStoreCount(t)
  PROVE  Contents' = Contents
<1>1. /\ cursize \in Int /\ cursize' \in Int /\ size[t] \in Int
      /\ t \in Tasks /\ pc \in [Tasks -> PCs]
  BY DEF TypeInv, TypeOK, RingTypeOK
<1>2. Unread' = Unread /\ qbuf' = qbuf /\ start' = start
  <2>1. CASE ReadLoadCount(t)
    <3>1. /\ pc[t] = "r_load" /\ pc'[t] = "r_store"
          /\ UNCHANGED fields /\ size' = size
      BY <1>1, <2>1 DEF ReadLoadCount, Goto
    <3>2. QED
      BY <1>1, <3>1, ContentsIs DEF fields
  <2>2. CASE ReadStoreCount(t)
    <3>1. /\ pc[t] = "r_store" /\ pc'[t] = "idle"
          /\ cursize' = cursize - size[t] /\ qbuf' = qbuf /\ start' = start
      BY <1>1, <2>2 DEF ReadStoreCount, Return, SerialInv, SerialLoads
    <3>2. QED
      BY <1>1, <3>1, ContentsIs
  <2>3. QED
    BY <2>1, <2>2
<1>3. QED
  BY <1>2, ContentsIs

(* The other steps of the copies that leave the page alone.                *)
LEMMA BareStep ==
  ASSUME NEW t, Tasks = {t}, TypeInv, SerialInv(t), TypeInv',
         \/ ReadSize(t) \/ ReadCopyOnce(t) \/ ReadCopyTail(t)
         \/ ReadCopyFront(t) \/ ReadRefused(t) \/ ReadFault(t)
         \/ ReadLoadStart(t)
         \/ WriteSpace(t) \/ WriteFull(t) \/ WriteLoadEnd(t)
         \/ WriteStoreEnd(t) \/ WriteLoadCount(t)
  PROVE  Contents' = Contents
<1>1. t \in Tasks /\ pc \in [Tasks -> PCs]
  BY DEF TypeInv, TypeOK, RingTypeOK
<1>2. qbuf' = qbuf /\ start' = start /\ cursize' = cursize
  BY DEF ReadSize, ReadCopyOnce, ReadCopyTail, ReadCopyFront, ReadRefused,
     ReadFault, ReadLoadStart, WriteSpace, WriteFull, WriteLoadEnd,
     WriteStoreEnd, WriteLoadCount, fields
<1>3. /\ pc[t] \notin {"r_load", "r_store"}
      /\ pc'[t] \notin {"r_load", "r_store"}
  BY <1>1 DEF ReadSize, ReadCopyOnce, ReadCopyTail, ReadCopyFront,
     ReadRefused, ReadFault, ReadLoadStart, WriteSpace, WriteFull,
     WriteLoadEnd, WriteStoreEnd, WriteLoadCount, Goto, Return
<1>4. QED
  BY <1>2, <1>3, QueueStays

(* Every step of the task is a put, a take or nothing to the queue.        *)
LEMMA QueueStep ==
  ASSUME NEW t, Tasks = {t}, TypeInv, SerialInv(t), TypeInv', SerialInv(t)',
         [Next]_vars
  PROVE  [Queue!Next]_Contents
<1>0. t \in Tasks /\ pc \in [Tasks -> PCs]
  BY DEF TypeInv, TypeOK, RingTypeOK
<1>1. CASE UNCHANGED ringVars
  BY <1>1 DEF ringVars, Contents, Unread, Consuming
<1>2. ASSUME UNCHANGED fields, pc[t] \in Outside, pc'[t] \in Outside
      PROVE  Contents' = Contents
  <2>1. /\ qbuf' = qbuf /\ start' = start /\ cursize' = cursize
        /\ pc[t] \notin {"r_load", "r_store"}
        /\ pc'[t] \notin {"r_load", "r_store"}
    BY <1>2 DEF fields, Outside, WaitPCs
  <2>2. QED
    BY <2>1, QueueStays
<1>3. ASSUME NEW n, ReadCall(t, n) \/ WriteCall(t, n)
      PROVE  Contents' = Contents
  <2>1. UNCHANGED fields /\ pc[t] \in Outside /\ pc'[t] \in Outside
    BY <1>0, <1>3 DEF ReadCall, WriteCall, Enter, Goto, Outside
  <2>2. QED
    BY <1>2, <2>1
<1>4. CASE WaitStep(t) /\ ~Signal(t)
  <2>1. UNCHANGED fields
    BY <1>4 DEF WaitStep, ReadCheck, WaitPrepare, WaitDone, WaitSleep,
       WaitResume, WriteWake
  <2>2. pc[t] \in Outside /\ pc'[t] \in Outside
    BY <1>0, <1>4 DEF WaitStep, ReadCheck, WaitPrepare, WaitDone, WaitSleep,
       WaitResume, WriteWake, Goto, Return, Outside, WaitPCs
  <2>3. QED
    BY <1>2, <2>1, <2>2
<1>5. CASE RingStep(t)
  <2>1. CASE ReadStoreStart(t)
    BY <2>1, StartTakes DEF Queue!Next
  <2>2. CASE WriteStoreCount(t)
    BY <2>2, CountPuts DEF Queue!Next
  <2>3. CASE ReadLoadCount(t) \/ ReadStoreCount(t)
    BY <2>3, CountFollows
  <2>4. CASE \/ WriteCopyOnce(t) \/ WriteCopyTail(t) \/ WriteCopyFront(t)
             \/ WriteFault(t)
    <3>1. /\ start' = start /\ cursize' = cursize
          /\ pc[t] \in {"w_copy1", "w_copy2"}
          /\ pc'[t] \in {"w_copy2", "w_end", "idle"}
      BY <1>0, <2>4 DEF WriteCopyOnce, WriteCopyTail, WriteCopyFront,
         WriteFault, Goto, Return
    <3>2. \A k \in 1 .. cursize :
            qbuf'[Ahead(start, k)] = qbuf[Ahead(start, k)]
      BY <2>4, CopyInIsFree
    <3>3. QED
      BY <3>1, <3>2, QueueStays
  <2>5. CASE \/ ReadSize(t) \/ ReadCopyOnce(t) \/ ReadCopyTail(t)
             \/ ReadCopyFront(t) \/ ReadRefused(t) \/ ReadFault(t)
             \/ ReadLoadStart(t)
             \/ WriteSpace(t) \/ WriteFull(t) \/ WriteLoadEnd(t)
             \/ WriteStoreEnd(t) \/ WriteLoadCount(t)
    BY <2>5, BareStep
  <2>6. QED
    BY <1>5, <2>1, <2>2, <2>3, <2>4, <2>5, Zenon
       DEF RingStep, ReadCopies, WriteCopies
<1>6. QED
  <2>1. CASE UNCHANGED vars
    BY <1>1, <2>1 DEF vars
  <2>2. CASE Next
    <3>1. \/ \E n : ReadCall(t, n) \/ WriteCall(t, n)
          \/ WaitStep(t) \/ RingStep(t)
      BY <2>2, StepKinds, Zenon DEF Tasks
    <3>2. CASE Signal(t)
      BY <1>1, <3>2 DEF Signal
    <3>3. QED
      BY <1>3, <1>4, <1>5, <3>1, <3>2
  <2>3. QED
    BY <2>1, <2>2

(* As long as calls do not overlap, the ring of any size is a first-in     *)
(* first-out queue: a write appends what it has copied, a read removes a   *)
(* prefix, and no fault, signal or wrap does anything to the queue.        *)
THEOREM RingImplementsQueue ==
  ASSUME NEW t, Tasks = {t}
  PROVE  Spec => RingIsQueue
<1>1. Init => Queue!Init
  <2> SUFFICES ASSUME Init
               PROVE  Contents = << >>
    BY DEF Queue!Init
  <2>1. cursize = 0 /\ pc[t] = "idle"
    BY DEF Init, RingInit
  <2>2. Unread = 0 /\ Contents = From(qbuf, start, Unread)
    BY <2>1, ContentsIs
  <2>3. QED
    BY <2>2 DEF From
<1>2. TypeInv /\ SerialInv(t) /\ (TypeInv /\ SerialInv(t))' /\ [Next]_vars
        => [Queue!Next]_Contents
  BY QueueStep
<1>3. QED
  BY <1>1, <1>2, SerialInvariance, PTL DEF Spec, RingIsQueue, Queue!Spec
-----------------------------------------------------------------------------
(* What a read delivers.                                                   *)

(* A copy that stays in the page finds consecutive slots of it.            *)
LEMMA BytesInPage ==
  ASSUME NEW i \in Nat, NEW k \in Nat, i + k <= MaxSize
  PROVE  /\ Len(Bytes(i, k)) = k
         /\ Bytes(i, k) = [j \in 1 .. k |-> qbuf[(i + j) - 1]]
<1>1. ASSUME NEW j \in 1 .. k
      PROVE  i + j - 1 \in Slots /\ i + j - 1 = (i + j) - 1
  BY <1>1, RingAssumption DEF Slots
<1>2. Bytes(i, k) = [j \in 1 .. k |-> qbuf[(i + j) - 1]]
  BY <1>1 DEF Bytes
<1>3. Len(Bytes(i, k)) = k
  BY <1>2
<1>4. QED
  BY <1>2, <1>3

(* A read that has copied has as many bytes as it will remove, and when    *)
(* the code copies from start on, they are the oldest.                     *)
DeliveredInv(t) ==
  pc[t] = "r_start" =>
    /\ Len(got[t]) = size[t]
    /\ start = 0 \/ start > end => got[t] = From(qbuf, start, size[t])

(* start <= end: right when start is 0.                                    *)
LEMMA OnceDelivers ==
  ASSUME NEW t, Tasks = {t}, TypeInv, SerialInv(t), ReadCopyOnce(t)
  PROVE  DeliveredInv(t)'
<1> DEFINE n == size[t]
<1>1. /\ pc[t] = "r_copy1" /\ UNCHANGED fields /\ size' = size /\ start <= end
      /\ got'[t] = Bytes(0, n)
  BY DEF ReadCopyOnce, Goto, TypeInv, TypeOK, RingTypeOK
<1>2. /\ MaxSize \in Nat \ {0} /\ start \in 0 .. MaxSize - 1
      /\ end \in -1 .. MaxSize - 1 /\ n \in 0 .. MaxSize
      /\ qbuf \in [Slots -> Data]
  BY <1>1, SerialRanges DEF Taking
<1>3. /\ Len(Bytes(0, n)) = n
      /\ Bytes(0, n) = [j \in 1 .. n |-> qbuf[(0 + j) - 1]]
  <2>1. 0 \in Nat /\ n \in Nat /\ 0 + n <= MaxSize
    BY <1>2
  <2>2. QED
    BY <2>1, BytesInPage, Zenon
<1>4. ASSUME start = 0
      PROVE  Bytes(0, n) = From(qbuf, start, n)
  <2>1. ASSUME NEW j \in 1 .. n
        PROVE  Ahead(start, j) = (0 + j) - 1
    <3>1. j \in 1 .. MaxSize
      BY <1>2, <2>1
    <3>2. Ahead(start, j) = IF start + j <= MaxSize THEN (start + j) - 1
                            ELSE ((start + j) - 1) - MaxSize
      BY <1>2, <3>1, AheadIs
    <3>3. QED
      BY <1>2, <1>4, <3>1, <3>2
  <2>2. QED
    BY <1>3, <2>1 DEF From
<1>5. ~(start > end)
  BY <1>1, <1>2
<1>6. QED
  BY <1>1, <1>3, <1>4, <1>5 DEF DeliveredInv, fields

(* start > end: the tail and then the front.                               *)
LEMMA FrontDelivers ==
  ASSUME NEW t, Tasks = {t}, TypeInv, SerialInv(t), ReadCopyFront(t)
  PROVE  DeliveredInv(t)'
<1> DEFINE m == MaxSize - start
           n == size[t] - m
<1>1. /\ pc[t] = "r_copy2" /\ UNCHANGED fields /\ size' = size
      /\ size[t] >= len1[t]
      /\ got'[t] = got[t] \o Bytes(0, size[t] - len1[t])
  BY DEF ReadCopyFront, Goto, TypeInv, TypeOK, RingTypeOK
<1>2. /\ MaxSize \in Nat \ {0} /\ start \in 0 .. MaxSize - 1
      /\ size[t] \in 0 .. MaxSize
      /\ qbuf \in [Slots -> Data]
  BY <1>1, SerialRanges DEF Taking
<1>3. len1[t] = m /\ got[t] = Bytes(start, m)
  BY <1>1 DEF SerialInv, SerialCopies
<1>4. /\ m \in 1 .. MaxSize /\ n \in 0 .. MaxSize - m /\ m + n = size[t]
      /\ start + m <= MaxSize
  BY <1>1, <1>2, <1>3
<1>5. Bytes(start, m) = From(qbuf, start, m)
  <2>1. Bytes(start, m) = [j \in 1 .. m |-> qbuf[(start + j) - 1]]
    <3>1. start \in Nat /\ m \in Nat /\ start + m <= MaxSize
      BY <1>2, <1>4
    <3>2. QED
      BY <3>1, BytesInPage, Zenon
  <2>2. ASSUME NEW j \in 1 .. m
        PROVE  Ahead(start, j) = (start + j) - 1
    <3>1. j \in 1 .. MaxSize /\ start + j <= MaxSize
      BY <1>2, <1>4, <2>2
    <3>2. QED
      BY <1>2, <3>1, AheadIs
  <2>3. QED
    BY <2>1, <2>2 DEF From
<1>6. Bytes(0, n) = [j \in 1 .. n |-> qbuf[Ahead(start, m + j)]]
  <2>1. Bytes(0, n) = [j \in 1 .. n |-> qbuf[(0 + j) - 1]]
    <3>1. 0 \in Nat /\ n \in Nat /\ 0 + n <= MaxSize
      BY <1>2, <1>4
    <3>2. QED
      BY <3>1, BytesInPage, Zenon
  <2>2. ASSUME NEW j \in 1 .. n
        PROVE  Ahead(start, m + j) = (0 + j) - 1
    <3>1. m + j \in 1 .. MaxSize /\ start + (m + j) = MaxSize + j /\ j > 0
      BY <1>2, <1>4, <2>2
    <3>2. Ahead(start, m + j) = IF start + (m + j) <= MaxSize
                                THEN (start + (m + j)) - 1
                                ELSE ((start + (m + j)) - 1) - MaxSize
      BY <1>2, <3>1, AheadIs
    <3>3. QED
      BY <1>2, <2>2, <3>1, <3>2
  <2>3. QED
    BY <2>1, <2>2
<1> HIDE DEF m, n
<1>7. From(qbuf, start, m + n)
        = From(qbuf, start, m) \o [j \in 1 .. n |-> qbuf[Ahead(start, m + j)]]
  <2>1. /\ start \in Slots /\ m \in 0 .. MaxSize /\ n \in 0 .. MaxSize - m
        /\ qbuf \in [Slots -> Data]
    BY <1>2, <1>4 DEF Slots
  <2>2. QED
    BY <2>1, FromConcat, Zenon
<1>8. got'[t] = From(qbuf, start, size[t])
  BY <1>1, <1>3, <1>4, <1>5, <1>6, <1>7 DEF n
<1>9. Len(From(qbuf, start, size[t])) = size[t]
  BY <1>2, FromType DEF Slots
<1>10. QED
  BY <1>1, <1>8, <1>9 DEF DeliveredInv, fields
(* No other step leads to where a read updates start.                      *)
LEMMA DeliveredStep ==
  ASSUME NEW t, Tasks = {t}, TypeInv, SerialInv(t), DeliveredInv(t),
         [Next]_vars
  PROVE  DeliveredInv(t)'
<1>0. t \in Tasks /\ pc \in [Tasks -> PCs]
  BY DEF TypeInv, TypeOK, RingTypeOK
<1>1. CASE UNCHANGED ringVars
  BY <1>1 DEF ringVars, DeliveredInv, From, Ahead
<1>2. ASSUME pc'[t] # "r_start"
      PROVE  DeliveredInv(t)'
  BY <1>2 DEF DeliveredInv
<1>3. ASSUME NEW n, ReadCall(t, n) \/ WriteCall(t, n)
      PROVE  pc'[t] # "r_start"
  BY <1>0, <1>3 DEF ReadCall, WriteCall, Enter, Goto
<1>4. CASE WaitStep(t) /\ ~Signal(t)
  <2>1. pc'[t] # "r_start"
    BY <1>0, <1>4 DEF WaitStep, ReadCheck, WaitPrepare, WaitDone, WaitSleep,
       WaitResume, WriteWake, Goto, Return
  <2>2. QED
    BY <1>2, <2>1
<1>5. CASE RingStep(t)
  <2>1. CASE ReadCopyOnce(t)
    BY <2>1, OnceDelivers
  <2>2. CASE ReadCopyFront(t)
    BY <2>2, FrontDelivers
  <2>3. CASE \/ ReadSize(t) \/ ReadCopyTail(t) \/ ReadRefused(t)
             \/ ReadFault(t) \/ ReadLoadStart(t) \/ ReadStoreStart(t)
             \/ ReadLoadCount(t) \/ ReadStoreCount(t)
    <3>1. pc'[t] # "r_start"
      BY <1>0, <2>3 DEF ReadSize, ReadCopyTail, ReadRefused, ReadFault,
         ReadLoadStart, ReadStoreStart, ReadLoadCount, ReadStoreCount, Goto,
         Return
    <3>2. QED
      BY <1>2, <3>1
  <2>4. CASE WriteCopies(t) \/ WriteFault(t)
    <3>1. pc'[t] # "r_start"
      BY <1>0, <2>4 DEF WriteCopies, WriteFault, WriteSpace, WriteFull,
         WriteCopyOnce, WriteCopyTail, WriteCopyFront, WriteLoadEnd,
         WriteStoreEnd, WriteLoadCount, WriteStoreCount, Goto, Return
    <3>2. QED
      BY <1>2, <3>1
  <2>5. QED
    BY <1>5, <2>1, <2>2, <2>3, <2>4, Zenon DEF RingStep, ReadCopies
<1>6. QED
  <2>1. CASE UNCHANGED vars
    BY <1>1, <2>1 DEF vars
  <2>2. CASE Next
    <3>1. \/ \E n : ReadCall(t, n) \/ WriteCall(t, n)
          \/ WaitStep(t) \/ RingStep(t)
      BY <2>2, StepKinds, Zenon DEF Tasks
    <3>2. CASE Signal(t)
      BY <1>1, <3>2 DEF Signal
    <3>3. QED
      BY <1>2, <1>3, <1>4, <1>5, <3>1, <3>2
  <2>3. QED
    BY <2>1, <2>2

(* In any ring, as long as calls do not overlap, a read delivers exactly   *)
(* the number of bytes it removes, and when start is 0 or the data goes    *)
(* around the end of the page they are the oldest ones, in order.          *)
THEOREM WrappedReadsAreOldest ==
  ASSUME NEW t, Tasks = {t}
  PROVE  Spec => []WrappedReadsInOrder
<1>1. Init => DeliveredInv(t)
  BY DEF Init, RingInit, DeliveredInv
<1>2. TypeInv /\ SerialInv(t) /\ DeliveredInv(t) /\ [Next]_vars
        => DeliveredInv(t)'
  BY DeliveredStep
<1>3. TypeInv /\ SerialInv(t) /\ DeliveredInv(t) => WrappedReadsInOrder
  <2> SUFFICES ASSUME TypeInv, SerialInv(t), DeliveredInv(t),
                      pc[t] = "r_start"
               PROVE  /\ Len(got[t]) = size[t]
                      /\ start = 0 \/ start > end => InOrder(t)
    BY DEF WrappedReadsInOrder
  <2>1. /\ MaxSize \in Nat \ {0} /\ start \in 0 .. MaxSize - 1
        /\ cursize \in 0 .. MaxSize /\ size[t] \in 0 .. cursize
        /\ qbuf \in [Slots -> Data]
    BY SerialRanges DEF Taking
  <2>2. Contents = From(qbuf, start, cursize)
    BY <2>1, ContentsIs
  <2>3. SubSeq(Contents, 1, size[t]) = From(qbuf, start, size[t])
    BY <2>1, <2>2, FromHead DEF Slots
  <2>4. QED
    BY <2>3 DEF DeliveredInv, InOrder
<1>4. QED
  BY <1>1, <1>2, <1>3, SerialInvariance, PTL DEF Spec
=============================================================================
