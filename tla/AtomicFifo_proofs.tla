-------------------------- MODULE AtomicFifo_proofs --------------------------
(***************************************************************************)
(* The counter of fifo_atomic/fifo.c and who passes its test, for every    *)
(* number of tasks that open the device.                                   *)
(***************************************************************************)
EXTENDS AtomicFifo, Ring_proofs, FiniteSetTheorems

TypeInv == TypeOK /\ IndexInv

(* A read or write leaves the door alone, an open or release the ring.     *)
LEMMA TypeStep == TypeInv /\ [Next]_vars => TypeInv'
<1> SUFFICES ASSUME TypeInv, [Next]_vars
             PROVE  TypeInv'
  OBVIOUS
<1> USE RingAssumption DEF TypeInv, TypeOK
<1>1. CASE UNCHANGED vars
  BY <1>1 DEF vars, ringVars, doorVars, RingTypeOK, IndexInv, Slots
<1>2. ASSUME NEW t \in Openers, Open(t) \/ OpenBusy(t) \/ Release(t)
      PROVE  TypeInv'
  <2>1. available' \in Int /\ UNCHANGED ringVars
    BY <1>2 DEF Open, OpenBusy, Release
  <2>2. file' \in [Openers -> {"closed", "undo", "open"}]
    <3>1. CASE Open(t)
      BY <3>1 DEF Open
    <3>2. CASE OpenBusy(t) \/ Release(t)
      BY <3>2 DEF OpenBusy, Release
    <3>3. QED
      BY <1>2, <3>1, <3>2
  <2>3. (RingTypeOK(RingPCs) /\ IndexInv)'
    BY <2>1 DEF ringVars, RingTypeOK, IndexInv, Slots
  <2>4. QED
    BY <2>1, <2>2, <2>3
<1>3. ASSUME NEW t \in Tasks, NEW n \in Lens, UNCHANGED doorVars,
             ReadCall(t, n) \/ WriteCall(t, n)
      PROVE  TypeInv'
  <2>1. n \in Nat /\ "r_size" \in RingPCs /\ "w_space" \in RingPCs
    BY DEF RingPCs, WritePCs
  <2>2. (RingTypeOK(RingPCs) /\ IndexInv)'
    BY <1>3, <2>1, EnterType DEF ReadCall, WriteCall
  <2>3. QED
    BY <1>3, <2>2 DEF doorVars
<1>4. ASSUME NEW t \in Tasks, UNCHANGED doorVars, Read(t) \/ Write(t)
      PROVE  TypeInv'
  <2>1. CASE ReadEmpty(t) \/ WriteDone(t)
    <3>1. Return(t) /\ UNCHANGED fields
      BY <2>1 DEF ReadEmpty, WriteDone
    <3>2. /\ qbuf' \in [Slots -> Data] /\ start' \in Slots
          /\ end' \in -1 .. MaxSize - 1 /\ cursize' \in Int
      BY <3>1 DEF fields, RingTypeOK
    <3>3. QED
      BY <1>4, <3>1, <3>2, ReturnType DEF RingTypeOK, doorVars
  <2>2. CASE \/ ReadSize(t) \/ ReadCopies(t) \/ ReadFault(t)
             \/ WriteCopies(t) \/ WriteFault(t)
    <3>1. (RingTypeOK(RingPCs) /\ IndexInv)'
      BY <2>2, RingStepType
    <3>2. QED
      BY <1>4, <3>1 DEF doorVars
  <2>3. QED
    BY <1>4, <2>1, <2>2 DEF Read, Write
<1>5. QED
  BY <1>1, <1>2, <1>3, <1>4 DEF Next, Tasks

LEMMA TypeInit == Init => TypeInv
<1>1. << >> \in Seq(Data \union {Beyond})
  OBVIOUS
<1>2. QED
  BY <1>1, RingAssumption DEF Init, RingInit, TypeInv, TypeOK, RingTypeOK,
     IndexInv, RingPCs, Slots

(* Every variable keeps its type; start and end are indices of the page.   *)
THEOREM TypeCorrect == Spec => []TypeOK
<1>1. TypeInv => TypeOK
  BY DEF TypeInv
<1>2. QED
  BY <1>1, TypeInit, TypeStep, PTL DEF Spec

-----------------------------------------------------------------------------
(* An open adds its task to those the counter stands for, the end of a     *)
(* refused open and a release take it away.                                *)
LEMMA CounterStep ==
  ASSUME TypeOK, AvailableCounts, [Next]_vars
  PROVE  AvailableCounts'
<1> USE AtomicFifoAssumption
<1>1. IsFiniteSet(NotClosed) /\ Cardinality(NotClosed) \in Nat
  <2>1. IsFiniteSet(NotClosed)
    BY FS_Subset DEF NotClosed
  <2>2. QED
    BY <2>1, FS_CardinalityType
<1>2. CASE UNCHANGED doorVars
  BY <1>2 DEF doorVars, AvailableCounts, NotClosed
<1>3. ASSUME NEW t \in Openers, Open(t)
      PROVE  AvailableCounts'
  <2>1. NotClosed' = NotClosed \union {t} /\ t \notin NotClosed
    BY <1>3 DEF Open, NotClosed, TypeOK
  <2>2. Cardinality(NotClosed') = Cardinality(NotClosed) + 1
    BY <1>1, <2>1, FS_AddElement
  <2>3. QED
    BY <1>1, <1>3, <2>2 DEF Open, AvailableCounts
<1>4. ASSUME NEW t \in Openers, OpenBusy(t) \/ Release(t)
      PROVE  AvailableCounts'
  <2>1. NotClosed' = NotClosed \ {t} /\ t \in NotClosed
    BY <1>4 DEF OpenBusy, Release, NotClosed, TypeOK
  <2>2. Cardinality(NotClosed') = Cardinality(NotClosed) - 1
    BY <1>1, <2>1, FS_RemoveElement
  <2>3. QED
    BY <1>1, <1>4, <2>2 DEF OpenBusy, Release, AvailableCounts
<1>5. QED
  BY <1>2, <1>3, <1>4 DEF Next, vars, doorVars

LEMMA CounterInit == Init => AvailableCounts
<1>1. Init => NotClosed = {}
  BY DEF Init, NotClosed
<1>2. QED
  BY <1>1, FS_EmptySet DEF Init, AvailableCounts

(* The counter always stands for those who hold the device or are about to *)
(* be refused.                                                             *)
THEOREM CounterCorrect == Spec => []AvailableCounts
BY CounterInit, CounterStep, TypeCorrect, PTL DEF Spec

(* A count of 1 means nobody has the device.                               *)
LEMMA OneMeansFree ==
  ASSUME AvailableCounts
  PROVE  available = 1 <=> NotClosed = {}
<1>1. IsFiniteSet(NotClosed) /\ Cardinality(NotClosed) \in Nat
  BY AtomicFifoAssumption, FS_Subset, FS_CardinalityType DEF NotClosed
<1>2. Cardinality(NotClosed) = 0 <=> NotClosed = {}
  BY <1>1, FS_EmptySet
<1>3. QED
  BY <1>1, <1>2 DEF AvailableCounts

(* A step that changes what a task that had nothing has is its open.       *)
LEMMA OnlyOpenLeavesClosed ==
  ASSUME TypeOK, [Next]_vars, NEW t \in Openers, file[t] = "closed",
         file'[t] # "closed"
  PROVE  Open(t)
<1>1. ASSUME NEW u \in Openers, Open(u) \/ OpenBusy(u) \/ Release(u)
      PROVE  Open(t)
  BY <1>1 DEF Open, OpenBusy, Release, TypeOK
<1>2. CASE UNCHANGED doorVars
  BY <1>2 DEF doorVars
<1>3. QED
  BY <1>1, <1>2 DEF Next, vars, doorVars

(* Whoever is refused is alone.                                            *)
THEOREM RefusedIsAlone == Spec => RefusedOnlyWhenFree
<1>1. ASSUME TypeOK, AvailableCounts, [Next]_vars, NEW t \in Openers,
             file[t] = "closed", file'[t] = "undo"
      PROVE  \A u \in Openers : file[u] = "closed"
  <2>1. Open(t)
    BY <1>1, OnlyOpenLeavesClosed
  <2>2. available - 1 = 0
    BY <1>1, <2>1 DEF Open, OpenAdmits, TypeOK
  <2>3. NotClosed = {}
    BY <1>1, <2>2, OneMeansFree DEF TypeOK
  <2>4. QED
    BY <2>3 DEF NotClosed
<1>2. TypeOK /\ AvailableCounts /\ [Next]_vars
        => [\A t \in Openers :
              file[t] = "closed" /\ file'[t] = "undo" =>
                \A u \in Openers : file[u] = "closed"]_vars
  BY <1>1
<1>3. QED
  BY <1>2, TypeCorrect, CounterCorrect, PTL DEF Spec, RefusedOnlyWhenFree

(* Whoever is let in is not alone.                                         *)
THEOREM AdmittedIsNotAlone == Spec => AdmittedOnlyInContention
<1>1. ASSUME TypeOK, AvailableCounts, [Next]_vars, NEW t \in Openers,
             file[t] = "closed", file'[t] = "open"
      PROVE  \E u \in Openers \ {t} : file[u] # "closed"
  <2>1. Open(t)
    BY <1>1, OnlyOpenLeavesClosed
  <2>2. available - 1 # 0
    BY <1>1, <2>1 DEF Open, OpenAdmits, TypeOK
  <2>3. NotClosed # {}
    BY <1>1, <2>2, OneMeansFree DEF TypeOK
  <2>4. PICK u \in NotClosed : TRUE
    BY <2>3
  <2>5. u # t
    BY <1>1, <2>4 DEF NotClosed
  <2>6. QED
    BY <2>4, <2>5 DEF NotClosed
<1>2. TypeOK /\ AvailableCounts /\ [Next]_vars
        => [\A t \in Openers :
              file[t] = "closed" /\ file'[t] = "open" =>
                \E u \in Openers \ {t} : file[u] # "closed"]_vars
  BY <1>1
<1>3. QED
  BY <1>2, TypeCorrect, CounterCorrect, PTL DEF Spec, AdmittedOnlyInContention

-----------------------------------------------------------------------------
(* The ring behind the door, used by one reading and one writing task.     *)
LEMMA CountStep ==
  ASSUME NEW r, NEW w, r # w, Readers = {r}, Writers = {w},
         TypeInv, CountInv(r, w), [Next]_vars
  PROVE  CountInv(r, w)'
<1> USE RingAssumption
<1>0. Tasks = {r, w} /\ RingTypeOK(RingPCs)
  BY DEF Tasks, TypeInv, TypeOK
<1>1. CASE UNCHANGED ringVars
  BY <1>1 DEF CountInv, ringVars
<1>2. CASE \E n \in Lens : ReadCall(r, n) \/ WriteCall(w, n)
  BY <1>0, <1>2 DEF ReadCall, WriteCall, Enter, Goto, fields, CountInv,
     RingTypeOK, WritePCs, Taking, Adding
<1>3. ASSUME NEW t \in Tasks, Read(t) \/ Write(t)
      PROVE  CountInv(r, w)'
  <2>1. CASE ReadEmpty(t)
    <3>1. t = r
      BY <1>0, <2>1 DEF ReadEmpty, CountInv, WritePCs
    <3>2. QED
      BY <1>0, <2>1, <3>1 DEF ReadEmpty, Return, fields, CountInv,
         RingTypeOK, WritePCs, Taking, Adding
  <2>2. CASE WriteDone(t)
    <3>1. t = w
      BY <1>0, <2>2 DEF WriteDone, CountInv, WritePCs
    <3>2. QED
      BY <1>0, <2>2, <3>1 DEF WriteDone, Return, fields, CountInv,
         RingTypeOK, WritePCs, Taking, Adding
  <2>3. CASE \/ ReadSize(t) \/ ReadCopies(t) \/ ReadFault(t)
             \/ WriteCopies(t) \/ WriteFault(t)
    <3>1. CASE t = r
      BY <1>0, <2>3, <3>1, OwnSteps, ReaderCount
    <3>2. CASE t = w
      BY <1>0, <2>3, <3>2, OwnSteps, WriterCount
    <3>3. QED
      BY <1>0, <3>1, <3>2
  <2>4. QED
    BY <1>3, <2>1, <2>2, <2>3 DEF Read, Write
<1>4. CASE \E t \in Openers : Open(t) \/ OpenBusy(t) \/ Release(t)
  BY <1>1, <1>4 DEF Open, OpenBusy, Release
<1>5. QED
  BY <1>1, <1>2, <1>3, <1>4 DEF Next, vars

(* Their updates of cursize keep it within the page here too.              *)
THEOREM CountStaysInRange ==
  ASSUME NEW r, NEW w, r # w, Readers = {r}, Writers = {w}
  PROVE  Spec => []CountInRange
<1>1. Init => TypeInv /\ CountInv(r, w)
  <2>1. Init => CountInv(r, w)
    BY RingAssumption DEF Init, RingInit, CountInv, Tasks, WritePCs, Taking,
       Adding
  <2>2. QED
    BY <2>1, TypeInit
<1>2. TypeInv /\ CountInv(r, w) /\ [Next]_vars
        => (TypeInv /\ CountInv(r, w))'
  BY TypeStep, CountStep
<1>3. CountInv(r, w) => CountInRange
  BY DEF CountInv, CountInRange
<1>4. QED
  BY <1>1, <1>2, <1>3, PTL DEF Spec
=============================================================================
