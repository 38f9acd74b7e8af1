----------------------------- MODULE Ring_proofs -----------------------------
(***************************************************************************)
(* Facts about the arithmetic of the ring and about its two index fields,  *)
(* with one reader and one writer and with a lone task.                    *)
(***************************************************************************)
EXTENDS Ring, TLAPS

(* C's remainder of a number that is at least -1 is at least -1 and below  *)
(* the modulus.                                                            *)
LEMMA CModRange ==
  ASSUME NEW m \in Nat \ {0}, NEW a \in Int, a >= -1
  PROVE  CMod(a, m) \in -1 .. m - 1 /\ (a >= 0 => CMod(a, m) \in 0 .. m - 1)
<1>1. CASE a >= 0
  <2>1. a % m \in 0 .. m - 1
    BY <1>1
  <2>2. QED
    BY <1>1, <2>1 DEF CMod
<1>2. CASE a = -1
  <2>1. CMod(a, m) = -(1 % m)
    BY <1>2 DEF CMod
  <2>2. CASE m = 1
    BY <1>2, <2>1, <2>2
  <2>3. CASE m > 1
    <3>1. 1 % m = 1
      BY <2>3
    <3>2. QED
      BY <1>2, <2>1, <3>1
  <2>4. QED
    BY <2>2, <2>3
<1>3. QED
  BY <1>1, <1>2

(* A clamped request is a natural number, at most what was asked for, and  *)
(* at most the limit when that is not negative.                            *)
LEMMA ClampRange ==
  ASSUME NEW n \in Nat, NEW lim \in Int
  PROVE  /\ ClampSize(n, lim) \in Nat
         /\ ClampSize(n, lim) <= n
         /\ lim >= 0 => ClampSize(n, lim) <= lim
         /\ lim > 0 /\ n > 0 => ClampSize(n, lim) > 0
BY DEF ClampSize

-----------------------------------------------------------------------------
(* The saved copy a task is about to update an index from is an index too. *)
IndexInv ==
  \A t \in Tasks :
    /\ pc[t] = "r_setstart" => tmp[t] \in Slots
    /\ pc[t] = "w_setend" => tmp[t] \in -1 .. MaxSize - 1

(* What a copy to the user delivers is a sequence of bytes.                *)
LEMMA BytesType ==
  ASSUME NEW i \in Nat, NEW k \in Nat, qbuf \in [Slots -> Data]
  PROVE  Bytes(i, k) \in Seq(Data \union {Beyond})
BY DEF Bytes

(* A return leaves the frame of the task empty and the others alone.       *)
LEMMA ReturnType ==
  ASSUME NEW pcs, RingPCs \subseteq pcs, RingTypeOK(pcs), IndexInv,
         NEW t \in Tasks, Return(t)
  PROVE  /\ pc' \in [Tasks -> pcs]
         /\ len' \in [Tasks -> Nat]
         /\ size' \in [Tasks -> Nat]
         /\ len1' \in [Tasks -> Nat]
         /\ tmp' \in [Tasks -> Int]
         /\ got' \in [Tasks -> Seq(Data \union {Beyond})]
         /\ IndexInv'
<1>1. "idle" \in pcs
  BY DEF RingPCs
<1>2. << >> \in Seq(Data \union {Beyond})
  OBVIOUS
<1>3. /\ pc' \in [Tasks -> pcs] /\ len' \in [Tasks -> Nat]
      /\ size' \in [Tasks -> Nat] /\ len1' \in [Tasks -> Nat]
      /\ tmp' \in [Tasks -> Int]
      /\ got' \in [Tasks -> Seq(Data \union {Beyond})]
  BY <1>1, <1>2 DEF Return, RingTypeOK
<1>4. IndexInv'
  <2>1. ASSUME NEW u \in Tasks
        PROVE  /\ pc'[u] = "r_setstart" => tmp'[u] \in Slots
               /\ pc'[u] = "w_setend" => tmp'[u] \in -1 .. MaxSize - 1
    BY DEF Return, RingTypeOK, IndexInv
  <2>2. QED
    BY <2>1 DEF IndexInv, Slots
<1>5. QED
  BY <1>3, <1>4

(* A call that starts keeps the types.                                     *)
LEMMA EnterType ==
  ASSUME NEW pcs, RingTypeOK(pcs), IndexInv, NEW t \in Tasks,
         NEW n \in Nat, NEW first \in pcs,
         first \notin {"r_setstart", "w_setend"}, Enter(t, first, n)
  PROVE  (RingTypeOK(pcs) /\ IndexInv)'
BY DEF Enter, Goto, fields, RingTypeOK, IndexInv, Slots

(* Every step of the copies keeps the types and the two indices within the *)
(* page, for any number of tasks.                                          *)
LEMMA RingStepType ==
  ASSUME NEW pcs, RingPCs \subseteq pcs, RingTypeOK(pcs), IndexInv,
         NEW t \in Tasks,
         \/ ReadSize(t) \/ ReadCopies(t) \/ ReadFault(t)
         \/ WriteCopies(t) \/ WriteFault(t)
  PROVE  (RingTypeOK(pcs) /\ IndexInv)'
<1> USE RingAssumption
<1>1. CASE ReadSize(t)
  <2>1. ClampSize(len[t], cursize) \in Nat
    BY ClampRange DEF RingTypeOK
  <2>2. QED
    BY <1>1, <2>1 DEF ReadSize, Goto, fields, RingTypeOK, IndexInv, RingPCs,
       WritePCs
<1>2. CASE ReadCopyOnce(t)
  <2>1. Bytes(0, size[t]) \in Seq(Data \union {Beyond})
    BY BytesType DEF RingTypeOK
  <2>2. QED
    BY <1>2, <2>1 DEF ReadCopyOnce, Goto, fields, RingTypeOK, IndexInv, RingPCs,
       WritePCs
<1>3. CASE ReadCopyTail(t)
  <2>1. MaxSize - start \in Nat /\ start \in Nat
    BY DEF RingTypeOK, Slots
  <2>2. Bytes(start, MaxSize - start) \in Seq(Data \union {Beyond})
    BY <2>1, BytesType DEF RingTypeOK
  <2>3. QED
    BY <1>3, <2>1, <2>2 DEF ReadCopyTail, Goto, fields, RingTypeOK, IndexInv,
       RingPCs, WritePCs
<1>4. CASE ReadCopyFront(t)
  <2>1. size[t] - len1[t] \in Nat
    BY <1>4 DEF ReadCopyFront, RingTypeOK
  <2>2. Bytes(0, size[t] - len1[t]) \in Seq(Data \union {Beyond})
    BY <2>1, BytesType DEF RingTypeOK
  <2>3. got[t] \o Bytes(0, size[t] - len1[t]) \in Seq(Data \union {Beyond})
    BY <2>2 DEF RingTypeOK
  <2>4. QED
    BY <1>4, <2>3 DEF ReadCopyFront, Goto, fields, RingTypeOK, IndexInv, RingPCs,
       WritePCs
<1>5. CASE ReadRefused(t)
  <2>1. Return(t)
    BY <1>5 DEF ReadRefused
  <2>2. /\ qbuf' \in [Slots -> Data] /\ start' \in Slots
        /\ end' \in -1 .. MaxSize - 1 /\ cursize' \in Int
    BY <1>5 DEF ReadRefused, RingTypeOK, fields
  <2>3. QED
    BY <2>1, <2>2, ReturnType DEF RingTypeOK
<1>6. CASE ReadFault(t)
  <2>1. Return(t)
    BY <1>6 DEF ReadFault
  <2>2. /\ qbuf' \in [Slots -> Data] /\ start' \in Slots
        /\ end' \in -1 .. MaxSize - 1 /\ cursize' \in Int
    BY <1>6 DEF ReadFault, RingTypeOK, fields
  <2>3. QED
    BY <2>1, <2>2, ReturnType DEF RingTypeOK
<1>7. CASE ReadLoadStart(t)
  BY <1>7 DEF ReadLoadStart, Goto, fields, frame, RingTypeOK, IndexInv,
     RingPCs, WritePCs, Slots
<1>8. CASE ReadStoreStart(t)
  <2>1. tmp[t] + size[t] \in Int /\ tmp[t] + size[t] >= 0
    BY <1>8 DEF ReadStoreStart, Goto, IndexInv, RingTypeOK, Slots
  <2>2. CMod(tmp[t] + size[t], MaxSize) \in Slots
    BY <2>1, CModRange DEF Slots
  <2>3. QED
    BY <1>8, <2>2 DEF ReadStoreStart, Goto, frame, RingTypeOK, IndexInv, RingPCs,
       WritePCs
<1>9. CASE ReadLoadCount(t)
  BY <1>9 DEF ReadLoadCount, Goto, fields, frame, RingTypeOK, IndexInv,
     RingPCs, WritePCs, Slots
<1>10. CASE ReadStoreCount(t)
  <2>1. Return(t)
    BY <1>10 DEF ReadStoreCount
  <2>2. /\ qbuf' \in [Slots -> Data] /\ start' \in Slots
        /\ end' \in -1 .. MaxSize - 1 /\ cursize' \in Int
    BY <1>10 DEF ReadStoreCount, RingTypeOK, fields
  <2>3. QED
    BY <2>1, <2>2, ReturnType DEF RingTypeOK
<1>11. CASE WriteSpace(t)
  <2>1. len[t] \in Nat /\ MaxSize - cursize \in Int
    BY DEF RingTypeOK
  <2>2. ClampSize(len[t], MaxSize - cursize) \in Nat
    BY <2>1, ClampRange
  <2>3. QED
    BY <1>11, <2>2 DEF WriteSpace, Goto, fields, RingTypeOK, IndexInv, RingPCs,
       WritePCs
<1>12. CASE WriteFull(t)
  <2>1. Return(t)
    BY <1>12 DEF WriteFull
  <2>2. /\ qbuf' \in [Slots -> Data] /\ start' \in Slots
        /\ end' \in -1 .. MaxSize - 1 /\ cursize' \in Int
    BY <1>12 DEF WriteFull, RingTypeOK, fields
  <2>3. QED
    BY <2>1, <2>2, ReturnType DEF RingTypeOK
<1>13. CASE WriteCopyOnce(t)
  <2>1. qbuf' \in [Slots -> Data]
    BY <1>13 DEF WriteCopyOnce, CopyIn
  <2>2. QED
    BY <1>13, <2>1 DEF WriteCopyOnce, Goto, frame, RingTypeOK, IndexInv, RingPCs,
       WritePCs
<1>14. CASE WriteCopyTail(t)
  <2>1. qbuf' \in [Slots -> Data]
    BY <1>14 DEF WriteCopyTail, CopyIn
  <2>2. MaxSize - 1 - end \in Nat
    BY DEF RingTypeOK
  <2>3. QED
    BY <1>14, <2>1, <2>2 DEF WriteCopyTail, Goto, RingTypeOK, IndexInv, RingPCs,
       WritePCs
<1>15. CASE WriteCopyFront(t)
  <2>1. qbuf' \in [Slots -> Data]
    BY <1>15 DEF WriteCopyFront, CopyIn
  <2>2. QED
    BY <1>15, <2>1 DEF WriteCopyFront, Goto, frame, RingTypeOK, IndexInv, RingPCs,
       WritePCs
<1>16. CASE WriteFault(t)
  <2>1. Return(t)
    BY <1>16 DEF WriteFault
  <2>2. /\ qbuf' \in [Slots -> Data] /\ start' \in Slots
        /\ end' \in -1 .. MaxSize - 1 /\ cursize' \in Int
    BY <1>16 DEF WriteFault, RingTypeOK, fields, CopyIn
  <2>3. QED
    BY <2>1, <2>2, ReturnType DEF RingTypeOK
<1>17. CASE WriteLoadEnd(t)
  BY <1>17 DEF WriteLoadEnd, Goto, fields, frame, RingTypeOK, IndexInv,
     RingPCs, WritePCs, Slots
<1>18. CASE WriteStoreEnd(t)
  <2>1. tmp[t] + size[t] \in Int /\ tmp[t] + size[t] >= -1
    BY <1>18 DEF WriteStoreEnd, Goto, IndexInv, RingTypeOK
  <2>2. CMod(tmp[t] + size[t], MaxSize) \in -1 .. MaxSize - 1
    BY <2>1, CModRange
  <2>3. QED
    BY <1>18, <2>2 DEF WriteStoreEnd, Goto, frame, RingTypeOK, IndexInv, RingPCs,
       WritePCs
<1>19. CASE WriteLoadCount(t)
  BY <1>19 DEF WriteLoadCount, Goto, fields, frame, RingTypeOK, IndexInv,
     RingPCs, WritePCs, Slots
<1>20. CASE WriteStoreCount(t)
  BY <1>20 DEF WriteStoreCount, Goto, fields, frame, RingTypeOK, IndexInv,
     RingPCs, WritePCs, Slots
<1>21. QED
  BY <1>1, <1>2, <1>3, <1>4, <1>5, <1>6, <1>7, <1>8, <1>9, <1>10, <1>11, <1>12, <1>13, <1>14, <1>15, <1>16, <1>17, <1>18, <1>19, <1>20 DEF ReadCopies, WriteCopies

-----------------------------------------------------------------------------
(* One reading task r and one writing task w.  Each of them only lets the  *)
(* other's limit grow: w raises cursize, r lowers it, also when it stores  *)
(* a value computed from an old load.  So what r may take is at most the   *)
(* count, what w may add at most the space, from the time each size was    *)
(* computed until its update of the count is stored.                       *)
Taking == {"r_copy1", "r_copy2", "r_start", "r_setstart", "r_load"}
Adding == {"w_copy1", "w_copy2", "w_end", "w_setend", "w_load"}

CountInv(r, w) ==
  /\ cursize \in 0 .. MaxSize
  /\ pc[r] \notin WritePCs
  /\ pc[w] \in {"idle"} \union WritePCs
  /\ pc[r] \in Taking => size[r] <= cursize
  /\ pc[r] = "r_store" => size[r] <= tmp[r] /\ tmp[r] <= cursize
  /\ pc[w] \in Adding => size[w] <= MaxSize - cursize
  /\ pc[w] = "w_store" => tmp[w] + size[w] <= MaxSize /\ cursize <= tmp[w]

(* A step of the reader preserves the relation of both sizes to the count. *)
LEMMA ReaderCount ==
  ASSUME NEW pcs, RingTypeOK(pcs), NEW r \in Tasks, NEW w \in Tasks, r # w,
         CountInv(r, w), ReadSize(r) \/ ReadCopies(r) \/ ReadFault(r)
  PROVE  CountInv(r, w)'
<1> USE RingAssumption
<1>1. CASE ReadSize(r)
  <2>1. ClampSize(len[r], cursize) <= cursize
    BY ClampRange DEF RingTypeOK, CountInv
  <2>2. QED
    BY <1>1, <2>1 DEF ReadSize, Goto, fields, CountInv, RingTypeOK, WritePCs,
       Taking, Adding
<1>2. CASE ReadCopyOnce(r) \/ ReadCopyTail(r) \/ ReadCopyFront(r)
  <2>1. CASE ReadCopyOnce(r)
    BY <2>1 DEF ReadCopyOnce, Goto, fields, CountInv, RingTypeOK, WritePCs,
       Taking, Adding
  <2>2. CASE ReadCopyTail(r)
    BY <2>2 DEF ReadCopyTail, Goto, fields, CountInv, RingTypeOK, WritePCs,
       Taking, Adding
  <2>3. CASE ReadCopyFront(r)
    BY <2>3 DEF ReadCopyFront, Goto, fields, CountInv, RingTypeOK, WritePCs,
       Taking, Adding
  <2>4. QED
    BY <1>2, <2>1, <2>2, <2>3
<1>3. CASE ReadRefused(r) \/ ReadFault(r)
  BY <1>3 DEF ReadRefused, ReadFault, Return, fields, CountInv, RingTypeOK,
     WritePCs, Taking, Adding
<1>4. CASE ReadLoadStart(r) \/ ReadStoreStart(r) \/ ReadLoadCount(r)
  <2>1. CASE ReadLoadStart(r)
    BY <2>1 DEF ReadLoadStart, Goto, fields, CountInv, RingTypeOK, WritePCs,
       Taking, Adding
  <2>2. CASE ReadStoreStart(r)
    BY <2>2 DEF ReadStoreStart, Goto, frame, CountInv, RingTypeOK, WritePCs,
       Taking, Adding
  <2>3. CASE ReadLoadCount(r)
    BY <2>3 DEF ReadLoadCount, Goto, fields, CountInv, RingTypeOK, WritePCs,
       Taking, Adding
  <2>4. QED
    BY <1>4, <2>1, <2>2, <2>3
<1>5. CASE ReadStoreCount(r)
  BY <1>5 DEF ReadStoreCount, Return, CountInv, RingTypeOK, WritePCs, Taking,
     Adding
<1>6. QED
  BY <1>1, <1>2, <1>3, <1>4, <1>5 DEF ReadCopies

(* A step of the writer does so too.                                       *)
LEMMA WriterCount ==
  ASSUME NEW pcs, RingTypeOK(pcs), NEW r \in Tasks, NEW w \in Tasks, r # w,
         CountInv(r, w), WriteCopies(w) \/ WriteFault(w)
  PROVE  CountInv(r, w)'
<1> USE RingAssumption
<1>1. CASE WriteSpace(w)
  <2>1. /\ len[w] \in Nat /\ MaxSize - cursize \in Int
        /\ MaxSize - cursize >= 0
    BY DEF RingTypeOK, CountInv
  <2>2. ClampSize(len[w], MaxSize - cursize) <= MaxSize - cursize
    BY <2>1, ClampRange
  <2>3. QED
    BY <1>1, <2>2 DEF WriteSpace, Goto, fields, CountInv, RingTypeOK,
       WritePCs, Taking, Adding
<1>2. CASE WriteFull(w)
  BY <1>2 DEF WriteFull, Return, fields, CountInv, RingTypeOK, WritePCs,
     Taking, Adding
<1>3. CASE WriteCopyOnce(w) \/ WriteCopyTail(w) \/ WriteCopyFront(w)
  <2>1. CASE WriteCopyOnce(w)
    BY <2>1 DEF WriteCopyOnce, Goto, frame, CountInv, RingTypeOK, WritePCs,
       Taking, Adding
  <2>2. CASE WriteCopyTail(w)
    BY <2>2 DEF WriteCopyTail, Goto, CountInv, RingTypeOK, WritePCs,
       Taking, Adding
  <2>3. CASE WriteCopyFront(w)
    BY <2>3 DEF WriteCopyFront, Goto, frame, CountInv, RingTypeOK, WritePCs,
       Taking, Adding
  <2>4. QED
    BY <1>3, <2>1, <2>2, <2>3
<1>4. CASE WriteFault(w)
  BY <1>4 DEF WriteFault, Return, CountInv, RingTypeOK, WritePCs, Taking,
     Adding
<1>5. CASE WriteLoadEnd(w) \/ WriteStoreEnd(w) \/ WriteLoadCount(w)
  <2>1. CASE WriteLoadEnd(w)
    BY <2>1 DEF WriteLoadEnd, Goto, fields, CountInv, RingTypeOK, WritePCs,
       Taking, Adding
  <2>2. CASE WriteStoreEnd(w)
    BY <2>2 DEF WriteStoreEnd, Goto, frame, CountInv, RingTypeOK, WritePCs,
       Taking, Adding
  <2>3. CASE WriteLoadCount(w)
    BY <2>3 DEF WriteLoadCount, Goto, fields, CountInv, RingTypeOK, WritePCs,
       Taking, Adding
  <2>4. QED
    BY <1>5, <2>1, <2>2, <2>3
<1>6. CASE WriteStoreCount(w)
  BY <1>6 DEF WriteStoreCount, Goto, frame, CountInv, RingTypeOK, WritePCs,
     Taking, Adding
<1>7. QED
  BY <1>1, <1>2, <1>3, <1>4, <1>5, <1>6 DEF WriteCopies

(* Neither of them makes a step of the other's kind.                       *)
LEMMA OwnSteps ==
  ASSUME NEW r, NEW w, CountInv(r, w)
  PROVE  /\ ~(WriteCopies(r) \/ WriteFault(r))
         /\ ~(ReadSize(w) \/ ReadCopies(w) \/ ReadFault(w))
<1>1. ~(WriteCopies(r) \/ WriteFault(r))
  BY DEF CountInv, WritePCs, WriteCopies, WriteFault, WriteSpace, WriteFull,
     WriteCopyOnce, WriteCopyTail, WriteCopyFront, WriteLoadEnd,
     WriteStoreEnd, WriteLoadCount, WriteStoreCount, Goto
<1>2. ~(ReadSize(w) \/ ReadCopies(w) \/ ReadFault(w))
  BY DEF CountInv, WritePCs, ReadSize, ReadCopies, ReadFault, ReadCopyOnce,
     ReadCopyTail, ReadCopyFront, ReadRefused, ReadLoadStart, ReadStoreStart,
     ReadLoadCount, ReadStoreCount, Goto
<1>3. QED
  BY <1>1, <1>2

(* Then no copy leaves the page.                                           *)
LEMMA CountKeepsCopiesInPage ==
  ASSUME NEW pcs, RingTypeOK(pcs), NEW r, NEW w, Tasks = {r, w},
         CountInv(r, w)
  PROVE  CopiesStayInPage
<1>1. ASSUME NEW t \in Tasks
      PROVE  pc[t] \in {"r_copy1", "r_copy2", "w_copy2"} => size[t] <= MaxSize
  BY RingAssumption DEF CountInv, RingTypeOK, Taking, Adding, WritePCs
<1>2. QED
  BY <1>1, RingAssumption DEF CopiesStayInPage, RingTypeOK
-----------------------------------------------------------------------------
(* Calls that do not overlap: the steps of one task t, alone.              *)

(* A remainder below twice the modulus.                                    *)
LEMMA ModBelowTwice ==
  ASSUME NEW m \in Nat \ {0}, NEW a \in 0 .. 2 * m - 1
  PROVE  a % m = IF a < m THEN a ELSE a - m
<1>1. CASE a < m
  BY <1>1
<1>2. CASE a >= m
  <2>1. a = 1 * m + (a - m) /\ a - m \in 0 .. m - 1
    BY <1>2
  <2>2. a % m = a - m
    BY <2>1, Z3
  <2>3. QED
    BY <1>2, <2>2
<1>3. QED
  BY <1>1, <1>2

(* C's remainder of an index and a size moves by whole pages.              *)
LEMMA CModShift ==
  ASSUME NEW m \in Nat \ {0}, NEW a \in -1 .. 2 * m - 1
  PROVE  CMod(a, m) - a \in {-m, 0, m} /\ CMod(a, m) \in -1 .. m - 1
<1>1. CASE a >= 0
  <2>0. a \in 0 .. 2 * m - 1
    BY <1>1
  <2>1. a % m = IF a < m THEN a ELSE a - m
    BY <2>0, ModBelowTwice
  <2>2. CMod(a, m) = IF a < m THEN a ELSE a - m
    BY <1>1, <2>1 DEF CMod
  <2>3. QED
    BY <1>1, <2>2
<1>2. CASE a = -1
  <2>1. CMod(a, m) = -(1 % m)
    BY <1>2 DEF CMod
  <2>2. CASE m = 1
    <3>1. 1 % m = 0
      BY <2>2
    <3>2. QED
      BY <1>2, <2>1, <2>2, <3>1
  <2>3. CASE m > 1
    <3>1. 1 % m = 1
      BY <2>3
    <3>2. QED
      BY <1>2, <2>1, <3>1, <2>3
  <2>4. QED
    BY <2>2, <2>3
<1>3. QED
  BY <1>1, <1>2

(* Counting n bytes on from start leads to the slot after end.             *)
Leads(n) == (start + n) - (end + 1) \in {-MaxSize, 0, MaxSize}

(* What a call may move is there, and there is room for what it adds.      *)
SerialSizes(t) ==
  /\ cursize \in 0 .. MaxSize
  /\ pc[t] \in Taking \union {"r_store"} => size[t] <= cursize
  /\ pc[t] \in Adding \union {"w_store"} => size[t] <= MaxSize - cursize

(* Between two copies.                                                     *)
SerialCopies(t) ==
  /\ pc[t] = "r_copy2" => /\ start > end
                          /\ len1[t] = MaxSize - start
                          /\ got[t] = Bytes(start, MaxSize - start)
  /\ pc[t] = "w_copy2" => len1[t] = MaxSize - 1 - end /\ len1[t] < size[t]

(* What was loaded is what the field still holds.                          *)
SerialLoads(t) ==
  /\ pc[t] = "r_setstart" => tmp[t] = start
  /\ pc[t] = "w_setend" => tmp[t] = end
  /\ pc[t] \in {"r_store", "w_store"} => tmp[t] = cursize

(* The fields agree, up to the size of the call whose index is stored and  *)
(* whose count is not.                                                     *)
SerialLeads(t) ==
  /\ pc[t] \in {"r_load", "r_store"} => Leads(cursize - size[t])
  /\ pc[t] \in {"w_load", "w_store"} => Leads(cursize + size[t])
  /\ pc[t] \notin {"r_load", "r_store", "w_load", "w_store"} => Leads(cursize)

SerialInv(t) ==
  SerialSizes(t) /\ SerialCopies(t) /\ SerialLoads(t) /\ SerialLeads(t)

(* What a returning call leaves agrees.                                    *)
LEMMA SerialReturn ==
  ASSUME NEW pcs, RingTypeOK(pcs), NEW t \in Tasks, Return(t),
         (cursize \in 0 .. MaxSize /\ Leads(cursize))'
  PROVE  SerialInv(t)'
<1>1. pc'[t] = "idle"
  BY DEF Return, RingTypeOK
<1>2. QED
  BY <1>1 DEF SerialInv, SerialSizes, SerialCopies, SerialLoads, SerialLeads,
     Taking, Adding

(* The steps of a read.                                                    *)
LEMMA SerialRead ==
  ASSUME NEW pcs, RingTypeOK(pcs), NEW t \in Tasks, SerialInv(t),
         ReadSize(t) \/ ReadCopies(t) \/ ReadFault(t)
  PROVE  SerialInv(t)'
<1> USE RingAssumption DEF SerialInv
<1>1. CASE ReadSize(t)
  <2>1. ClampSize(len[t], cursize) <= cursize
    BY ClampRange DEF RingTypeOK, SerialSizes
  <2>2. QED
    BY <1>1, <2>1 DEF ReadSize, Goto, fields, RingTypeOK, SerialSizes,
       SerialCopies, SerialLoads, SerialLeads, Leads, Taking, Adding
<1>2. CASE ReadCopyOnce(t)
  BY <1>2 DEF ReadCopyOnce, Goto, fields, RingTypeOK, SerialSizes,
     SerialCopies, SerialLoads, SerialLeads, Leads, Taking, Adding
<1>3. CASE ReadCopyTail(t)
  <2>1. /\ pc[t] = "r_copy1" /\ pc'[t] = "r_copy2" /\ size' = size
        /\ start > end /\ UNCHANGED fields
        /\ len1'[t] = MaxSize - start
        /\ got'[t] = Bytes(start, MaxSize - start)
    BY <1>3 DEF ReadCopyTail, Goto, RingTypeOK
  <2>2. Bytes(start, MaxSize - start)' = Bytes(start, MaxSize - start)
    BY <2>1 DEF Bytes, fields
  <2>3. SerialCopies(t)'
    BY <2>1, <2>2 DEF SerialCopies, fields
  <2>4. (SerialSizes(t) /\ SerialLoads(t) /\ SerialLeads(t))'
    BY <2>1 DEF fields, SerialSizes, SerialLoads, SerialLeads, Leads, Taking,
       Adding
  <2>5. QED
    BY <2>3, <2>4
<1>4. CASE ReadCopyFront(t)
  BY <1>4 DEF ReadCopyFront, Goto, fields, RingTypeOK, SerialSizes,
     SerialCopies, SerialLoads, SerialLeads, Leads, Taking, Adding
<1>5. CASE ReadRefused(t) \/ ReadFault(t)
  <2>1. Return(t) /\ UNCHANGED fields /\ pc[t] \in {"r_copy1", "r_copy2"}
    BY <1>5 DEF ReadRefused, ReadFault
  <2>2. (cursize \in 0 .. MaxSize /\ Leads(cursize))'
    BY <2>1 DEF fields, SerialSizes, SerialLeads, Leads
  <2>3. QED
    BY <2>1, <2>2, SerialReturn
<1>6. CASE ReadLoadStart(t)
  BY <1>6 DEF ReadLoadStart, Goto, fields, RingTypeOK, SerialSizes,
     SerialCopies, SerialLoads, SerialLeads, Leads, Taking, Adding
<1>7. CASE ReadStoreStart(t)
  <2>1. /\ pc[t] = "r_setstart" /\ pc'[t] = "r_load" /\ size' = size
        /\ end' = end /\ cursize' = cursize
        /\ start' = CMod(start + size[t], MaxSize)
    BY <1>7 DEF ReadStoreStart, Goto, frame, RingTypeOK, SerialLoads
  <2>2. /\ start \in 0 .. MaxSize - 1 /\ size[t] \in 0 .. MaxSize
        /\ size[t] <= cursize /\ cursize \in 0 .. MaxSize
        /\ end \in -1 .. MaxSize - 1
    BY <2>1 DEF RingTypeOK, Slots, SerialSizes, Taking
  <2>3. /\ start' - (start + size[t]) \in {-MaxSize, 0, MaxSize}
        /\ start' \in 0 .. MaxSize - 1
    <3>1. start + size[t] \in 0 .. 2 * MaxSize - 1
      BY <2>2
    <3>2. QED
      BY <2>1, <3>1, CModShift, CModRange
  <2>4. Leads(cursize)
    BY <2>1 DEF SerialLeads
  <2>5. Leads(cursize - size[t])'
    BY <2>1, <2>2, <2>3, <2>4 DEF Leads
  <2>6. QED
    BY <2>1, <2>2, <2>5 DEF SerialSizes, SerialCopies, SerialLoads,
       SerialLeads, Taking, Adding
<1>8. CASE ReadLoadCount(t)
  BY <1>8 DEF ReadLoadCount, Goto, fields, RingTypeOK, SerialSizes,
     SerialCopies, SerialLoads, SerialLeads, Leads, Taking, Adding
<1>9. CASE ReadStoreCount(t)
  <2>1. /\ Return(t) /\ pc[t] = "r_store" /\ cursize' = cursize - size[t]
        /\ start' = start /\ end' = end
    BY <1>9 DEF ReadStoreCount, SerialLoads
  <2>2. size[t] \in Nat /\ size[t] <= cursize /\ cursize \in 0 .. MaxSize
    BY <2>1 DEF RingTypeOK, SerialSizes
  <2>3. (cursize \in 0 .. MaxSize /\ Leads(cursize))'
    BY <2>1, <2>2 DEF SerialLeads, Leads
  <2>4. QED
    BY <2>1, <2>3, SerialReturn
<1>10. QED
  BY <1>1, <1>2, <1>3, <1>4, <1>5, <1>6, <1>7, <1>8, <1>9 DEF ReadCopies

(* The steps of a write.                                                   *)
LEMMA SerialWrite ==
  ASSUME NEW pcs, RingTypeOK(pcs), NEW t \in Tasks, SerialInv(t),
         WriteCopies(t) \/ WriteFault(t)
  PROVE  SerialInv(t)'
<1> USE RingAssumption DEF SerialInv
<1>1. CASE WriteSpace(t)
  <2>1. /\ len[t] \in Nat /\ MaxSize - cursize \in Int
        /\ MaxSize - cursize >= 0
    BY DEF RingTypeOK, SerialSizes
  <2>2. ClampSize(len[t], MaxSize - cursize) <= MaxSize - cursize
    BY <2>1, ClampRange
  <2>3. QED
    BY <1>1, <2>2 DEF WriteSpace, Goto, fields, RingTypeOK, SerialSizes,
       SerialCopies, SerialLoads, SerialLeads, Leads, Taking, Adding
<1>2. CASE WriteFull(t) \/ WriteFault(t)
  <2>1. /\ Return(t) /\ pc[t] \in {"w_space", "w_copy1", "w_copy2"}
        /\ start' = start /\ end' = end /\ cursize' = cursize
    BY <1>2 DEF WriteFull, WriteFault, fields
  <2>2. (cursize \in 0 .. MaxSize /\ Leads(cursize))'
    BY <2>1 DEF SerialSizes, SerialLeads, Leads
  <2>3. QED
    BY <2>1, <2>2, SerialReturn
<1>3. CASE WriteCopyOnce(t)
  BY <1>3 DEF WriteCopyOnce, Goto, frame, RingTypeOK, SerialSizes,
     SerialCopies, SerialLoads, SerialLeads, Leads, Taking, Adding
<1>4. CASE WriteCopyTail(t)
  <2>1. /\ pc[t] = "w_copy1" /\ pc'[t] = "w_copy2" /\ size' = size
        /\ start' = start /\ end' = end /\ cursize' = cursize
        /\ len1'[t] = MaxSize - 1 - end /\ MaxSize - 1 - end < size[t]
    BY <1>4 DEF WriteCopyTail, Goto, RingTypeOK
  <2>2. QED
    BY <2>1 DEF SerialSizes, SerialCopies, SerialLoads, SerialLeads, Leads,
       Taking, Adding
<1>5. CASE WriteCopyFront(t)
  BY <1>5 DEF WriteCopyFront, Goto, frame, RingTypeOK, SerialSizes,
     SerialCopies, SerialLoads, SerialLeads, Leads, Taking, Adding
<1>6. CASE WriteLoadEnd(t)
  BY <1>6 DEF WriteLoadEnd, Goto, fields, RingTypeOK, SerialSizes,
     SerialCopies, SerialLoads, SerialLeads, Leads, Taking, Adding
<1>7. CASE WriteStoreEnd(t)
  <2>1. /\ pc[t] = "w_setend" /\ pc'[t] = "w_load" /\ size' = size
        /\ start' = start /\ cursize' = cursize
        /\ end' = CMod(end + size[t], MaxSize)
    BY <1>7 DEF WriteStoreEnd, Goto, frame, RingTypeOK, SerialLoads
  <2>2. /\ start \in 0 .. MaxSize - 1 /\ size[t] \in 0 .. MaxSize
        /\ size[t] <= MaxSize - cursize /\ cursize \in 0 .. MaxSize
        /\ end \in -1 .. MaxSize - 1
    BY <2>1 DEF RingTypeOK, Slots, SerialSizes, Adding
  <2>3. /\ end' - (end + size[t]) \in {-MaxSize, 0, MaxSize}
        /\ end' \in -1 .. MaxSize - 1
    <3>1. end + size[t] \in -1 .. 2 * MaxSize - 1
      BY <2>2
    <3>2. /\ CMod(end + size[t], MaxSize) - (end + size[t])
               \in {-MaxSize, 0, MaxSize}
          /\ CMod(end + size[t], MaxSize) \in -1 .. MaxSize - 1
      BY <3>1, CModShift, Zenon
    <3>3. QED
      BY <2>1, <3>2
  <2>4. Leads(cursize)
    BY <2>1 DEF SerialLeads
  <2>5. Leads(cursize + size[t])'
    <3>1. PICK i \in {-MaxSize, 0, MaxSize} :
            (start + cursize) - (end + 1) = i
      BY <2>4, <2>2 DEF Leads
    <3>2. PICK j \in {-MaxSize, 0, MaxSize} : end' - (end + size[t]) = j
      BY <2>3
    <3>3. (start + (cursize + size[t])) - (end' + 1) = i - j
      BY <2>2, <2>3, <3>1, <3>2
    <3>4. i - j >= -MaxSize /\ i - j < 2 * MaxSize
      BY <2>2, <2>3, <3>3
    <3>5. i - j \in {-MaxSize, 0, MaxSize}
      BY <3>1, <3>2, <3>4
    <3>6. QED
      BY <2>1, <3>3, <3>5 DEF Leads
  <2>6. QED
    BY <2>1, <2>2, <2>5 DEF SerialSizes, SerialCopies, SerialLoads,
       SerialLeads, Taking, Adding
<1>8. CASE WriteLoadCount(t)
  BY <1>8 DEF WriteLoadCount, Goto, fields, RingTypeOK, SerialSizes,
     SerialCopies, SerialLoads, SerialLeads, Leads, Taking, Adding
<1>9. CASE WriteStoreCount(t)
  <2>1. /\ pc[t] = "w_store" /\ pc'[t] = "w_done"
        /\ cursize' = cursize + size[t] /\ start' = start /\ end' = end
    BY <1>9 DEF WriteStoreCount, Goto, RingTypeOK, SerialLoads
  <2>2. /\ size[t] \in Nat /\ size[t] <= MaxSize - cursize
        /\ cursize \in 0 .. MaxSize
    BY <2>1 DEF RingTypeOK, SerialSizes, Adding
  <2>3. (cursize \in 0 .. MaxSize /\ Leads(cursize))'
    BY <2>1, <2>2 DEF SerialLeads, Leads
  <2>4. QED
    BY <2>1, <2>3 DEF SerialSizes, SerialCopies, SerialLoads, SerialLeads,
       Taking, Adding
<1>10. QED
  BY <1>1, <1>2, <1>3, <1>4, <1>5, <1>6, <1>7, <1>8, <1>9 DEF WriteCopies
=============================================================================
