-------------------------------- MODULE Ring --------------------------------
(***************************************************************************)
(* The ring of bytes that fifo_blocked/fifo.c and fifo_atomic/fifo.c have  *)
(* in common: the copies and updates of a read and of a write, once they   *)
(* know how much they may move.  Nothing locks the ring, so the calls of   *)
(* different tasks interleave at every access to start, end and cursize,   *)
(* and each update of these is a load followed by a store.                 *)
(*                                                                         *)
(* pc[t] names the next access of the call task t is in, "idle" between    *)
(* calls.  One call of copy_to_user or copy_from_user is one step.  The    *)
(* drivers extend this module with what surrounds the copies.              *)
(***************************************************************************)
EXTENDS RingIndex, Sequences, FiniteSets

CONSTANTS Readers,     \* tasks that call read
          Writers,     \* tasks that call write (may overlap with Readers)
          MaxSize,     \* FIFO.maxsize, the bytes in the ring (one page)
          Lens,        \* the values of the argument n
          Data,        \* byte values
          Beyond       \* what a copy finds outside the page

ASSUME RingAssumption ==
  /\ MaxSize \in Nat \ {0}
  /\ Lens \subseteq Nat

Tasks == Readers \union Writers
Slots == 0 .. MaxSize - 1

VARIABLES qbuf, start, end, cursize,   \* the fields of FIFO
          pc, len, size, len1, tmp,    \* a call: program counter, n, locals
          got                          \* bytes the read has put at p

fields   == <<qbuf, start, end, cursize>>
frame    == <<len, size, len1, tmp, got>>
ringVars == <<qbuf, start, end, cursize, pc, len, size, len1, tmp, got>>

RingInit ==
  /\ qbuf \in [Slots -> Data]      \* __get_free_page does not clear the page
  /\ start = 0
  /\ end = -1
  /\ cursize = 0
  /\ pc   = [t \in Tasks |-> "idle"]
  /\ len  = [t \in Tasks |-> 0]
  /\ size = [t \in Tasks |-> 0]
  /\ len1 = [t \in Tasks |-> 0]
  /\ tmp  = [t \in Tasks |-> 0]
  /\ got  = [t \in Tasks |-> <<>>]

Goto(t, from, to) == pc[t] = from /\ pc' = [pc EXCEPT ![t] = to]

(* The call starts at step `first', or returns and leaves no frame.        *)
Enter(t, first, n) ==
  /\ Goto(t, "idle", first)
  /\ len' = [len EXCEPT ![t] = n]
  /\ UNCHANGED <<fields, size, len1, tmp, got>>

Return(t) ==
  /\ pc'   = [pc   EXCEPT ![t] = "idle"]
  /\ len'  = [len  EXCEPT ![t] = 0]
  /\ size' = [size EXCEPT ![t] = 0]
  /\ len1' = [len1 EXCEPT ![t] = 0]
  /\ tmp'  = [tmp  EXCEPT ![t] = 0]
  /\ got'  = [got  EXCEPT ![t] = <<>>]

-----------------------------------------------------------------------------
(* fifo_read from the computation of size on.                              *)

(* Mutant: the request is not cut down to what there is.                   *)
ReadSizeUncut(t) ==
  /\ Goto(t, "r_size", "r_copy1")
  /\ size' = [size EXCEPT ![t] = len[t]]
  /\ UNCHANGED <<fields, len, len1, tmp, got>>

ReadSize(t) ==
  /\ Goto(t, "r_size", "r_copy1")
  /\ size' = [size EXCEPT ![t] = ClampSize(len[t], cursize)]
  /\ UNCHANGED <<fields, len, len1, tmp, got>>

(* The k bytes copy_to_user finds from slot i on.                          *)
Bytes(i, k) ==
  [j \in 1 .. k |-> IF i + j - 1 \in Slots THEN qbuf[i + j - 1] ELSE Beyond]

(* start <= end: the code copies from the beginning of the page.           *)
ReadCopyOnce(t) ==
  /\ start <= end
  /\ Goto(t, "r_copy1", "r_start")
  /\ got' = [got EXCEPT ![t] = Bytes(0, size[t])]
  /\ UNCHANGED <<fields, len, size, len1, tmp>>

(* start > end: everything up to the end of the page, however little was   *)
(* asked for, ...                                                          *)
ReadCopyTail(t) ==
  /\ start > end
  /\ Goto(t, "r_copy1", "r_copy2")
  /\ len1' = [len1 EXCEPT ![t] = MaxSize - start]
  /\ got'  = [got EXCEPT ![t] = Bytes(start, MaxSize - start)]
  /\ UNCHANGED <<fields, len, size, tmp>>

(* Mutant: the second copy starts where the first one did.                 *)
ReadCopyFrontAtStart(t) ==
  /\ size[t] >= len1[t]
  /\ Goto(t, "r_copy2", "r_start")
  /\ got' = [got EXCEPT ![t] = @ \o Bytes(start, size[t] - len1[t])]
  /\ UNCHANGED <<fields, len, size, len1, tmp>>

(* ... then the rest from the front; a negative rest is a huge size_t,     *)
(* which copy_to_user refuses: -EINVAL, and nothing is updated.            *)
ReadCopyFront(t) ==
  /\ size[t] >= len1[t]
  /\ Goto(t, "r_copy2", "r_start")
  /\ got' = [got EXCEPT ![t] = @ \o Bytes(0, size[t] - len1[t])]
  /\ UNCHANGED <<fields, len, size, len1, tmp>>

ReadRefused(t) ==
  /\ pc[t] = "r_copy2" /\ size[t] < len1[t]
  /\ Return(t)
  /\ UNCHANGED fields

(* A copy to p may fault: -EINVAL, nothing is updated.                     *)
ReadFault(t) ==
  /\ pc[t] \in {"r_copy1", "r_copy2"}
  /\ Return(t)
  /\ UNCHANGED fields

(* start = (start + size) % maxsize.                                       *)
ReadLoadStart(t) ==
  /\ Goto(t, "r_start", "r_setstart")
  /\ tmp' = [tmp EXCEPT ![t] = start]
  /\ UNCHANGED <<fields, len, size, len1, got>>

(* Mutant: start moves by n, not by the bytes read.                        *)
ReadStoreStartByLen(t) ==
  /\ Goto(t, "r_setstart", "r_load")
  /\ start' = CMod(tmp[t] + len[t], MaxSize)
  /\ UNCHANGED <<qbuf, end, cursize, frame>>

(* Mutant: start is not reduced modulo the page.                           *)
ReadStoreStartUnwrapped(t) ==
  /\ Goto(t, "r_setstart", "r_load")
  /\ start' = tmp[t] + size[t]
  /\ UNCHANGED <<qbuf, end, cursize, frame>>

ReadStoreStart(t) ==
  /\ Goto(t, "r_setstart", "r_load")
  /\ start' = CMod(tmp[t] + size[t], MaxSize)
  /\ UNCHANGED <<qbuf, end, cursize, frame>>

(* cursize -= size.                                                        *)
ReadLoadCount(t) ==
  /\ Goto(t, "r_load", "r_store")
  /\ tmp' = [tmp EXCEPT ![t] = cursize]
  /\ UNCHANGED <<fields, len, size, len1, got>>

ReadStoreCount(t) ==
  /\ pc[t] = "r_store"
  /\ cursize' = tmp[t] - size[t]
  /\ Return(t)
  /\ UNCHANGED <<qbuf, start, end>>

ReadCopies(t) ==
  \/ ReadCopyOnce(t) \/ ReadCopyTail(t) \/ ReadCopyFront(t) \/ ReadRefused(t)
  \/ ReadLoadStart(t) \/ ReadStoreStart(t)
  \/ ReadLoadCount(t) \/ ReadStoreCount(t)

-----------------------------------------------------------------------------
(* fifo_write up to the update of cursize, which leaves the call at        *)
(* "w_done".                                                               *)

(* Mutant: the request is not cut down to the space.                       *)
WriteSpaceUncut(t) ==
  /\ cursize # MaxSize
  /\ Goto(t, "w_space", "w_copy1")
  /\ size' = [size EXCEPT ![t] = len[t]]
  /\ UNCHANGED <<fields, len, len1, tmp, got>>

WriteSpace(t) ==
  /\ cursize # MaxSize
  /\ Goto(t, "w_space", "w_copy1")
  /\ size' = [size EXCEPT ![t] = ClampSize(len[t], MaxSize - cursize)]
  /\ UNCHANGED <<fields, len, len1, tmp, got>>

WriteFull(t) ==
  /\ pc[t] = "w_space" /\ cursize = MaxSize
  /\ Return(t)
  /\ UNCHANGED fields

(* k bytes of the user's arrive in the slots from i on; what a copy that   *)
(* faults half-way leaves there is any bytes too.                          *)
CopyIn(i, k) ==
  qbuf' \in {q \in [Slots -> Data] :
               \A s \in Slots : s \notin i .. i + k - 1 => q[s] = qbuf[s]}

(* Mutant: the copy lands on the last byte written.                        *)
WriteCopyOnceAtEnd(t) ==
  /\ MaxSize - 1 - end >= size[t]
  /\ Goto(t, "w_copy1", "w_end")
  /\ CopyIn(end, size[t])
  /\ UNCHANGED <<start, end, cursize, frame>>

WriteCopyOnce(t) ==
  /\ MaxSize - 1 - end >= size[t]
  /\ Goto(t, "w_copy1", "w_end")
  /\ CopyIn(end + 1, size[t])
  /\ UNCHANGED <<start, end, cursize, frame>>

WriteCopyTail(t) ==
  /\ MaxSize - 1 - end < size[t]
  /\ Goto(t, "w_copy1", "w_copy2")
  /\ len1' = [len1 EXCEPT ![t] = MaxSize - 1 - end]
  /\ CopyIn(end + 1, MaxSize - 1 - end)
  /\ UNCHANGED <<start, end, cursize, len, size, tmp, got>>

WriteCopyFront(t) ==
  /\ Goto(t, "w_copy2", "w_end")
  /\ CopyIn(0, size[t] - len1[t])
  /\ UNCHANGED <<start, end, cursize, frame>>

(* -EINVAL; neither end nor cursize is updated.                            *)
WriteFault(t) ==
  /\ \/ /\ pc[t] = "w_copy1"
        /\ CopyIn(end + 1, size[t])
     \/ /\ pc[t] = "w_copy2"
        /\ CopyIn(0, size[t] - len1[t])
  /\ Return(t)
  /\ UNCHANGED <<start, end, cursize>>

(* end = (end + size) % maxsize.                                           *)
WriteLoadEnd(t) ==
  /\ Goto(t, "w_end", "w_setend")
  /\ tmp' = [tmp EXCEPT ![t] = end]
  /\ UNCHANGED <<fields, len, size, len1, got>>

WriteStoreEnd(t) ==
  /\ Goto(t, "w_setend", "w_load")
  /\ end' = CMod(tmp[t] + size[t], MaxSize)
  /\ UNCHANGED <<qbuf, start, cursize, frame>>

(* cursize += size.                                                        *)
WriteLoadCount(t) ==
  /\ Goto(t, "w_load", "w_store")
  /\ tmp' = [tmp EXCEPT ![t] = cursize]
  /\ UNCHANGED <<fields, len, size, len1, got>>

WriteStoreCount(t) ==
  /\ Goto(t, "w_store", "w_done")
  /\ cursize' = tmp[t] + size[t]
  /\ UNCHANGED <<qbuf, start, end, frame>>

WriteCopies(t) ==
  \/ WriteSpace(t) \/ WriteFull(t) \/ WriteCopyOnce(t) \/ WriteCopyTail(t)
  \/ WriteCopyFront(t) \/ WriteLoadEnd(t) \/ WriteStoreEnd(t)
  \/ WriteLoadCount(t) \/ WriteStoreCount(t)

-----------------------------------------------------------------------------
WritePCs == {"w_space", "w_copy1", "w_copy2", "w_end", "w_setend", "w_load",
             "w_store", "w_done"}
RingPCs  == {"idle", "r_size", "r_copy1", "r_copy2", "r_start", "r_setstart",
             "r_load", "r_store"} \union WritePCs

RingTypeOK(pcs) ==
  /\ qbuf \in [Slots -> Data]
  /\ start \in Slots
  /\ end \in -1 .. MaxSize - 1
  /\ cursize \in Int
  /\ pc \in [Tasks -> pcs]
  /\ len \in [Tasks -> Nat]
  /\ size \in [Tasks -> Nat]
  /\ len1 \in [Tasks -> Nat]
  /\ tmp \in [Tasks -> Int]
  /\ got \in [Tasks -> Seq(Data \union {Beyond})]

(* One reading and one writing task: although their updates of cursize can *)
(* overwrite each other, the count stays within the page, so no copy       *)
(* length goes wrong.  (fifo_blocked/fifo.c:49, 77, 85, 116)               *)
CountInRange == cursize \in 0 .. MaxSize

(* No copy leaves the page: the one-copy read and the second copy of a     *)
(* wrapped read or write stay below MaxSize.                               *)
(* (fifo_blocked/fifo.c:54, 69, 109)                                       *)
CopiesStayInPage ==
  \A t \in Tasks :
    /\ pc[t] = "r_copy1" /\ start <= end => size[t] <= MaxSize
    /\ pc[t] \in {"r_copy2", "w_copy2"} => size[t] - len1[t] <= MaxSize
=============================================================================
