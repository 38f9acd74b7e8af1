-------------------------- MODULE LinearFifo_proofs --------------------------
(***************************************************************************)
(* Proofs about LinearFifo with one reading and one writing task, for all  *)
(* lengths and however much is written.                                    *)
(***************************************************************************)
EXTENDS LinearFifo, SequenceTheorems, TLAPS

(* What a copy of m bytes from position a on appends.                      *)
Run(a, m) == [k \in 1 .. m |-> a + k - 1]

Ascending(s)   == \A i, j \in DOMAIN s : i < j => s[i] < s[j]
Below(s, e)    == \A i \in DOMAIN s : s[i] < e
(* What u misses below e is below a, and s misses it as well.              *)
Keeps(s, u, a, e) == \A b \in 0 .. e - 1 : (\A i \in DOMAIN u : u[i] # b) =>
                        b < a /\ \A i \in DOMAIN s : s[i] # b

Follows(s, u, l, a, m) ==
  /\ l \in Nat /\ a \in Nat /\ m \in Nat
  /\ DOMAIN s = 1 .. l /\ DOMAIN u = 1 .. l + m
  /\ \A i \in 1 .. l : s[i] \in Nat /\ u[i] = s[i]
  /\ \A i \in l + 1 .. l + m : u[i] = a + (i - l) - 1

LEMMA AppendRun ==
  ASSUME NEW s \in Seq(Nat), NEW a \in Nat, NEW m \in Nat
  PROVE  /\ s \o Run(a, m) \in Seq(Nat)
         /\ Follows(s, s \o Run(a, m), Len(s), a, m)
<1> DEFINE v == Run(a, m)
<1>1. v \in Seq(Nat) /\ Len(v) = m
  <2>1. \A k \in 1 .. m : a + k - 1 \in Nat
    OBVIOUS
  <2>2. v \in [1 .. m -> Nat]
    BY <2>1 DEF Run
  <2> QED
    BY <2>2
<1>2. \A k \in 1 .. m : v[k] = a + k - 1
  BY DEF Run
<1> HIDE DEF v
<1>3. /\ s \o v \in Seq(Nat) /\ Len(s \o v) = Len(s) + Len(v)
      /\ \A i \in 1 .. Len(s) + Len(v) :
            (s \o v)[i] = IF i <= Len(s) THEN s[i] ELSE v[i - Len(s)]
  BY <1>1, ConcatProperties
<1>4. DOMAIN s = 1 .. Len(s) /\ Len(s) \in Nat
      /\ \A i \in 1 .. Len(s) : s[i] \in Nat
  BY LenProperties, ElementOfSeq
<1>5. DOMAIN (s \o v) = 1 .. Len(s) + m
  BY <1>1, <1>3, LenProperties
<1>6. Follows(s, s \o v, Len(s), a, m)
  BY <1>1, <1>2, <1>3, <1>4, <1>5 DEF Follows
<1> QED
  BY <1>3, <1>6 DEF v

(* Where such a run follows ascending bytes that are all below a.          *)
LEMMA RunIndices ==
  ASSUME NEW s, NEW u, NEW l, NEW a, NEW m,
         Follows(s, u, l, a, m), Ascending(s), Below(s, a)
  PROVE  Ascending(u) /\ Below(u, a + m) /\ Keeps(s, u, a, a + m)
<1> USE DEF Follows, Ascending, Below, Keeps
<1>1. Below(u, a + m)
  OBVIOUS
<1>2. Ascending(u)
  OBVIOUS
<1>3. ASSUME NEW b \in 0 .. a + m - 1, \A i \in DOMAIN u : u[i] # b
      PROVE  b < a /\ \A i \in DOMAIN s : s[i] # b
  <2>1. b < a
    <3> SUFFICES ASSUME b >= a PROVE FALSE
      OBVIOUS
    <3>1. PICK e \in l + 1 .. l + m : e = l + (b - a) + 1
      OBVIOUS
    <3>2. u[e] = b /\ e \in DOMAIN u
      BY <3>1
    <3> QED BY <1>3, <3>2
  <2>2. \A i \in DOMAIN s : s[i] # b
    <3> SUFFICES ASSUME NEW i \in DOMAIN s PROVE s[i] # b
      OBVIOUS
    <3>1. i \in DOMAIN u /\ u[i] = s[i]
      OBVIOUS
    <3> QED BY <1>3, <3>1
  <2> QED BY <2>1, <2>2
<1> QED
  BY <1>1, <1>2, <1>3

LEMMA RunAscends ==
  ASSUME NEW s \in Seq(Nat), NEW a \in Nat, NEW m \in Nat,
         Ascending(s), Below(s, a)
  PROVE  /\ s \o Run(a, m) \in Seq(Nat)
         /\ Ascending(s \o Run(a, m)) /\ Below(s \o Run(a, m), a + m)
         /\ Keeps(s, s \o Run(a, m), a, a + m)
<1>1. s \o Run(a, m) \in Seq(Nat) /\ Follows(s, s \o Run(a, m), Len(s), a, m)
  BY AppendRun
<1> QED
  BY <1>1, RunIndices, Zenon

-----------------------------------------------------------------------------
Roles(r, w) ==
  /\ pc[r] \in {"idle", "r_size", "r_copy", "r_drain", "r_advance"}
  /\ pc[w] \in {"idle", "w_copy", "w_front"}

(* What the tasks still know of front and rear.                            *)
Fields(r, w) ==
  /\ rear <= front
  /\ pc[r] \in {"r_copy", "r_drain", "r_advance"} => size[r] <= front - rear
  /\ pc[r] \in {"r_drain", "r_advance"} => tmp[r] = rear
  /\ pc[r] = "r_drain" => len[r] >= size[r]
  /\ pc[r] = "r_advance" => len[r] < size[r]
  /\ pc[w] = "w_front" => tmp[w] = front

(* Where rear will be when a read that has copied returns, late bytes      *)
(* apart.                                                                  *)
Reached(r) == rear + (CASE pc[r] = "r_drain"   -> size[r]
                        [] pc[r] = "r_advance" -> len[r]
                        [] OTHER               -> 0)

OrderInv(r) == Ascending(taken) /\ Below(taken, Reached(r))

SkipInv(r) ==
  /\ \A b \in 0 .. Reached(r) - 1 :
       (\A i \in DOMAIN taken : taken[i] # b) => b \in faulted \union late
  /\ pc[r] \in {"r_copy", "r_drain"} =>
       rear + size[r] .. front - 1 \subseteq late

Inv(r, w) == TypeOK /\ Roles(r, w) /\ Fields(r, w) /\ OrderInv(r) /\ SkipInv(r)

LEMMA InvInit ==
  ASSUME NEW r, NEW w, r # w, Readers = {r}, Writers = {w}, Init
  PROVE  Inv(r, w)
BY DEF Init, Inv, TypeOK, Roles, Fields, OrderInv, Ascending, Below, SkipInv, Reached,
       Tasks

-----------------------------------------------------------------------------
LEMMA ReadCopyStep ==
  ASSUME NEW r, NEW w, r # w, Readers = {r}, Writers = {w},
         Inv(r, w), ReadCopy(r)
  PROVE  Inv(r, w)'
<1> DEFINE m == IF Drains(r) THEN size[r] ELSE len[r]
<1> USE DEF Inv, TypeOK, Roles, Fields, Tasks
<1>1. /\ m \in Nat /\ front' = front /\ rear' = rear /\ late' = late
      /\ len' = len /\ size' = size
      /\ pc' = [pc EXCEPT ![r] = IF Drains(r) THEN "r_drain" ELSE "r_advance"]
      /\ tmp' = [tmp EXCEPT ![r] = rear]
  BY DEF ReadCopy, Goto, history
<1>2. pc[r] = "r_copy" /\ Reached(r) = rear /\ Reached(r)' = rear + m
  BY <1>1 DEF ReadCopy, Goto, Reached, Drains
<1>3. Copied(r) = rear .. rear + m - 1
  BY DEF Copied
<1>4. Roles(r, w)' /\ Fields(r, w)'
  BY <1>1, <1>2 DEF Drains
<1>5. (pc[r] \in {"r_copy", "r_drain"} =>
         rear + size[r] .. front - 1 \subseteq late)'
  BY <1>1, <1>2 DEF SkipInv
<1>6. CASE faulted' = faulted \union Copied(r) /\ taken' = taken
  <2>4. faulted \subseteq Nat /\ rear \in Nat /\ m \in Nat
    BY <1>1
  <2>5. faulted' \subseteq Nat
    <3> HIDE DEF m, Inv, TypeOK, Roles, Fields, Tasks
    <3>1. Copied(r) \subseteq Nat
      BY <1>3, <2>4
    <3> QED BY <1>6, <2>4, <3>1
  <2>1. TypeOK'
    BY <1>1, <1>6, <2>5
  <2>2. OrderInv(r)'
    BY <1>1, <1>2, <1>6 DEF OrderInv, Ascending, Below
  <2>3. (\A b \in 0 .. Reached(r) - 1 :
           (\A i \in DOMAIN taken : taken[i] # b) => b \in faulted \union late)'
    BY <1>1, <1>2, <1>3, <1>6 DEF SkipInv
  <2> QED BY <1>4, <1>5, <2>1, <2>2, <2>3 DEF SkipInv
<1>7. CASE /\ taken' = taken \o Run(rear, m)
           /\ faulted' = faulted
  <2> HIDE DEF m
  <2>1. taken \in Seq(Nat) /\ rear \in Nat
    OBVIOUS
  <2>2. Ascending(taken) /\ Below(taken, rear)
    BY <1>2 DEF OrderInv
  <2>3. /\ m \in Nat /\ taken' = taken \o Run(rear, m)
        /\ faulted' = faulted /\ late' = late
    BY <1>1, <1>7
  <2>4. /\ taken' \in Seq(Nat) /\ Ascending(taken') /\ Below(taken', rear + m)
        /\ Keeps(taken, taken', rear, rear + m)
    <3> HIDE DEF Inv, TypeOK, Roles, Fields, Tasks
    <3>1. /\ taken \o Run(rear, m) \in Seq(Nat)
          /\ Ascending(taken \o Run(rear, m))
          /\ Below(taken \o Run(rear, m), rear + m)
          /\ Keeps(taken, taken \o Run(rear, m), rear, rear + m)
      BY <2>1, <2>2, <2>3, RunAscends, Zenon
    <3> QED BY <2>3, <3>1
  <2>5. TypeOK'
    BY <1>1, <1>7, <2>4
  <2>6. OrderInv(r)'
    BY <1>2, <2>4 DEF OrderInv
  <2>7. \A b \in 0 .. rear - 1 :
          (\A i \in DOMAIN taken : taken[i] # b) => b \in faulted \union late
    BY <1>2 DEF SkipInv
  <2>8. ASSUME NEW b \in 0 .. Reached(r)' - 1,
               \A i \in DOMAIN taken' : taken'[i] # b
        PROVE  b \in faulted' \union late'
    <3> HIDE DEF Inv, TypeOK, Roles, Fields, Tasks
    <3>1. b \in 0 .. (rear + m) - 1
      BY <1>2, <2>1, <2>3, <2>8
    <3>2. b < rear /\ \A i \in DOMAIN taken : taken[i] # b
      BY <2>4, <2>8, <3>1, Zenon DEF Keeps
    <3>3. b \in 0 .. rear - 1
      BY <2>1, <3>1, <3>2
    <3> QED BY <2>3, <2>7, <3>2, <3>3, Zenon
  <2> QED BY <1>4, <1>5, <2>5, <2>6, <2>8 DEF SkipInv
<1> QED
  BY <1>6, <1>7 DEF ReadCopy, Run

LEMMA ReaderStep ==
  ASSUME NEW r, NEW w, r # w, Readers = {r}, Writers = {w}, Inv(r, w),
         \/ \E n \in Lens : Call(r, "r_size", n)
         \/ ReadSize(r) \/ ReadEmpty(r) \/ ReadDrain(r) \/ ReadAdvance(r)
  PROVE  Inv(r, w)'
<1> USE LinearFifoAssumption
    DEF Inv, TypeOK, Roles, Fields, OrderInv, Ascending, Below, SkipInv, Reached,
        Tasks, history
<1>1. ASSUME NEW n \in Lens, Call(r, "r_size", n)
      PROVE  Inv(r, w)'
  BY <1>1 DEF Call, Goto
<1>2. CASE ReadSize(r)
  BY <1>2 DEF ReadSize, Goto
<1>3. CASE ReadEmpty(r)
  BY <1>3 DEF ReadEmpty, Return
<1>4. CASE ReadDrain(r)
  <2>1. /\ rear' = front /\ front' = front /\ pc[r] = "r_drain"
        /\ taken' = taken /\ faulted' = faulted /\ late' = late
        /\ Reached(r) = rear + size[r] /\ Reached(r)' = front
        /\ rear + size[r] <= front /\ size[r] \in Nat
    BY <1>4 DEF ReadDrain, Return
  <2>2. TypeOK' /\ Roles(r, w)' /\ Fields(r, w)'
    BY <1>4 DEF ReadDrain, Return
  <2>3. OrderInv(r)'
    BY <2>1
  <2>4. SkipInv(r)'
    <3>1. (pc[r] \in {"r_copy", "r_drain"} =>
             rear + size[r] .. front - 1 \subseteq late)'
      BY <1>4 DEF ReadDrain, Return
    <3>2. \A b \in 0 .. front - 1 :
            b \in 0 .. Reached(r) - 1 \/ b \in rear + size[r] .. front - 1
      BY <2>1
    <3>3. (\A b \in 0 .. Reached(r) - 1 :
             (\A i \in DOMAIN taken : taken[i] # b) =>
               b \in faulted \union late)'
      BY <2>1, <3>2
    <3> QED BY <3>1, <3>3
  <2> QED BY <2>2, <2>3, <2>4
<1>5. CASE ReadAdvance(r)
  BY <1>5 DEF ReadAdvance, Return
<1> QED
  BY <1>1, <1>2, <1>3, <1>4, <1>5

LEMMA WriterStep ==
  ASSUME NEW r, NEW w, r # w, Readers = {r}, Writers = {w}, Inv(r, w),
         \/ \E n \in Lens : Call(w, "w_copy", n)
         \/ WriteCopy(w) \/ WriteFault(w) \/ WriteFront(w)
  PROVE  Inv(r, w)'
<1> USE LinearFifoAssumption
    DEF Inv, TypeOK, Roles, Fields, OrderInv, Ascending, Below, SkipInv, Reached,
        Tasks, history
<1>1. ASSUME NEW n \in Lens, Call(w, "w_copy", n)
      PROVE  Inv(r, w)'
  BY <1>1 DEF Call, Goto
<1>2. CASE WriteCopy(w)
  <2>1. TypeOK' /\ Roles(r, w)' /\ Fields(r, w)'
    BY <1>2 DEF WriteCopy, Goto
  <2>2. OrderInv(r)'
    BY <1>2 DEF WriteCopy, Goto
  <2>3. SkipInv(r)'
    BY <1>2 DEF WriteCopy, Goto
  <2> QED BY <2>1, <2>2, <2>3
<1>3. CASE WriteFault(w)
  <2>1. TypeOK' /\ Roles(r, w)' /\ Fields(r, w)'
    BY <1>3 DEF WriteFault, Return
  <2>2. OrderInv(r)'
    BY <1>3 DEF WriteFault, Return
  <2>3. SkipInv(r)'
    BY <1>3 DEF WriteFault, Return
  <2> QED BY <2>1, <2>2, <2>3
<1>4. CASE WriteFront(w)
  <2>1. TypeOK' /\ Roles(r, w)' /\ Fields(r, w)'
    BY <1>4 DEF WriteFront, Return, ReadingNow
  <2>2. OrderInv(r)'
    BY <1>4 DEF WriteFront, Return, ReadingNow
  <2>3. SkipInv(r)'
    BY <1>4 DEF WriteFront, Return, ReadingNow
  <2> QED BY <2>1, <2>2, <2>3
<1> QED
  BY <1>1, <1>2, <1>3, <1>4

LEMMA InvStep ==
  ASSUME NEW r, NEW w, r # w, Readers = {r}, Writers = {w},
         Inv(r, w), [Next]_vars
  PROVE  Inv(r, w)'
<1>1. CASE UNCHANGED vars
  BY <1>1 DEF vars, Inv, TypeOK, Roles, Fields, OrderInv, Ascending, Below, SkipInv,
              Reached
<1>2. ASSUME NEW t \in Tasks,
             \/ ReadSize(t) \/ ReadEmpty(t) \/ ReadCopy(t) \/ ReadDrain(t)
             \/ ReadAdvance(t)
      PROVE  Inv(r, w)'
  <2>1. t = r
    BY <1>2 DEF Inv, Roles, Tasks, ReadSize, ReadEmpty, ReadCopy, ReadDrain,
                ReadAdvance, Goto
  <2> QED BY <1>2, <2>1, ReadCopyStep, ReaderStep
<1>3. ASSUME NEW t \in Tasks, WriteCopy(t) \/ WriteFault(t) \/ WriteFront(t)
      PROVE  Inv(r, w)'
  <2>1. t = w
    BY <1>3 DEF Inv, Roles, Tasks, WriteCopy, WriteFault, WriteFront, Goto
  <2> QED BY <1>3, <2>1, WriterStep
<1> QED
  BY <1>1, <1>2, <1>3, ReaderStep, WriterStep DEF Next

LEMMA Invariance ==
  ASSUME NEW r, NEW w, r # w, Readers = {r}, Writers = {w}
  PROVE  Spec => []Inv(r, w)
<1>1. Init => Inv(r, w)
  BY InvInit
<1>2. Inv(r, w) /\ [Next]_vars => Inv(r, w)'
  BY InvStep
<1> QED
  BY <1>1, <1>2, PTL DEF Spec

(* With one reading and one writing task, no byte comes twice, out of      *)
(* order, or before its write has published it.                            *)
THEOREM BytesComeInOrder ==
  ASSUME NEW r, NEW w, r # w, Readers = {r}, Writers = {w}
  PROVE  Spec => []TakenInOrder
<1>1. Inv(r, w) => TakenInOrder
  BY DEF Inv, TypeOK, Roles, Fields, OrderInv, Ascending, Below, Reached, TakenInOrder,
         Tasks
<1> QED
  BY <1>1, Invariance, PTL

(* With one reading and one writing task, a byte behind rear that no read  *)
(* returned either faulted or was written during a read.                   *)
THEOREM SkippedBytesWereLate ==
  ASSUME NEW r, NEW w, r # w, Readers = {r}, Writers = {w}
  PROVE  Spec => []OnlyLateBytesSkipped
<1>1. Inv(r, w) => OnlyLateBytesSkipped
  <2> SUFFICES ASSUME Inv(r, w), NEW b \in 0 .. rear - 1,
                      \A i \in DOMAIN taken : taken[i] # b
               PROVE  b \in faulted \union late
    BY Zenon DEF OnlyLateBytesSkipped
  <2>1. rear \in Nat /\ Reached(r) \in Nat /\ rear <= Reached(r)
    BY DEF Inv, TypeOK, Roles, Reached, Tasks
  <2>2. b \in 0 .. Reached(r) - 1
    BY <2>1
  <2> QED BY <2>2 DEF Inv, SkipInv
<1> QED
  BY <1>1, Invariance, PTL
=============================================================================
