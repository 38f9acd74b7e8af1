---------------------------- MODULE Devices_proofs ----------------------------
(***************************************************************************)
(* Proofs about three devices.  EdgeWork: the touchscreen's interrupt is   *)
(* disabled exactly while work is owed, and its data array is not overrun. *)
(* RamDisk: chunks of a request end as they were served, and writes that   *)
(* have ended last, on any number of processors.  Camera, for any number   *)
(* of readers: what waking before the condition is set costs, that an      *)
(* announcement serves a reader once, and that formats changed at any time *)
(* leave frames within their buffers.                                      *)
(***************************************************************************)
EXTENDS EdgeWork, RamDisk, Camera, WellFoundedInduction, TLAPS

-----------------------------------------------------------------------------
(* The touchscreen and the accelerometer.                                  *)
EdgeType ==
  /\ drv \in {"gt818", "mpu6050"}
  /\ queued \in BOOLEAN /\ depth \in Int
  /\ handler \in {"off", "disable", "schedule"}
  /\ work \in {"idle", "first", "end", "next", "store", "report", "enable"}
  /\ n \in Nat /\ i \in Nat

(* Of the handler, the pending item and the running item, at most one is   *)
(* there, and the accelerometer's work only reads and reports.             *)
OneAtATime ==
  /\ drv = "gt818" => /\ handler # "off" => ~queued /\ work = "idle"
                      /\ queued => work = "idle"
                      /\ handler = "disable" => depth = 0
  /\ drv = "mpu6050" => work \in {"idle", "first", "report"}

EdgeInv == EdgeType /\ OneAtATime /\ DisabledWhileWorkIsOwed

LEMMA EdgeInvInit == Init => EdgeInv
<1>1. Init => queued \in BOOLEAN
  BY Zenon DEF Init
<1>2. Init => EdgeType
  BY <1>1, SMT DEF Init, EdgeType
<1>3. Init => OneAtATime /\ DisabledWhileWorkIsOwed
  BY Zenon DEF Init, OneAtATime, DisabledWhileWorkIsOwed
<1> QED
  BY <1>2, <1>3 DEF EdgeInv

LEMMA EdgeInvStep == EdgeInv /\ [Next]_vars => EdgeInv'
<1> SUFFICES ASSUME EdgeInv, [Next]_vars
             PROVE  EdgeInv'
  OBVIOUS
<1> USE DEF EdgeInv, EdgeType, OneAtATime, DisabledWhileWorkIsOwed,
            irqVars, workVars
<1>1. CASE Edge
  BY <1>1 DEF Edge
<1>2. CASE Deliver
  BY <1>2 DEF Deliver
<1>3. CASE Disable
  BY <1>3 DEF Disable
<1>4. CASE Schedule
  BY <1>4 DEF Schedule
<1>5. CASE Begin
  BY <1>5 DEF Begin
<1>6. CASE FirstRead
  <2>1. \A ret \in TouchesRead : (ret % 16) * 8 \in Nat
    BY MaxTouchesAssumption DEF TouchesRead, EAGAIN
  <2> QED BY <1>6, <2>1 DEF FirstRead
<1>7. CASE AxisRead
  BY <1>7 DEF AxisRead
<1>8. CASE EndCommand
  BY <1>8 DEF EndCommand
<1>9. CASE Loop
  BY <1>9 DEF Loop
<1>10. CASE Store
  BY <1>10 DEF Store
<1>11. CASE Report
  BY <1>11 DEF Report
<1>12. CASE Enable
  BY <1>12 DEF Enable
<1>13. CASE UNCHANGED vars
  BY <1>13 DEF vars
<1> QED
  BY <1>1, <1>2, <1>3, <1>4, <1>5, <1>6, <1>7, <1>8, <1>9, <1>10, <1>11,
     <1>12, <1>13 DEF Next, HandlerStep, WorkStep

(* However many touches the controller reports and however its transfers   *)
(* fail, ts_interrupt and ts_work keep the interrupt disabled exactly      *)
(* while work is owed.                                                     *)
THEOREM InterruptIsBalanced == Spec => []DisabledWhileWorkIsOwed
<1>1. EdgeInv => DisabledWhileWorkIsOwed
  BY DEF EdgeInv
<1> QED
  BY <1>1, EdgeInvInit, EdgeInvStep, PTL DEF Spec

-----------------------------------------------------------------------------
(* The loop of ts_work stays below n, and n below the length of data.      *)
LoopInv ==
  /\ n <= 40
  /\ work \in {"end", "next"} => i <= n
  /\ work = "store" => i < n

LEMMA LoopInvStep ==
  ASSUME MaxTouches <= 5
  PROVE  EdgeInv /\ LoopInv /\ [Next]_vars => LoopInv'
<1> SUFFICES ASSUME EdgeInv, LoopInv, [Next]_vars
             PROVE  LoopInv'
  OBVIOUS
<1> USE DEF EdgeInv, EdgeType, OneAtATime, LoopInv, irqVars, workVars
<1>1. CASE Edge \/ Deliver \/ HandlerStep
  BY <1>1 DEF Edge, Deliver, HandlerStep, Disable, Schedule
<1>2. CASE Begin
  BY <1>2 DEF Begin
<1>3. CASE FirstRead
  <2>1. \A ret \in TouchesRead : (ret % 16) * 8 \in 0..40
    BY MaxTouchesAssumption DEF TouchesRead, EAGAIN
  <2> QED BY <1>3, <2>1 DEF FirstRead
<1>4. CASE AxisRead
  BY <1>4 DEF AxisRead
<1>5. CASE EndCommand
  BY <1>5 DEF EndCommand
<1>6. CASE Loop
  BY <1>6 DEF Loop
<1>7. CASE Store
  BY <1>7 DEF Store
<1>8. CASE Report
  BY <1>8 DEF Report
<1>9. CASE Enable
  BY <1>9 DEF Enable
<1>10. CASE UNCHANGED vars
  BY <1>10 DEF vars
<1> QED
  BY <1>1, <1>2, <1>3, <1>4, <1>5, <1>6, <1>7, <1>8, <1>9, <1>10
     DEF Next, WorkStep

(* Where the controller reports at most five touches, every store of       *)
(* ts_work is within data[40], also after a failed read of their number.   *)
THEOREM DataIsNotOverrun ==
  ASSUME MaxTouches <= 5
  PROVE  Spec => []DataInBounds
<1>1. Init => LoopInv
  BY DEF Init, LoopInv
<1>2. EdgeInv /\ LoopInv => DataInBounds
  BY DEF EdgeInv, EdgeType, LoopInv, DataInBounds
<1>3. EdgeInv /\ LoopInv /\ [Next]_vars => LoopInv'
  BY LoopInvStep
<1> QED
  BY <1>1, <1>2, <1>3, EdgeInvInit, EdgeInvStep, PTL DEF Spec
-----------------------------------------------------------------------------
(* The ram disk.                                                           *)

(* In the request that is worked on, the chunk to end next: once the loop  *)
(* has gone past it it is copied, or a later one is beyond the capacity.   *)
ChunkIsDone(c) == IF status = 0 THEN c \in copied
                  ELSE \E d \in c .. Len(fits) : ~fits[d]

RequestInv ==
  /\ fits \in Seq(BOOLEAN) /\ at \in Nat /\ result \in Seq(Int)
  /\ status \in Int /\ stage \in {"fetch", "scan", "end"}
  /\ stage \in {"scan", "end"} => Len(result) < Len(fits)
  /\ stage = "scan" => /\ Len(result) < at
                       /\ Len(result) + 1 < at =>
                            status = 0 /\ Len(result) + 1 \in copied
  /\ stage = "end" => ChunkIsDone(Len(result) + 1)

(* Every step of mydisk_request keeps it.                                  *)
LEMMA RequestKept ==
  RequestInv /\ EndsAfterCopy /\ [DiskNext]_diskVars
    => RequestInv' /\ EndsAfterCopy'
<1> SUFFICES ASSUME RequestInv, EndsAfterCopy, [DiskNext]_diskVars
             PROVE  RequestInv' /\ EndsAfterCopy'
  OBVIOUS
<1> USE DEF RequestInv, ChunkIsDone, EndsAfterCopy
<1>1. CASE Fetch
  <2>1. PICK long \in 1 .. MaxChunks : \E beyond \in 1 .. long + 1 :
            fits' = [c \in 1 .. long |-> c < beyond]
    BY <1>1, Zenon DEF Fetch
  <2>2. fits' \in Seq(BOOLEAN) /\ Len(fits') = long
    <3>1. fits' \in [1 .. long -> BOOLEAN]
      <4>1. \A c \in 1 .. long, b \in 1 .. long + 1 : (c < b) \in BOOLEAN
        OBVIOUS
      <4> QED
        BY <2>1, <4>1, Zenon
    <3> QED
      BY <3>1
  <2>3. at' = 1 /\ stage' = "scan" /\ result' = <<>> /\ status' = status
    BY <1>1 DEF Fetch
  <2> QED
    BY <2>2, <2>3
<1>2. CASE CopyChunk
  <2>1. /\ stage = "scan" /\ at <= Len(fits) /\ copied' = copied \cup {at}
        /\ status' = 0 /\ at' = at + 1 /\ UNCHANGED <<fits, stage, result>>
    BY <1>2 DEF CopyChunk
  <2>2. Len(result) + 1 \in copied'
    BY <2>1
  <2>3. RequestInv'
    BY <2>1, <2>2
  <2>4. EndsAfterCopy'
    BY <2>1
  <2> QED
    BY <2>3, <2>4
<1>3. CASE Beyond
  BY <1>3 DEF Beyond, EIO
<1>4. CASE ScanDone
  BY <1>4 DEF ScanDone
<1>5. CASE EndChunk
  <2>1. /\ stage = "end" /\ result' = Append(result, status)
        /\ at' = Len(result') + 1 /\ stage' \in {"fetch", "scan"}
        /\ stage' = "scan" => Len(result') # Len(fits)
        /\ UNCHANGED <<fits, status, copied>>
    BY <1>5 DEF EndChunk
  <2>2. /\ result' \in Seq(Int) /\ Len(result') = Len(result) + 1
        /\ \A c \in 1 .. Len(result') :
             result'[c] = IF c <= Len(result) THEN result[c] ELSE status
    BY <2>1
  <2>3. RequestInv'
    BY <2>1, <2>2
  <2>4. \A c \in 1 .. Len(result') :
          IF result'[c] = 0 THEN c \in copied
          ELSE \E d \in c .. Len(fits) : ~fits[d]
    <3> TAKE c \in 1 .. Len(result')
    <3>1. CASE c <= Len(result)
      <4>1. c \in 1 .. Len(result) /\ result'[c] = result[c]
        BY <2>2, <3>1
      <4> QED
        BY <4>1, Zenon
    <3>2. CASE c = Len(result) + 1
      <4>1. ChunkIsDone(c)
        BY <2>1, <3>2
      <4>2. result'[c] = status
        BY <2>2, <3>2
      <4> QED
        BY <4>1, <4>2, Zenon
    <3>3. c <= Len(result) \/ c = Len(result) + 1
      BY <2>2
    <3> QED
      BY <3>1, <3>2, <3>3, Zenon
  <2> QED
    BY <2>1, <2>2, <2>3, <2>4
<1>6. CASE UNCHANGED <<fits, at, status, stage, result, copied>>
  BY <1>6
<1> QED
  BY <1>1, <1>2, <1>3, <1>4, <1>5, <1>6
     DEF DiskNext, RequestStep, Submit, StoreSector, EndBio,
         diskVars, requestVars

(* mydisk_request ends every chunk with a status that is its own: whatever *)
(* lies beyond the capacity, none ends well that was not copied, none that *)
(* lies before the end of the disk with all after it fails, and none is    *)
(* copied again once it has ended.                                         *)
THEOREM ChunksEndCopied == DiskSpec => []EndsAfterCopy
<1>1. DiskInit => RequestInv /\ EndsAfterCopy
  BY DEF DiskInit, RequestInv, EndsAfterCopy
<1> QED
  BY <1>1, RequestKept, PTL DEF DiskSpec

-----------------------------------------------------------------------------
(* Naturals being well ordered, the least of some of them is one of them.  *)
LEMMA MinIsThere ==
  ASSUME NEW S \in SUBSET Nat, S # {}
  PROVE  Min(S) \in S
<1> DEFINE R == {ss \in Nat \X Nat : ss[1] < ss[2]}
<1>1. IsWellFoundedOn(R, Nat)
  BY NatLessThanWellFounded DEF OpToRel
<1> HIDE DEF R
<1>2. PICK x \in S : \A y \in S : ~(<<y, x>> \in R)
  BY <1>1, WFMin, Zenon
<1>3. \A y \in S : x <= y
  <2> TAKE y \in S
  <2>1. <<y, x>> \in R <=> y < x
    BY DEF R
  <2> QED
    BY <1>2, <2>1
<1> QED
  BY <1>3 DEF Min

(* The tables of my_make_request_func's writes.                            *)
DiskType ==
  /\ range \in [Cpus -> SUBSET Sectors]
  /\ todo \in [Cpus -> SUBSET Sectors]
  /\ \A c \in Cpus : todo[c] \subseteq range[c]
  /\ DOMAIN turn = Cpus /\ DOMAIN gone = Cpus
  /\ DOMAIN data = Sectors /\ DOMAIN may = Sectors

(* What a write under way stores may be found, and the end of no other     *)
(* takes it away; and the end of a write takes away nothing it has stored  *)
(* over, or that was stored over it.                                       *)
Ages ==
  /\ \A d \in Cpus : \A s \in range[d] :
       /\ Tag(d) \in may[s]
       /\ \A c \in Cpus : Tag(d) \notin gone[c][s]
  /\ \A c \in Cpus : \A s \in range[c] \ todo[c] : data[s] \notin gone[c][s]

DiskInv == DiskType /\ Ages /\ WritesLast

(* Every step of a processor keeps it.                                     *)
LEMMA WritesKept ==
  DiskInv /\ [DiskNext]_diskVars => DiskInv'
<1> SUFFICES ASSUME DiskInv, [DiskNext]_diskVars
             PROVE  DiskInv'
  OBVIOUS
<1>1. ASSUME NEW b \in Cpus, Submit(b)
      PROVE  DiskInv'
  <2>1. PICK first \in Sectors : \E last \in first .. LastSector :
           /\ range' = [range EXCEPT ![b] = first .. last]
           /\ todo' = [todo EXCEPT ![b] = first .. last]
           /\ may' = [s \in Sectors |->
                may[s] \cup (IF s \in first .. last THEN {Tag(b)} ELSE {})]
    BY <1>1, Zenon DEF Submit
  <2>2. PICK last \in first .. LastSector :
           /\ range' = [range EXCEPT ![b] = first .. last]
           /\ todo' = [todo EXCEPT ![b] = first .. last]
           /\ may' = [s \in Sectors |->
                may[s] \cup (IF s \in first .. last THEN {Tag(b)} ELSE {})]
    BY <2>1, Zenon
  <2>3. /\ data' = data /\ turn' = turn
        /\ gone' = [d \in Cpus |-> [s \in Sectors |->
             (IF d = b THEN may[s] \ UnderWay(s) ELSE gone[d][s])
               \ {Tag(b)}]]
    BY <1>1, Zenon DEF Submit
  <2> DEFINE new == first .. last
  <2>4. new \subseteq Sectors
    BY RamDiskAssumption DEF Sectors
  <2> HIDE DEF new
  <2>5. /\ new \subseteq Sectors
        /\ range' = [range EXCEPT ![b] = new]
        /\ todo' = [todo EXCEPT ![b] = new]
        /\ may' = [s \in Sectors |->
              may[s] \cup (IF s \in new THEN {Tag(b)} ELSE {})]
    BY <2>2, <2>4, Zenon DEF new
  <2>6. DiskType'
    BY <2>3, <2>5, <1>1, Zenon DEF DiskInv, DiskType
  <2>7. \A d \in Cpus : Tag(d)' = Tag(d)
    BY <2>3, Zenon DEF Tag
  <2>8. \A d \in Cpus : range'[d] = IF d = b THEN new ELSE range[d]
    BY <2>5, <1>1, Zenon DEF DiskInv, DiskType
  <2>9. ASSUME NEW d \in Cpus, NEW s \in range'[d]
        PROVE  s \in Sectors /\ Tag(d) \in may'[s]
    <3>1. s \in Sectors
      BY <2>6, <2>9, Zenon DEF DiskType
    <3>2. s \in new \/ s \in range[d]
      BY <2>8, <2>9, Zenon
    <3>3. d # b => s \in range[d]
      BY <2>8, <2>9, Zenon
    <3>4. s \in range[d] => Tag(d) \in may[s]
      BY <2>9, Zenon DEF DiskInv, Ages
    <3>5. d = b /\ s \in new => Tag(d) \in may'[s]
      BY <2>5, <3>1, Zenon
    <3>6. Tag(d) \in may[s] => Tag(d) \in may'[s]
      BY <2>5, <3>1, Zenon
    <3> QED
      BY <3>1, <3>2, <3>3, <3>4, <3>5, <3>6, Zenon
  <2>10. ASSUME NEW d \in Cpus, NEW s \in range'[d], NEW c \in Cpus
         PROVE  Tag(d) \notin gone'[c][s]
    <3>1. s \in Sectors
      BY <2>9, <2>10, Zenon
    <3>2. gone'[c][s] = (IF c = b THEN may[s] \ UnderWay(s) ELSE gone[c][s])
                          \ {Tag(b)}
      BY <2>3, <2>10, <3>1, Zenon
    <3>3. CASE d = b
      BY <3>2, <3>3, Zenon
    <3>4. CASE d # b
      <4>1. s \in range[d]
        BY <2>8, <2>10, <3>4, Zenon
      <4>2. Tag(d) \in UnderWay(s) /\ Tag(d) \notin gone[c][s]
        BY <2>10, <4>1, Zenon DEF UnderWay, DiskInv, Ages
      <4> QED
        BY <3>2, <4>2, Zenon
    <3> QED
      BY <3>3, <3>4
  <2>11. ASSUME NEW c \in Cpus, NEW s \in range'[c] \ todo'[c]
         PROVE  data'[s] \notin gone'[c][s]
    <3>1. s \in Sectors
      BY <2>9, <2>11, Zenon
    <3>2. c # b /\ s \in range[c] \ todo[c]
      BY <2>5, <2>8, <2>11, <1>1, Zenon DEF DiskInv, DiskType
    <3>3. gone'[c][s] = gone[c][s] \ {Tag(b)}
      BY <2>3, <2>11, <3>1, <3>2, Zenon
    <3> QED
      BY <2>3, <2>11, <3>2, <3>3, Zenon DEF DiskInv, Ages
  <2>12. ASSUME NEW s \in Sectors
         PROVE  data'[s] \in may'[s]
    BY <2>3, <2>5, <2>12, Zenon DEF DiskInv, WritesLast
  <2> QED
    BY <2>6, <2>7, <2>9, <2>10, <2>11, <2>12, Zenon
       DEF DiskInv, Ages, WritesLast
<1>2. ASSUME NEW b \in Cpus, StoreSector(b)
      PROVE  DiskInv'
  <2> DEFINE m == Min(todo[b])
  <2>1. m \in todo[b] /\ m \in range[b] /\ m \in Sectors
    <3>1. todo[b] \in SUBSET Sectors /\ todo[b] \subseteq range[b]
      BY <1>2, Zenon DEF DiskInv, DiskType
    <3>2. Sectors \subseteq Nat
      BY RamDiskAssumption DEF Sectors
    <3>3. todo[b] # {}
      BY <1>2, Zenon DEF StoreSector
    <3>4. todo[b] \in SUBSET Nat
      BY <3>1, <3>2, Zenon
    <3> QED
      BY <3>1, <3>3, <3>4, MinIsThere, Zenon
  <2>2. /\ data' = [data EXCEPT ![m] = Tag(b)]
        /\ todo' = [todo EXCEPT ![b] = @ \ {m}]
        /\ UNCHANGED <<range, turn, may, gone>>
    BY <1>2, Zenon DEF StoreSector
  <2> HIDE DEF m
  <2>3. DiskType'
    BY <2>1, <2>2, <1>2, Zenon DEF DiskInv, DiskType
  <2>4. \A d \in Cpus : Tag(d)' = Tag(d)
    BY <2>2, Zenon DEF Tag
  <2>5. /\ Tag(b) \in may[m]
        /\ \A c \in Cpus : Tag(b) \notin gone[c][m]
    BY <2>1, <1>2, Zenon DEF DiskInv, Ages
  <2>6. ASSUME NEW c \in Cpus, NEW s \in range'[c] \ todo'[c]
        PROVE  data'[s] \notin gone'[c][s]
    <3>1. s \in Sectors /\ s \in range[c]
      BY <2>2, <2>6, Zenon DEF DiskInv, DiskType
    <3>2. CASE s = m
      BY <2>2, <2>5, <2>6, <3>1, <3>2, Zenon DEF DiskInv, DiskType
    <3>3. CASE s # m
      <4>1. s \notin todo[c]
        BY <2>2, <2>6, <3>3, <1>2, Zenon DEF DiskInv, DiskType
      <4>2. data'[s] = data[s]
        BY <2>2, <3>1, <3>3, Zenon DEF DiskInv, DiskType
      <4> QED
        BY <2>2, <2>6, <3>1, <4>1, <4>2, Zenon DEF DiskInv, Ages
    <3> QED
      BY <3>2, <3>3
  <2>7. ASSUME NEW s \in Sectors
        PROVE  data'[s] \in may'[s]
    BY <2>2, <2>5, <2>7, Zenon
       DEF DiskInv, DiskType, WritesLast
  <2>8. \A d \in Cpus : \A s \in range'[d] :
          /\ Tag(d)' \in may'[s]
          /\ \A c \in Cpus : Tag(d)' \notin gone'[c][s]
    BY <2>2, <2>4, Zenon DEF DiskInv, Ages
  <2> QED
    BY <2>3, <2>6, <2>7, <2>8, Zenon DEF DiskInv, Ages, WritesLast
<1>3. ASSUME NEW b \in Cpus, EndBio(b)
      PROVE  DiskInv'
  <2>1. /\ todo[b] = {} /\ data' = data /\ todo' = todo
        /\ range' = [range EXCEPT ![b] = {}]
        /\ may' = [s \in Sectors |-> IF s \in range[b]
                                     THEN (may[s] \ gone[b][s]) \cup {Tag(b)}
                                     ELSE may[s]]
        /\ turn' = [turn EXCEPT ![b] = (@ + 1) % Turns]
        /\ gone' = [gone EXCEPT ![b] = [s \in Sectors |-> {}]]
    BY <1>3, Zenon DEF EndBio
  <2>2. DiskType'
    BY <2>1, <1>3, Zenon DEF DiskInv, DiskType
  <2>3. \A d \in Cpus : range'[d] = IF d = b THEN {} ELSE range[d]
    BY <2>1, <1>3, Zenon DEF DiskInv, DiskType
  <2>4. \A d \in Cpus : d # b => Tag(d)' = Tag(d)
    BY <2>1, Zenon DEF Tag, DiskInv, DiskType
  <2>5. \A d \in Cpus : gone'[d] = IF d = b THEN [s \in Sectors |-> {}]
                                            ELSE gone[d]
    BY <2>1, Zenon DEF DiskInv, DiskType
  <2>6. ASSUME NEW d \in Cpus, NEW s \in range'[d]
        PROVE  /\ d # b /\ s \in range[d] /\ s \in Sectors
               /\ \A c \in Cpus : Tag(d) \notin gone[c][s]
    BY <2>2, <2>3, <2>6, Zenon DEF DiskInv, DiskType, Ages
  <2>7. ASSUME NEW d \in Cpus, NEW s \in range'[d]
        PROVE  Tag(d)' \in may'[s]
    <3>1. Tag(d) \in may[s] \ gone[b][s]
      BY <2>6, <2>7, <1>3, Zenon DEF DiskInv, Ages
    <3>2. Tag(d) \in may'[s]
      BY <2>1, <2>6, <2>7, <3>1, Zenon
    <3> QED
      BY <2>4, <2>6, <2>7, <3>2, Zenon
  <2>8. ASSUME NEW d \in Cpus, NEW s \in range'[d], NEW c \in Cpus
        PROVE  Tag(d)' \notin gone'[c][s]
    <3>1. Tag(d)' = Tag(d) /\ s \in Sectors
      BY <2>4, <2>6, <2>8, Zenon
    <3>2. c = b => gone'[c][s] = {}
      BY <2>5, <3>1, Zenon
    <3>3. c # b => gone'[c][s] = gone[c][s]
      BY <2>5, <2>8, Zenon
    <3>4. Tag(d) \notin gone[c][s]
      BY <2>6, <2>8, Zenon
    <3> QED
      BY <3>1, <3>2, <3>3, <3>4, Zenon
  <2>9. ASSUME NEW c \in Cpus, NEW s \in range'[c] \ todo'[c]
        PROVE  data'[s] \notin gone'[c][s]
    <3>1. c # b /\ s \in range[c] \ todo[c]
      BY <2>1, <2>6, <2>9, Zenon
    <3> QED
      BY <2>1, <2>5, <2>9, <3>1, Zenon DEF DiskInv, Ages
  <2>10. ASSUME NEW s \in Sectors
         PROVE  data'[s] \in may'[s]
    <3>1. data[s] \in may[s]
      BY <2>10, Zenon DEF DiskInv, WritesLast
    <3>2. s \in range[b] => data[s] \notin gone[b][s]
      BY <2>1, <1>3, Zenon DEF DiskInv, Ages
    <3> QED
      BY <2>1, <2>10, <3>1, <3>2, Zenon
  <2> QED
    BY <2>2, <2>7, <2>8, <2>9, <2>10, Zenon
       DEF DiskInv, Ages, WritesLast
<1>4. CASE UNCHANGED <<data, range, todo, turn, may, gone>>
  BY <1>4, Zenon
     DEF DiskInv, DiskType, Ages, WritesLast, Tag
<1> QED
  BY <1>1, <1>2, <1>3, <1>4, Zenon
     DEF DiskNext, diskVars, bioVars, Fetch, RequestStep,
         CopyChunk, Beyond, ScanDone, EndChunk

(* my_make_request_func runs without a lock on any number of processors,   *)
(* and their copies interleave sector by sector: what a sector holds is    *)
(* always something a write under way stores there, or a write that ended  *)
(* and that no write that began after its end has replaced.                *)
THEOREM EndedWritesLast == DiskSpec => []WritesLast
<1>1. DiskInit => DiskInv
  <2> SUFFICES ASSUME DiskInit
               PROVE  DiskInv
    OBVIOUS
  <2>1. /\ range = [c \in Cpus |-> {}] /\ todo = [c \in Cpus |-> {}]
        /\ data = [s \in Sectors |-> <<>>]
        /\ may = [s \in Sectors |-> {<<>>}]
        /\ turn = [c \in Cpus |-> 0]
        /\ gone = [c \in Cpus |-> [s \in Sectors |-> {}]]
    BY Zenon DEF DiskInit
  <2>2. DiskType
    BY <2>1, Zenon DEF DiskType
  <2>3. Ages
    BY <2>1, Zenon DEF Ages
  <2>4. WritesLast
    BY <2>1, Zenon DEF WritesLast
  <2> QED
    BY <2>2, <2>3, <2>4 DEF DiskInv
<1>2. DiskInv => WritesLast
  BY DEF DiskInv
<1> QED
  BY <1>1, <1>2, WritesKept, PTL DEF DiskSpec

-----------------------------------------------------------------------------
(* The camera.                                                             *)
ReadType == pc \in [Readers ->
                      {"idle", "test", "retest", "sleep", "copy", "clear"}]

LEMMA ReadTypeStep == ReadType /\ [CameraNext]_cameraVars => ReadType'
<1> SUFFICES ASSUME ReadType, [CameraNext]_cameraVars
             PROVE  ReadType'
  OBVIOUS
<1> USE DEF ReadType
<1>1. CASE pc' = pc
  BY <1>1
<1>2. ASSUME NEW r \in Readers, ReadStep(r) \/ Read(r) \/ Signal(r)
      PROVE  ReadType'
  BY <1>2 DEF ReadStep, Read, Signal, WaitEnds, Prepare, Sleep, CopyToUser,
              Clear, Goto
<1> QED
  BY <1>1, <1>2 DEF CameraNext, cameraVars, formatVars, waitVars, SetFormat,
     RequestBuffers, StreamOn, Frame, HandlerWakes, HandlerSets

-----------------------------------------------------------------------------
(* Once the queue was woken for a frame, nobody is asleep while condition  *)
(* is still set for an earlier one.                                        *)
SetLetsNobodySleep ==
  irq = "set" /\ condition = 1 => \A r \in Readers : ~Asleep(r)

(* A reader that slept through the last announcement has not got through   *)
(* its wait, and has cleared nothing; what it waits for was there then, so *)
(* where it is not, some reader has cleared it.                            *)
MissedWait ==
  /\ missed \subseteq Readers /\ took \subseteq Readers
  /\ \A r \in missed : pc[r] \in {"retest", "sleep"} /\ r \notin took
  /\ missed # {} /\ condition # 1 => took # {}

MissInv == ReadType /\ SetLetsNobodySleep /\ MissedWait

LEMMA MissInvStep == MissInv /\ [CameraNext]_cameraVars => MissInv'
<1> SUFFICES ASSUME MissInv, [CameraNext]_cameraVars
             PROVE  SetLetsNobodySleep' /\ MissedWait'
  BY ReadTypeStep DEF MissInv
<1> USE DEF MissInv, ReadType, SetLetsNobodySleep, MissedWait, Asleep
<1>1. CASE UNCHANGED waitVars
  BY <1>1 DEF waitVars, missVars
<1>2. CASE Frame \/ HandlerWakes
  BY <1>2 DEF Frame, HandlerWakes, missVars
<1>3. CASE HandlerSets
  BY <1>3 DEF HandlerSets
<1>4. ASSUME NEW r \in Readers, Read(r) \/ CopyToUser(r)
      PROVE  SetLetsNobodySleep' /\ MissedWait'
  BY <1>4 DEF Read, CopyToUser, Goto, missVars
<1>5. ASSUME NEW r \in Readers, Clear(r)
      PROVE  SetLetsNobodySleep' /\ MissedWait'
  BY <1>5 DEF Clear, Goto
<1>6. ASSUME NEW r \in Readers, WaitEnds(r) \/ Signal(r)
      PROVE  SetLetsNobodySleep' /\ MissedWait'
  BY <1>6 DEF WaitEnds, Signal, Goto
<1>7. ASSUME NEW r \in Readers, Prepare(r)
      PROVE  SetLetsNobodySleep' /\ MissedWait'
  BY <1>7 DEF Prepare, Goto, missVars
<1>8. ASSUME NEW r \in Readers, Sleep(r)
      PROVE  SetLetsNobodySleep' /\ MissedWait'
  BY <1>8 DEF Sleep, Goto, missVars
<1> QED
  BY <1>1, <1>2, <1>3, <1>4, <1>5, <1>6, <1>7, <1>8
     DEF CameraNext, cameraVars, ReadStep, SetFormat, RequestBuffers, StreamOn

(* ov3640_interrupt wakes too early: a reader sleeps through a frame that  *)
(* is being announced.  However many read, it sleeps through the next one  *)
(* too only if another reader has cleared condition in between.            *)
THEOREM SecondMissHasItsReason == CameraSpec => []SecondMissIsAnothersGain
<1>1. CameraInit => MissInv
  BY DEF CameraInit, MissInv, ReadType, SetLetsNobodySleep, MissedWait
<1>2. MissInv => SecondMissIsAnothersGain
  BY DEF MissInv, SetLetsNobodySleep, MissedWait, SecondMissIsAnothersGain
<1> QED
  BY <1>1, <1>2, MissInvStep, PTL DEF CameraSpec

(* So a task that reads alone never sleeps through two announcements in a  *)
(* row.                                                                    *)
THEOREM AloneMissesOne ==
  ASSUME NEW r, Readers = {r}
  PROVE  CameraSpec => [](irq = "set" /\ r \in missed => ~Asleep(r))
<1>1. CameraInit => MissInv
  BY DEF CameraInit, MissInv, ReadType, SetLetsNobodySleep, MissedWait
<1>2. MissInv => (irq = "set" /\ r \in missed => ~Asleep(r))
  BY DEF MissInv, SetLetsNobodySleep, MissedWait
<1> QED
  BY <1>1, <1>2, MissInvStep, PTL DEF CameraSpec

-----------------------------------------------------------------------------
(* While the condition is set, the readers that have had the frame are     *)
(* those about to clear it.                                                *)
HadIsClearing ==
  ver = "current" /\ condition = 1 =>
    \A r \in Readers : r \notin fresh => pc[r] = "clear"

FrameInv == ReadType /\ HadIsClearing /\ EachReadItsOwnFrame

LEMMA FrameInvStep == FrameInv /\ [CameraNext]_cameraVars => FrameInv'
<1> SUFFICES ASSUME FrameInv, [CameraNext]_cameraVars
             PROVE  HadIsClearing' /\ EachReadItsOwnFrame'
  BY ReadTypeStep DEF FrameInv
<1> USE DEF FrameInv, ReadType, HadIsClearing, EachReadItsOwnFrame
<1>1. CASE UNCHANGED <<ver, waitVars>>
  BY <1>1 DEF waitVars
<1>2. CASE Frame \/ HandlerWakes
  BY <1>2 DEF Frame, HandlerWakes
<1>3. CASE HandlerSets
  BY <1>3 DEF HandlerSets
<1>4. ASSUME NEW r \in Readers, Read(r) \/ Prepare(r) \/ Sleep(r)
      PROVE  HadIsClearing' /\ EachReadItsOwnFrame'
  BY <1>4 DEF Read, Prepare, Sleep, Goto
<1>5. ASSUME NEW r \in Readers, WaitEnds(r)
      PROVE  HadIsClearing' /\ EachReadItsOwnFrame'
  BY <1>5 DEF WaitEnds, Goto
<1>6. ASSUME NEW r \in Readers, Signal(r)
      PROVE  HadIsClearing' /\ EachReadItsOwnFrame'
  BY <1>6 DEF Signal, Goto
<1>7. ASSUME NEW r \in Readers, CopyToUser(r)
      PROVE  HadIsClearing' /\ EachReadItsOwnFrame'
  BY <1>7 DEF CopyToUser, Goto
<1>8. ASSUME NEW r \in Readers, Clear(r)
      PROVE  HadIsClearing' /\ EachReadItsOwnFrame'
  BY <1>8 DEF Clear, Goto
<1> QED
  BY <1>1, <1>2, <1>3, <1>4, <1>5, <1>6, <1>7, <1>8
     DEF CameraNext, cameraVars, ReadStep, SetFormat, RequestBuffers, StreamOn

(* However many read, a read that no signal cut short copies a frame that  *)
(* was announced since its task's last one.                                *)
THEOREM AnnouncementServesOnce == CameraSpec => []EachReadItsOwnFrame
<1>1. CameraInit => FrameInv
  BY DEF CameraInit, FrameInv, ReadType, HadIsClearing, EachReadItsOwnFrame
<1>2. FrameInv => EachReadItsOwnFrame
  BY DEF FrameInv
<1> QED
  BY <1>1, <1>2, FrameInvStep, PTL DEF CameraSpec
-----------------------------------------------------------------------------
(* The images of the formats have two sizes.                               *)
LEMMA ImageBytes ==
  /\ Bytes(Depth["YUYV"]) = 576000
  /\ Bytes(Depth["RGB565"]) = 576000
  /\ Bytes(Depth["RGB24"]) = 864000
  /\ DOMAIN Depth = {"YUYV", "RGB565", "RGB24"}
BY DEF Bytes, Pixels, Depth

(* Both take 256 pages of the page allocator: what was allocated for one   *)
(* of them holds the other.                                                *)
LEMMA ImagePages == Pages(576000) = 1048576 /\ Pages(864000) = 1048576
<1> DEFINE P == {4096 * 2^order : order \in 0..10}
<1>1. P = {4096, 8192, 16384, 32768, 65536, 131072, 262144, 524288, 1048576,
           2097152, 4194304}
  <2>1. /\ 2^0 = 1 /\ 2^1 = 2 /\ 2^2 = 4 /\ 2^3 = 8 /\ 2^4 = 16 /\ 2^5 = 32
        /\ 2^6 = 64 /\ 2^7 = 128 /\ 2^8 = 256 /\ 2^9 = 512 /\ 2^10 = 1024
    OBVIOUS
  <2>2. 0..10 = {0, 1, 2, 3, 4, 5, 6, 7, 8, 9, 10}
    OBVIOUS
  <2>3. QED
    BY <2>1, <2>2
<1>2. QED
  BY <1>1 DEF Pages

(* A buffer, wherever it is noted, is one of these, and a format is one of *)
(* the three or has no bytes.                                              *)
FormatInv ==
  /\ buf_size \in {0, 576000, 864000}
  /\ out \in {"yuv", "rgb"} /\ rgb \in {"RGB565", "RGB24"}
  /\ buf \in {0, 1048576} /\ dma \in {0, 1048576}

LEMMA FormatStep == FormatInv /\ [CameraNext]_cameraVars => FormatInv'
<1> SUFFICES ASSUME FormatInv, [CameraNext]_cameraVars
             PROVE  FormatInv'
  OBVIOUS
<1> USE DEF FormatInv
<1>1. CASE UNCHANGED formatVars
  BY <1>1 DEF formatVars
<1>2. ASSUME NEW f \in DOMAIN Depth, SetFormat(f)
      PROVE  FormatInv'
  BY <1>2, ImageBytes DEF SetFormat
<1>3. CASE RequestBuffers
  BY <1>3, ImagePages DEF RequestBuffers
<1>4. CASE StreamOn
  BY <1>4 DEF StreamOn
<1>5. CASE Frame \/ HandlerWakes \/ HandlerSets
  BY <1>1, <1>5 DEF Frame, HandlerWakes, HandlerSets
<1>6. ASSUME NEW r \in Readers, ReadStep(r) \/ Read(r) \/ Signal(r)
      PROVE  FormatInv'
  BY <1>1, <1>6 DEF ReadStep, Read, Signal, WaitEnds, Prepare, Sleep,
     CopyToUser, Clear
<1> QED
  BY <1>1, <1>2, <1>3, <1>4, <1>5, <1>6 DEF CameraNext, cameraVars

(* In any order of the ioctls, frames and reads, for any number of         *)
(* readers, neither a frame nor a copy goes beyond what was allocated.     *)
THEOREM FramesFit == CameraSpec => []FrameFits
<1>1. CameraInit => FormatInv
  BY DEF CameraInit, FormatInv
<1>2. FormatInv => FrameFits
  BY ImageBytes DEF FormatInv, FrameFits
<1> QED
  BY <1>1, <1>2, FormatStep, PTL DEF CameraSpec
=============================================================================
