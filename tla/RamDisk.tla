------------------------------ MODULE RamDisk ------------------------------
(***************************************************************************)
(* The ram disk of mydisk.c, in the mode its device tree entry selects:    *)
(* with the block layer's queue, whose lock mydisk_request holds, or       *)
(* without it, when my_make_request_func runs on any processor at once.    *)
(***************************************************************************)
EXTENDS Integers, Sequences, FiniteSetsExt

CONSTANTS
  MaxChunks,   \* chunks of a request
  Cpus,        \* processors that submit bios
  LastSector,  \* the sectors they write are 1..LastSector
  Turns        \* a processor's writes are told apart by this many tags

ASSUME RamDiskAssumption == LastSector \in Nat /\ Turns \in Nat \ {0}

VARIABLES
  mode,        \* "request" or "bio"
  (* mydisk_request *)
  fits,        \* for each chunk of the request: within the capacity
  at,          \* the chunk the inner loops are at
  status,
  stage,       \* "fetch", "scan" or "end"
  result,      \* for each chunk that has ended: its status
  copied,      \* the chunks that were copied
  (* my_make_request_func *)
  data,        \* what each sector holds
  range,       \* for each processor: the sectors its write is for
  todo,        \* those it has still to store
  turn,        \* tells a processor's writes apart
  may,         \* what callers may find in each sector
  gone         \* for a write under way: what its end takes from "may"

requestVars == <<fits, at, status, stage, result, copied>>
bioVars     == <<data, range, todo, turn, may, gone>>
diskVars    == <<mode, requestVars, bioVars>>

Sectors == 1..LastSector

EIO == 5

DiskInit ==
  /\ mode \in {"request", "bio"}
  /\ fits = <<>> /\ at = 1 /\ status = 0 /\ stage = "fetch"
  /\ result = <<>> /\ copied = {}
  /\ data = [s \in Sectors |-> <<>>]
  /\ range = [c \in Cpus |-> {}] /\ todo = [c \in Cpus |-> {}]
  /\ turn = [c \in Cpus |-> 0]
  /\ may = [s \in Sectors |-> {<<>>}]
  /\ gone = [c \in Cpus |-> [s \in Sectors |-> {}]]

-----------------------------------------------------------------------------
(* mydisk_request.  The sectors of a request ascend: once a bio is beyond  *)
(* the capacity, so is the rest.                                           *)
Fetch ==
  /\ mode = "request" /\ stage = "fetch"
  /\ \E n \in 1..MaxChunks : \E beyond \in 1..(n + 1) :
       fits' = [c \in 1..n |-> c < beyond]
  /\ at' = 1 /\ stage' = "scan" /\ result' = <<>> /\ copied' = {}
  /\ UNCHANGED <<mode, status, bioVars>>

CopyChunk ==
  /\ stage = "scan" /\ at <= Len(fits) /\ fits[at]
  /\ copied' = copied \cup {at} /\ status' = 0
  /\ at' = at + 1
  /\ UNCHANGED <<mode, fits, stage, result, bioVars>>

Beyond ==
  /\ stage = "scan" /\ at <= Len(fits) /\ ~fits[at]
  /\ status' = -EIO /\ stage' = "end"
  /\ UNCHANGED <<mode, fits, at, result, copied, bioVars>>

ScanDone ==
  /\ stage = "scan" /\ at > Len(fits)
  /\ stage' = "end"
  /\ UNCHANGED <<mode, fits, at, status, result, copied, bioVars>>

(* __blk_end_request_cur ends the first chunk that is left, and the loop   *)
(* goes over all that remain.                                              *)
(* Mutant: from the first on again.                                        *)
EndChunkRestarts ==
  /\ stage = "end"
  /\ result' = Append(result, status)
  /\ stage' = IF Len(result') = Len(fits) THEN "fetch" ELSE "scan"
  /\ at' = 1
  /\ UNCHANGED <<mode, fits, status, copied, bioVars>>
(* Mutant: nothing ends on an error.                                       *)
EndChunkRetries ==
  /\ stage = "end"
  /\ result' = IF status = 0 THEN Append(result, status) ELSE result
  /\ stage' = IF Len(result') = Len(fits) THEN "fetch" ELSE "scan"
  /\ at' = Len(result') + 1
  /\ UNCHANGED <<mode, fits, status, copied, bioVars>>
EndChunk ==
  /\ stage = "end"
  /\ result' = Append(result, status)
  /\ stage' = IF Len(result') = Len(fits) THEN "fetch" ELSE "scan"
  /\ at' = Len(result') + 1
  /\ UNCHANGED <<mode, fits, status, copied, bioVars>>

-----------------------------------------------------------------------------
(* my_make_request_func, for a write of consecutive sectors; reads change *)
(* nothing.  While a write is under way a caller may find what it writes,  *)
(* and once it has ended no longer what had ended before it began.         *)
Tag(c) == <<c, turn[c]>>
UnderWay(s) == {Tag(c) : c \in {d \in Cpus : s \in range[d]}}

Submit(c) ==
  /\ mode = "bio" /\ range[c] = {}
  /\ \E first \in Sectors : \E last \in first..LastSector :
       /\ range' = [range EXCEPT ![c] = first..last]
       /\ todo' = [todo EXCEPT ![c] = first..last]
       /\ may' = [s \in Sectors |->
                    may[s] \cup (IF s \in first..last THEN {Tag(c)} ELSE {})]
  /\ gone' = [d \in Cpus |-> [s \in Sectors |->
                (IF d = c THEN may[s] \ UnderWay(s) ELSE gone[d][s]) \ {Tag(c)}]]
  /\ UNCHANGED <<mode, requestVars, data, turn>>

(* memcpy, a sector at a time.  Two processors may mix their bytes within  *)
(* a sector; what holds of the sector here holds there of each byte.       *)
StoreSector(c) ==
  /\ todo[c] # {}
  /\ data' = [data EXCEPT ![Min(todo[c])] = Tag(c)]
  /\ todo' = [todo EXCEPT ![c] = @ \ {Min(@)}]
  /\ UNCHANGED <<mode, requestVars, range, turn, may, gone>>

(* bio_endio.                                                              *)
(* Mutant: with the last sector still to store.                            *)
EndBioEarly(c) ==
  /\ range[c] # {} /\ todo[c] \subseteq {Max(range[c])}
  /\ range' = [range EXCEPT ![c] = {}]
  /\ may' = [s \in Sectors |-> IF s \in range[c]
                               THEN (may[s] \ gone[c][s]) \cup {Tag(c)}
                               ELSE may[s]]
  /\ turn' = [turn EXCEPT ![c] = (@ + 1) % Turns]
  /\ todo' = [todo EXCEPT ![c] = {}]
  /\ gone' = [gone EXCEPT ![c] = [s \in Sectors |-> {}]]
  /\ UNCHANGED <<mode, requestVars, data>>
EndBio(c) ==
  /\ range[c] # {} /\ todo[c] = {}
  /\ range' = [range EXCEPT ![c] = {}]
  /\ may' = [s \in Sectors |-> IF s \in range[c]
                               THEN (may[s] \ gone[c][s]) \cup {Tag(c)}
                               ELSE may[s]]
  /\ turn' = [turn EXCEPT ![c] = (@ + 1) % Turns]
  /\ gone' = [gone EXCEPT ![c] = [s \in Sectors |-> {}]]
  /\ UNCHANGED <<mode, requestVars, data, todo>>

RequestStep == CopyChunk \/ Beyond \/ ScanDone \/ EndChunk
DiskNext == \/ Fetch \/ RequestStep
            \/ \E c \in Cpus : Submit(c) \/ StoreSector(c) \/ EndBio(c)

DiskSpec == DiskInit /\ [][DiskNext]_diskVars

(* The queue's function runs to its end; no request need ever come.        *)
FairDiskSpec == DiskSpec /\ WF_diskVars(RequestStep)

-----------------------------------------------------------------------------
(* __blk_end_request_cur ends one chunk with the status of a loop over all *)
(* that are left: no chunk ends well that was not copied, none fails that  *)
(* lies within the capacity along with all after it, and what has ended,   *)
(* whose pages are its owner's again, is not copied once more.             *)
EndsAfterCopy ==
  /\ \A c \in 1..Len(result) :
       IF result[c] = 0 THEN c \in copied
       ELSE \E d \in c..Len(fits) : ~fits[d]
  /\ stage = "scan" => at > Len(result)

(* A request ends whatever part of it lies beyond the capacity.            *)
EveryRequestEnds == stage = "scan" ~> stage = "fetch"

(* my_make_request_func takes no lock.  Still a write that has ended is    *)
(* there until a write that ended after it began replaces it, sector by    *)
(* sector, in whatever order processors store.                             *)
WritesLast == \A s \in Sectors : data[s] \in may[s]
=============================================================================
