------------------------------- MODULE Camera -------------------------------
(***************************************************************************)
(* The camera driver, in its current version (ov3640/ov3640.c) and in the  *)
(* copy of it in 1/: formats and buffers, the frame interrupt, and reads.  *)
(***************************************************************************)
EXTENDS Naturals, FiniteSets, Functions

CONSTANTS
  Readers     \* the tasks that read frames

VARIABLES
  ver,        \* which version is loaded: "current" or "copy"
  buf_size,   \* bytes a read copies
  out, rgb,   \* CITRGFMTn and CISCCTRLn: kind of output, kind of rgb
  buf,        \* bytes allocated behind buffer[0], 0 when there are none
  dma,        \* bytes allocated where the controller writes frames
  streaming,  \* frames are captured
  condition,
  queue,      \* who is on ov3640_wq
  irq,        \* the handler: "off", "wake" or "set", its next statement
  pc, cut,    \* where a read is; it was cut short by a signal
  fresh,      \* a frame was announced since the reader's last complete read
  missed,     \* who slept while the last frame was announced, and still waits
  took        \* who has cleared condition since then

formatVars == <<buf_size, out, rgb, buf, dma, streaming>>
missVars   == <<missed, took>>
waitVars   == <<condition, queue, irq, pc, cut, fresh, missVars>>
cameraVars == <<ver, formatVars, waitVars>>

Pixels == 600 * 480
(* formats: the depth of each.                                             *)
(* Mutant: RGB24 in words of 32 bits.                                      *)
DepthInWords == [YUYV |-> 16, RGB565 |-> 16, RGB24 |-> 32]
Depth        == [YUYV |-> 16, RGB565 |-> 16, RGB24 |-> 24]
Bytes(depth) == (Pixels * depth) \div 8

(* What __get_free_pages gives for get_order(size); an order of 20, for no *)
(* bytes at all, is refused.                                               *)
Pages(size) == CHOOSE p \in {4096 * 2^order : order \in 0..10} :
                 size <= p /\ (size > p \div 2 \/ p = 4096)

CameraInit ==
  /\ ver \in {"current", "copy"}
  /\ buf_size = 0 /\ out = "yuv" /\ rgb = "RGB565"
  /\ buf = 0 /\ dma = 0 /\ streaming = FALSE
  /\ condition = 0 /\ queue = {} /\ irq = "off"
  /\ pc = [r \in Readers |-> "idle"]
  /\ cut = {} /\ fresh = {} /\ missed = {} /\ took = {}

(* Nothing but a wake-up or a signal lets this reader go on.               *)
Asleep(r) == pc[r] = "sleep" /\ r \in queue

-----------------------------------------------------------------------------
(* ov3640_s_fmt_vid_cap: height and width become 480 and 600, unless one   *)
(* of them was 0, and then the image has no bytes.  Nothing ever takes     *)
(* CISCCTRLn back from rgb of 24 bits.                                     *)
SetFormat(f) ==
  /\ buf_size' \in {0, Bytes(Depth[f])}
  /\ out' = IF f = "YUYV" THEN "yuv" ELSE "rgb"
  /\ rgb' = IF f = "RGB24" THEN f ELSE rgb
  /\ UNCHANGED <<ver, buf, dma, streaming, waitVars>>

(* ov3640_reqbufs: four allocations, the addresses given to the controller *)
(* when all succeeded; a failure leaves a null base, in buffer[0] when it  *)
(* was the first.  What was allocated before is forgotten.                 *)
RequestBuffers ==
  /\ \/ buf_size > 0 /\ buf' = Pages(buf_size) /\ dma' \in {buf', dma}
     \/ buf' = 0 /\ dma' = dma
  /\ UNCHANGED <<ver, buf_size, out, rgb, streaming, waitVars>>

(* ov3640_streamon; ov3640_streamoff stops nothing.                        *)
StreamOn ==
  /\ streaming' = TRUE
  /\ UNCHANGED <<ver, buf_size, out, rgb, buf, dma, waitVars>>

-----------------------------------------------------------------------------
(* A frame is in the buffer, and ov3640_interrupt wakes the readers before *)
(* it sets what they wait for.                                             *)
Frame ==
  /\ streaming /\ irq = "off"
  /\ irq' = "wake"
  /\ UNCHANGED <<ver, formatVars, condition, queue, pc, cut, fresh, missVars>>

(* Mutant: nobody is woken.                                                *)
HandlerWakesNobody ==
  /\ irq = "wake" /\ irq' = "set"
  /\ UNCHANGED <<ver, formatVars, condition, queue, pc, cut, fresh, missVars>>
HandlerWakes ==
  /\ irq = "wake" /\ irq' = "set"
  /\ queue' = {}
  /\ UNCHANGED <<ver, formatVars, condition, pc, cut, fresh, missVars>>

HandlerSets ==
  /\ irq = "set" /\ irq' = "off"
  /\ condition' = 1 /\ fresh' = Readers
  /\ missed' = {r \in Readers : Asleep(r)} /\ took' = {}
  /\ UNCHANGED <<ver, formatVars, queue, pc, cut>>

-----------------------------------------------------------------------------
(* ov3640_fops_read.  A signal ends the wait, and the read goes on.        *)
Goto(r, from, to) == pc[r] \in from /\ pc' = [pc EXCEPT ![r] = to]

Read(r) ==
  /\ Goto(r, {"idle"}, "test")
  /\ cut' = cut \ {r}
  /\ UNCHANGED <<ver, formatVars, condition, queue, irq, fresh, missVars>>

WaitEnds(r) ==
  /\ condition = 1
  /\ Goto(r, {"test", "retest"}, "copy")
  /\ queue' = queue \ {r} /\ missed' = missed \ {r}
  /\ UNCHANGED <<ver, formatVars, condition, irq, cut, fresh, took>>

Prepare(r) ==
  /\ \/ condition = 0 /\ Goto(r, {"test"}, "retest")
     \/ r \notin queue /\ Goto(r, {"sleep"}, "retest")
  /\ queue' = queue \cup {r}
  /\ UNCHANGED <<ver, formatVars, condition, irq, cut, fresh, missVars>>

(* Mutant: no test between queueing up and going to sleep.                 *)
SleepUntested(r) ==
  /\ Goto(r, {"retest"}, "sleep")
  /\ UNCHANGED <<ver, formatVars, condition, queue, irq, cut, fresh, missVars>>
Sleep(r) ==
  /\ condition = 0
  /\ Goto(r, {"retest"}, "sleep")
  /\ UNCHANGED <<ver, formatVars, condition, queue, irq, cut, fresh, missVars>>

Signal(r) ==
  /\ condition = 0
  /\ Goto(r, {"retest", "sleep"}, "copy")
  /\ queue' = queue \ {r} /\ cut' = cut \cup {r}
  /\ missed' = missed \ {r}
  /\ UNCHANGED <<ver, formatVars, condition, irq, fresh, took>>

(* The current version returns at once when the copy faults.  The one in   *)
(* 1/ has the test the other way round: it returns -EAGAIN when the copy   *)
(* succeeds.                                                               *)
CopyToUser(r) ==
  /\ \E faulted \in BOOLEAN :
       /\ Goto(r, {"copy"}, IF faulted = (ver = "current") THEN "idle"
                                                           ELSE "clear")
       /\ fresh' = IF faulted THEN fresh ELSE fresh \ {r}
  /\ UNCHANGED <<ver, formatVars, condition, queue, irq, cut, missVars>>

(* Mutant: the condition stays.                                            *)
ClearNothing(r) ==
  /\ Goto(r, {"clear"}, "idle")
  /\ UNCHANGED <<ver, formatVars, condition, queue, irq, cut, fresh, missVars>>
Clear(r) ==
  /\ Goto(r, {"clear"}, "idle")
  /\ condition' = 0 /\ took' = took \cup {r}
  /\ UNCHANGED <<ver, formatVars, queue, irq, cut, fresh, missed>>

-----------------------------------------------------------------------------
ReadStep(r) ==
  WaitEnds(r) \/ Prepare(r) \/ Sleep(r) \/ CopyToUser(r) \/ Clear(r)

CameraNext ==
  \/ \E f \in DOMAIN Depth : SetFormat(f)
  \/ RequestBuffers \/ StreamOn
  \/ Frame \/ HandlerWakes \/ HandlerSets
  \/ \E r \in Readers : ReadStep(r) \/ Read(r) \/ Signal(r)

CameraSpec == CameraInit /\ [][CameraNext]_cameraVars

(* The camera goes on sending frames once it streams, the handler runs to  *)
(* its end, and a reader that can run does.                                *)
FairCameraSpec ==
  /\ CameraSpec
  /\ WF_cameraVars(Frame)
  /\ WF_cameraVars(HandlerWakes) /\ WF_cameraVars(HandlerSets)
  /\ \A r \in Readers : WF_cameraVars(ReadStep(r))

-----------------------------------------------------------------------------
(* ov3640_interrupt wakes before it sets condition, so a reader may test   *)
(* in between and sleep on a frame that has come.  If it sleeps on the     *)
(* next one too, another reader has taken the first in between: a reader   *)
(* alone sleeps through one announcement, not two in a row.  (With others  *)
(* it may be passed over at every frame.)                                  *)
SecondMissIsAnothersGain ==
  irq = "set" =>
    \A r \in missed : Asleep(r) => \E s \in took : s # r

(* No announcement lets the same reader through twice, whoever else reads, *)
(* and whatever faults in between: condition is cleared only after the     *)
(* copy.  (The version in 1/ does not clear it, and never waits again.)    *)
EachReadItsOwnFrame ==
  ver = "current" =>
    \A r \in Readers : pc[r] = "copy" /\ r \notin cut => r \in fresh

(* Whatever the order of VIDIOC_S_FMT, VIDIOC_REQBUFS, VIDIOC_STREAMON and *)
(* read, where there are buffers neither a frame nor a copy goes beyond    *)
(* what was allocated, though a change of format does not allocate anew    *)
(* and CISCCTRLn keeps rgb of 24 bits.                                     *)
FrameFits ==
  /\ streaming /\ dma > 0 =>
       Bytes(Depth[IF out = "yuv" THEN "YUYV" ELSE rgb]) <= dma
  /\ \A r \in Readers : pc[r] = "copy" /\ buf > 0 => buf_size <= buf

(* While frames come, reads do not all wait for ever.                      *)
SomeReaderServed ==
  (streaming /\ \E r \in Readers : pc[r] \in {"test", "retest", "sleep"})
    ~> (\E r \in Readers : pc[r] = "copy")
=============================================================================
