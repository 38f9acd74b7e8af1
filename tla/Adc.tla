--------------------------------- MODULE Adc ---------------------------------
(***************************************************************************)
(* adc/adc.c: a read takes the mutex, starts a conversion, sleeps until    *)
(* ADCCON says it is complete, drops the mutex and only then reads ADCDAT. *)
(* The end of a conversion raises an interrupt whose handler wakes the     *)
(* queue.                                                                  *)
(*                                                                         *)
(* The converter is modelled from how the driver uses it: bit 15 of ADCCON *)
(* falls when a conversion is started and rises when it is complete, and   *)
(* ADCDAT then holds the new sample.  A start while a conversion runs, as  *)
(* after an interrupted read, joins it.  Of ADCDAT the model keeps which   *)
(* reads it is an answer to: those that had started when it was completed. *)
(***************************************************************************)
CONSTANTS Tasks,           \* tasks that read
          Free             \* what the lock holds when no task does

ASSUME AdcAssumption == Free \notin Tasks

VARIABLES lock,            \* holder of padc->lock
          queue,           \* tasks on convert_queue
          busy, complete,  \* ADCCON: a conversion runs, bit 15
          data,            \* ADCDAT: the reads its sample is an answer to
          irq, handler,    \* interrupt pending; adc_complete's next step
          pc,              \* the next step of a read
          sig,             \* tasks with a signal pending
          cut,             \* history: reads whose wait a signal ended
          answered         \* reads that found an answer in ADCDAT

device == <<busy, complete, data, irq, handler>>
vars   == <<lock, queue, busy, complete, data, irq, handler, pc, sig, cut,
            answered>>

Init ==
  /\ lock = Free /\ queue = {}
  /\ busy = FALSE /\ complete = FALSE /\ data = {}
  /\ irq = FALSE /\ handler = "off"
  /\ pc = [t \in Tasks |-> "idle"]
  /\ sig = {} /\ cut = {} /\ answered = {}

Goto(t, from, to) == pc[t] = from /\ pc' = [pc EXCEPT ![t] = to]

WaitPCs    == {"prepare", "retest", "sleep"}
StartedPCs == {"test", "unlock"} \union WaitPCs
InLockPCs  == {"start"} \union StartedPCs

-----------------------------------------------------------------------------
(* The converter, and its interrupt.                                       *)

Convert ==
  /\ busy
  /\ busy' = FALSE /\ complete' = TRUE
  /\ data' = {t \in Tasks : pc[t] \in StartedPCs \union {"data"}}
  /\ irq' = TRUE
  /\ UNCHANGED <<lock, queue, handler, pc, sig, cut, answered>>

(* adc_complete: acknowledge the interrupt, ...                            *)
HandlerClear ==
  /\ irq /\ handler = "off"
  /\ irq' = FALSE
  /\ handler' = "wake"
  /\ UNCHANGED <<lock, queue, busy, complete, data, pc, sig, cut, answered>>

(* Mutant: ... and return.                                                 *)
HandlerWakesNobody ==
  /\ handler = "wake"
  /\ handler' = "off"
  /\ UNCHANGED <<lock, queue, busy, complete, data, irq, pc, sig, cut,
                 answered>>

(* ... then wake the queue.                                                *)
HandlerWake ==
  /\ handler = "wake"
  /\ queue' = {}
  /\ handler' = "off"
  /\ UNCHANGED <<lock, busy, complete, data, irq, pc, sig, cut, answered>>

-----------------------------------------------------------------------------
(* adc_read                                                                *)

Call(t) ==
  /\ Goto(t, "idle", "lock")
  /\ UNCHANGED <<lock, queue, device, sig, cut, answered>>

(* Mutant: no mutex.                                                       *)
LockUnchecked(t) ==
  /\ lock' = t
  /\ Goto(t, "lock", "start")
  /\ UNCHANGED <<queue, device, sig, cut, answered>>

Lock(t) ==
  /\ lock = Free
  /\ lock' = t
  /\ Goto(t, "lock", "start")
  /\ UNCHANGED <<queue, device, sig, cut, answered>>

(* Mutant: bit 15 of the last conversion is still there after a start.     *)
StartLeavesComplete(t) ==
  /\ Goto(t, "start", "test")
  /\ busy' = TRUE
  /\ data' = data \ {t}
  /\ UNCHANGED <<lock, queue, complete, irq, handler, sig, cut, answered>>

(* ADCCON |= 1: the sample in ADCDAT is older than this read.              *)
Start(t) ==
  /\ Goto(t, "start", "test")
  /\ busy' = TRUE /\ complete' = FALSE
  /\ data' = data \ {t}
  /\ UNCHANGED <<lock, queue, irq, handler, sig, cut, answered>>

(* wait_event_interruptible: test, queue up, test again, sleep; the result *)
(* is ignored, so a signal only means that the wait ends early.            *)
Test(t) ==
  /\ Goto(t, "test", IF complete THEN "unlock" ELSE "prepare")
  /\ UNCHANGED <<lock, queue, device, sig, cut, answered>>

Prepare(t) ==
  /\ Goto(t, "prepare", "retest")
  /\ queue' = queue \union {t}
  /\ UNCHANGED <<lock, device, sig, cut, answered>>

WaitDone(t) ==
  /\ complete \/ t \in sig
  /\ Goto(t, "retest", "unlock")
  /\ queue' = queue \ {t}
  /\ cut' = IF complete THEN cut ELSE cut \union {t}
  /\ UNCHANGED <<lock, device, sig, answered>>

(* Mutant: no test between queueing up and sleeping.                       *)
SleepUntested(t) ==
  /\ Goto(t, "retest", "sleep")
  /\ UNCHANGED <<lock, queue, device, sig, cut, answered>>

Sleep(t) ==
  /\ ~complete /\ t \notin sig
  /\ Goto(t, "retest", "sleep")
  /\ UNCHANGED <<lock, queue, device, sig, cut, answered>>

Resume(t) ==
  /\ t \notin queue \/ t \in sig
  /\ Goto(t, "sleep", "prepare")
  /\ UNCHANGED <<lock, queue, device, sig, cut, answered>>

Unlock(t) ==
  /\ Goto(t, "unlock", "data")
  /\ lock' = Free
  /\ UNCHANGED <<queue, device, sig, cut, answered>>

ReadData(t) ==
  /\ Goto(t, "data", "put")
  /\ answered' = answered \union (data \intersect {t})
  /\ UNCHANGED <<lock, queue, device, sig, cut>>

(* put_user, whose result is ignored, and back to user space, where a      *)
(* pending signal is delivered.                                            *)
Put(t) ==
  /\ Goto(t, "put", "idle")
  /\ sig' = sig \ {t} /\ cut' = cut \ {t}
  /\ data' = data \ {t} /\ answered' = answered \ {t}
  /\ UNCHANGED <<lock, queue, busy, complete, irq, handler>>

Signal(t) ==
  /\ pc[t] \in WaitPCs
  /\ sig' = sig \union {t}
  /\ UNCHANGED <<lock, queue, device, pc, cut, answered>>

-----------------------------------------------------------------------------
ReadStep(t) ==
  \/ Start(t) \/ Test(t) \/ Prepare(t) \/ WaitDone(t) \/ Sleep(t) \/ Resume(t)
  \/ Unlock(t) \/ ReadData(t) \/ Put(t)

Next ==
  \/ Convert \/ HandlerClear \/ HandlerWake
  \/ \E t \in Tasks : Call(t) \/ Lock(t) \/ ReadStep(t) \/ Signal(t)

(* A conversion ends, its interrupt is served, and a task that is not      *)
(* blocked runs on; who gets the mutex next is left open.                  *)
Fairness ==
  /\ WF_vars(Convert) /\ WF_vars(HandlerClear) /\ WF_vars(HandlerWake)
  /\ \A t \in Tasks : WF_vars(ReadStep(t))

Spec     == Init /\ [][Next]_vars
FairSpec == Spec /\ Fairness

-----------------------------------------------------------------------------
TypeOK ==
  /\ lock \in Tasks \union {Free}
  /\ queue \subseteq Tasks
  /\ busy \in BOOLEAN /\ complete \in BOOLEAN /\ irq \in BOOLEAN
  /\ data \subseteq Tasks
  /\ handler \in {"off", "wake"}
  /\ pc \in [Tasks -> {"idle", "lock", "data", "put"} \union InLockPCs]
  /\ sig \subseteq Tasks /\ cut \subseteq Tasks /\ answered \subseteq Tasks

(* Although ADCDAT is read after the mutex was dropped, when another task  *)
(* may have started the next conversion, a read that no signal cut short   *)
(* returns a sample completed after it started its own conversion.         *)
(* (adc.c:70-73)                                                           *)
SampleIsFresh ==
  \A t \in Tasks : pc[t] = "put" /\ t \notin cut => t \in answered

(* A reader sleeps over a complete conversion only while the interrupt     *)
(* that will wake it is pending or being served.  (adc.c:71, 112-114)      *)
NoLostWakeup ==
  \A t \in Tasks :
    pc[t] = "sleep" /\ t \in queue /\ complete => irq \/ handler = "wake"

(* While a read holds the mutex the converter is its own: nobody else      *)
(* starts a conversion or clears its completion.  (adc.c:69-72)            *)
ConversionIsMine ==
  [][\A t \in Tasks :
       pc[t] \in StartedPCs => /\ complete => complete'
                               /\ busy' => busy]_vars

(* Nobody keeps the mutex: the conversion that was started lets its reader *)
(* go, and the next reader need not care if it was interrupted.            *)
(* (adc.c:69-72)                                                           *)
MutexIsReleased == \A t \in Tasks : lock = t ~> lock # t
=============================================================================
