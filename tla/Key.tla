--------------------------------- MODULE Key ---------------------------------
(***************************************************************************)
(* key/key.c: a push button.  Its interrupt arms a debouncing timer, the   *)
(* timer announces the press in the atomic `available' and wakes the wait  *)
(* queue; read and poll both test for a press with atomic_dec_and_test,    *)
(* which changes what it tests.  Init is the state key_probe leaves.       *)
(***************************************************************************)
EXTENDS Integers, FiniteSets

CONSTANTS Readers,       \* tasks that call read
          Pollers,       \* tasks that call select or poll (may be the same)
          MaxMisses,     \* bound: no call starts with available below -MaxMisses
          MaxCredit      \* bound: no interrupt with this many presses unread

Tasks == Readers \union Pollers

ASSUME KeyAssumption ==
  /\ MaxMisses \in Nat /\ MaxCredit \in Nat
  /\ IsFiniteSet(Tasks)

VARIABLES available,     \* pkey->available
          queue,         \* tasks on convert_queue that no wake-up has reached
          armed,         \* my_timer is pending
          timer,         \* my_key_down: "off", "set" or "wake", its next step
          file,          \* tasks that have the device open
          sig,           \* tasks with a signal pending
          pc,            \* the next step of the call a task is in
          told,          \* tasks whose last poll said "readable"
          credit         \* history: timer runs minus reads that saw a press

vars == <<available, queue, armed, timer, file, sig, pc, told, credit>>

Init ==
  /\ available = 0
  /\ queue = {}
  /\ armed = TRUE        \* init_key adds the timer before any key is pressed
  /\ timer = "off"
  /\ file = {} /\ sig = {} /\ told = {}
  /\ pc = [t \in Tasks |-> "idle"]
  /\ credit = 0

-----------------------------------------------------------------------------
(* The device's side.                                                      *)

(* key_interrupte: mod_timer arms the timer or puts it off.                *)
Interrupt ==
  /\ credit < MaxCredit
  /\ armed' = TRUE
  /\ UNCHANGED <<available, queue, timer, file, sig, pc, told, credit>>

TimerFires ==
  /\ armed /\ timer = "off"
  /\ armed' = FALSE
  /\ timer' = "set"
  /\ UNCHANGED <<available, queue, file, sig, pc, told, credit>>

TimerSet ==
  /\ timer = "set"
  /\ available' = 1
  /\ credit' = credit + 1
  /\ timer' = "wake"
  /\ UNCHANGED <<queue, armed, file, sig, pc, told>>

(* Mutant: the waiters are not woken.                                      *)
TimerWakesNobody ==
  /\ timer = "wake"
  /\ timer' = "off"
  /\ UNCHANGED <<available, queue, armed, file, sig, pc, told, credit>>

TimerWake ==
  /\ timer = "wake"
  /\ queue' = {}
  /\ timer' = "off"
  /\ UNCHANGED <<available, armed, file, sig, pc, told, credit>>

-----------------------------------------------------------------------------
Goto(t, from, to) == pc[t] = from /\ pc' = [pc EXCEPT ![t] = to]

(* key_open: whatever was pending is forgotten.                            *)
Open(t) ==
  /\ pc[t] = "idle" /\ t \notin file
  /\ file' = file \union {t}
  /\ available' = 0
  /\ UNCHANGED <<queue, armed, timer, sig, pc, told, credit>>

Release(t) ==
  /\ pc[t] = "idle" /\ t \in file
  /\ file' = file \ {t}
  /\ told' = told \ {t}
  /\ UNCHANGED <<available, queue, armed, timer, sig, pc, credit>>

Call(t, first) ==
  /\ t \in file /\ available >= -MaxMisses
  /\ Goto(t, "idle", first)
  /\ UNCHANGED <<available, queue, armed, timer, file, sig, told, credit>>

(* atomic_dec_and_test: the counter goes down whatever the answer.         *)
Pressed == available = 1

(* Mutant: a plain test of the counter.                                    *)
TestOnly == available' = available
Test     == available' = available - 1

(* The call returns: off the queue, a pending signal is delivered.         *)
Return(t) ==
  /\ pc' = [pc EXCEPT ![t] = "idle"]
  /\ queue' = queue \ {t}
  /\ sig' = sig \ {t}

(* key_read: wait_event_interruptible evaluates its condition once before  *)
(* and once after each time it gets on the queue.                          *)
ReadFinds(t) ==
  /\ pc[t] \in {"r_test", "r_retest"}
  /\ Pressed /\ Test
  /\ Return(t)
  /\ told' = told \ {t}
  /\ credit' = credit - 1
  /\ UNCHANGED <<armed, timer, file>>

ReadMisses(t) ==
  /\ ~Pressed /\ Test
  /\ \/ Goto(t, "r_test", "r_prepare")
     \/ t \notin sig /\ Goto(t, "r_retest", "r_sleep")
  /\ UNCHANGED <<queue, armed, timer, file, sig, told, credit>>

(* A signal ends the wait, and the read returns as if a key was pressed.   *)
ReadInterrupted(t) ==
  /\ pc[t] = "r_retest" /\ t \in sig
  /\ ~Pressed /\ Test
  /\ Return(t)
  /\ told' = told \ {t}
  /\ UNCHANGED <<armed, timer, file, credit>>

(* prepare_to_wait in a read, poll_wait in a poll.                         *)
Prepare(t) ==
  /\ \/ Goto(t, "r_prepare", "r_retest")
     \/ Goto(t, "p_arm", "p_test")
  /\ queue' = queue \union {t}
  /\ UNCHANGED <<available, armed, timer, file, sig, told, credit>>

Resume(t) ==
  /\ t \notin queue \/ t \in sig
  /\ \/ Goto(t, "r_sleep", "r_prepare")
     \/ t \notin sig /\ Goto(t, "p_sleep", "p_arm")
  /\ UNCHANGED <<available, queue, armed, timer, file, sig, told, credit>>

(* key_poll under select: test, and if there was a press put it back.      *)
PollFinds(t) ==
  /\ Pressed /\ Test
  /\ Goto(t, "p_test", "p_restore")
  /\ UNCHANGED <<queue, armed, timer, file, sig, told, credit>>

PollMisses(t) ==
  /\ ~Pressed /\ Test
  /\ Goto(t, "p_test", "p_sleep")
  /\ UNCHANGED <<queue, armed, timer, file, sig, told, credit>>

(* Mutant: the press a poll has taken is not put back.                     *)
PollKeeps(t) ==
  /\ pc[t] = "p_restore"
  /\ Return(t)
  /\ told' = told \union {t}
  /\ UNCHANGED <<available, armed, timer, file, credit>>

PollRestore(t) ==
  /\ pc[t] = "p_restore"
  /\ available' = 1
  /\ Return(t)
  /\ told' = told \union {t}
  /\ UNCHANGED <<armed, timer, file, credit>>

(* select returns empty-handed after a signal.                             *)
PollInterrupted(t) ==
  /\ pc[t] = "p_sleep" /\ t \in sig
  /\ Return(t)
  /\ UNCHANGED <<available, armed, timer, file, told, credit>>

Signal(t) ==
  /\ pc[t] \in {"r_prepare", "r_retest", "r_sleep", "p_sleep"}
  /\ sig' = sig \union {t}
  /\ UNCHANGED <<available, queue, armed, timer, file, pc, told, credit>>

-----------------------------------------------------------------------------
CallStep(t) ==
  \/ ReadFinds(t) \/ ReadMisses(t) \/ ReadInterrupted(t)
  \/ Prepare(t) \/ Resume(t)
  \/ PollFinds(t) \/ PollMisses(t) \/ PollRestore(t) \/ PollInterrupted(t)

Next ==
  \/ Interrupt \/ TimerFires \/ TimerSet \/ TimerWake
  \/ \E t \in Tasks : Open(t) \/ Release(t) \/ Signal(t) \/ CallStep(t)
  \/ \E t \in Readers : Call(t, "r_test")
  \/ \E t \in Pollers : Call(t, "p_arm")

(* A pending timer fires and its handler runs; a task in a call that is    *)
(* not asleep is scheduled.  Nobody has to press a key or to call.         *)
Fairness ==
  /\ WF_vars(TimerFires \/ TimerSet \/ TimerWake)
  /\ \A t \in Tasks : WF_vars(CallStep(t))

Spec     == Init /\ [][Next]_vars
FairSpec == Spec /\ Fairness

-----------------------------------------------------------------------------
TypeOK ==
  /\ available \in Int /\ available <= 1
  /\ queue \subseteq Tasks /\ file \subseteq Tasks /\ sig \subseteq Tasks
  /\ told \subseteq Tasks
  /\ armed \in BOOLEAN
  /\ timer \in {"off", "set", "wake"}
  /\ pc \in [Tasks -> {"idle", "r_test", "r_prepare", "r_retest", "r_sleep",
                       "p_arm", "p_test", "p_restore", "p_sleep"}]
  /\ credit \in Int

Restoring == {t \in Tasks : pc[t] = "p_restore"}

(* No press is read twice: presses that can still be found, the announced  *)
(* one and those a poll is about to put back, are never more than the      *)
(* timer announced and no read has taken, although poll takes and restores *)
(* in two steps.  (key.c:94, 135-137, 155)                                 *)
NoPressTwice ==
  Cardinality(Restoring) + (IF available = 1 THEN 1 ELSE 0) <= credit

(* One task that uses the device on its own.                               *)

(* A task that sleeps in read or select over a press is about to be woken. *)
(* (key.c:94, 133-137, 155-156)                                            *)
NoLostWakeup ==
  \A t \in Tasks :
    pc[t] \in {"r_sleep", "p_sleep"} /\ t \in queue /\ available = 1 =>
      timer = "wake"

(* After a poll that says "readable" (key.c:136) the next read of the task *)
(* finds the press and does not sleep.                                     *)
ReadableMeansNoSleep ==
  \A t \in told : pc[t] \notin {"r_prepare", "r_retest", "r_sleep"}

(* A key press, once the timer runs, ends the sleep of the task waiting    *)
(* for it.  (key.c:149-156, 166)                                           *)
PressEndsTheSleep ==
  \A t \in Tasks :
    (pc[t] \in {"r_sleep", "p_sleep"} /\ armed) ~> (pc[t] = "idle")
=============================================================================
