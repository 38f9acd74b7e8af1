------------------------------ MODULE Lifecycle ------------------------------
(***************************************************************************)
(* One driver of the table Drivers from the loading of its code to its     *)
(* removal, together with what the kernel lets run meanwhile: opens and    *)
(* calls, the interrupt handler, a timer or a work item.  Any step may     *)
(* fail that the code or the kernel lets fail.                             *)
(***************************************************************************)
EXTENDS DriverRules

VARIABLES
  drv,      \* the driver
  phase,    \* "init", "undo" (after a failure), "in", "exit", or at the end
            \* "failed" or "gone"
  at,       \* the step of init that is next, or that failed
  todo,     \* what is still to be released
  has,      \* what is there: acquired, initialised, or loaded
  freed,    \* what has been released
  opened,   \* some task has the device open
  pend      \* timers and work items that are armed

vars == <<drv, phase, at, todo, has, freed, opened, pend>>

D == Drivers[drv]

Init ==
  /\ drv \in DOMAIN Drivers
  /\ phase = "init" /\ at = 1 /\ todo = <<>>
  /\ has = {"text", "live"} /\ freed = {} /\ opened = FALSE /\ pend = {}

(* The next step of init or probe succeeds ...                             *)
Acquire ==
  /\ phase = "init" /\ at <= Len(D.init)
  /\ LET s == D.init[at]
         given == IF s.fails THEN {} ELSE ToSet(s.undo)
     IN /\ has' = (has \cup {s.name}) \ given
        /\ freed' = (freed \ {s.name}) \cup given
        /\ pend' = pend \cup ({s.name} \cap {"timer"})
  /\ at' = at + 1
  /\ UNCHANGED <<drv, phase, todo, opened>>

(* ... or fails, and what the code releases then is released in order.     *)
Fail ==
  /\ phase = "init" /\ at <= Len(D.init) /\ D.init[at].fails
  /\ phase' = "undo" /\ todo' = D.init[at].undo
  /\ UNCHANGED <<drv, at, has, freed, opened, pend>>

Undone ==
  /\ phase = "undo" /\ todo = <<>>
  /\ LET skip == D.init[at].skip
     IN IF skip > 0
        THEN phase' = "init" /\ at' = at + skip /\ has' = has
        ELSE /\ phase' = "failed" /\ at' = at
             /\ has' = IF D.module THEN has \ {"text"} ELSE has
  /\ UNCHANGED <<drv, todo, freed, opened, pend>>

Loaded ==
  /\ phase = "init" /\ at > Len(D.init)
  /\ phase' = "in"
  /\ UNCHANGED <<drv, at, todo, has, freed, opened, pend>>

(* Once rmmod has begun, nothing that names its owner can be opened.       *)
TakeDown ==
  /\ phase = "in"
  /\ \E way \in D.ways :
       /\ way.pinned => ~opened
       /\ has' = IF way.pinned THEN has \ {"live"} ELSE has
       /\ todo' = way.steps
  /\ phase' = "exit"
  /\ UNCHANGED <<drv, at, freed, opened, pend>>

Release ==
  /\ todo # <<>>
  /\ has' = has \ {Head(todo)}
  /\ freed' = freed \cup {Head(todo)}
  /\ todo' = Tail(todo)
  /\ UNCHANGED <<drv, phase, at, opened, pend>>

(* The driver core forgets the device when remove has returned.            *)
Removed ==
  /\ phase = "exit" /\ todo = <<>>
  /\ phase' = "gone" /\ has' = has \ {"bound"}
  /\ UNCHANGED <<drv, at, todo, freed, opened, pend>>

-----------------------------------------------------------------------------
(* What runs meanwhile.                                                    *)

Open ==
  /\ ~opened /\ "call" \in DOMAIN D.uses
  /\ D.node \cup {"live"} \subseteq has
  /\ opened' = TRUE
  /\ UNCHANGED <<drv, phase, at, todo, has, freed, pend>>

Close ==
  /\ opened
  /\ opened' = FALSE
  /\ UNCHANGED <<drv, phase, at, todo, has, freed, pend>>

Interrupt ==
  /\ "irq" \in has
  /\ pend' = pend \cup D.kicks
  /\ UNCHANGED <<drv, phase, at, todo, has, freed, opened>>

Deferred ==
  /\ \E e \in pend : pend' = pend \ {e}
  /\ UNCHANGED <<drv, phase, at, todo, has, freed, opened>>

Next == \/ Acquire \/ Fail \/ Undone \/ Loaded \/ TakeDown \/ Release
        \/ Removed \/ Open \/ Close \/ Interrupt \/ Deferred

Spec == Init /\ [][Next]_vars

(* Loading or loaded, rather than on the way out.                          *)
Coming == \/ phase \in {"init", "in"}
          \/ phase = "undo" /\ D.init[at].skip > 0

(* What could not be had, and was gone on without.                         *)
Lost == {x \in {D.init[i].name : i \in {j \in 1..(at - 1) :
                                             D.init[j].skip > 0}} :
           x \notin has \cup freed}

(* What can run now, and would use what is not there.                      *)
Runnable(e) ==
  CASE e = "init"            -> phase = "init"
    [] e = "open"            -> D.node \cup {"live"} \subseteq has
    [] e = "call"            -> opened
    [] e \in {"irq", "attr"} -> e \in has
    [] OTHER                 -> e \in pend
Missing(e) == IF e = "init" THEN D.uses[e] \cap Lost
              ELSE (D.uses[e] \cup {"text"}) \ has
Faults == UNION {{<<e, x>> : x \in Missing(e)} :
                   e \in {f \in DOMAIN D.uses : Runnable(f)}}

-----------------------------------------------------------------------------
(* While a driver comes up and serves, what can run finds what it uses,    *)
(* apart from the named exceptions: the order in which the init and probe  *)
(* functions make things and make them reachable, and what they check.     *)
ReadyWhenReachable ==
  Coming => \A f \in Faults :
              f \in IF f[2] \in Lost THEN Unchecked(drv) ELSE Early(drv)

(* On the way out and afterwards nothing runs on what is not there, apart  *)
(* from the named exceptions: the teardown order of the error paths, and   *)
(* of exit and remove.                                                     *)
QuietWhenGone ==
  ~Coming => \A f \in Faults :
               \/ f[2] \in Lost
               \/ f \in IF at <= Len(D.init) THEN DanglingOnFailure(drv)
                                             ELSE DanglingOnRemoval(drv)

-----------------------------------------------------------------------------
(* A failed attempt and a removal give back all they took but for that.    *)
GivesBack ==
  /\ phase = "failed" =>
       has \ Inner \subseteq LeftByFailure(drv, D.init[at].name)
  /\ phase = "gone" =>
       has \ Inner \subseteq LeftByRemoval(drv, "text" \in has)

(* Nothing is released twice, and nothing that was never there, but for the *)
(* known exceptions.                                                       *)
ReleasedOnce ==
  todo # <<>> =>
    \/ Head(todo) \in has
    \/ Head(todo) \in NullSafe \ freed
    \/ <<drv, Head(todo)>> \in Misreleased

(* What the init, probe, exit and remove functions of the driver say they  *)
(* do follows the rules of DriverRules, exceptions included: this much can *)
(* be read off the code without running it, and Lifecycle_proofs shows     *)
(* that the other four follow.                                             *)
TableFollowsRules == FollowsRules(drv)
=============================================================================
