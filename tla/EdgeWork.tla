------------------------------ MODULE EdgeWork ------------------------------
(***************************************************************************)
(* The two input drivers whose interrupt leaves the i2c transfers to a     *)
(* work item: the touchscreen gt818, which keeps its interrupt disabled    *)
(* until the work is done, and the accelerometer mpu6050, which does not.  *)
(* The interrupt core, the workqueue and the i2c bus are external.         *)
(***************************************************************************)
EXTENDS Integers

CONSTANTS
  MaxTouches    \* the touches the gt818 reports at once

ASSUME MaxTouchesAssumption == MaxTouches \in 0..15

VARIABLES
  drv,        \* "gt818" or "mpu6050"
  latched,    \* an edge the interrupt core has not delivered
  depth,      \* how often the interrupt is disabled
  handler,    \* the handler: "off", "disable" or "schedule"
  queued,     \* the work item is pending
  work,       \* where the work item is
  n,          \* how many registers it reads after the first
  i,          \* how many of them it has read
  tries,      \* attempts at the end command
  owed        \* an edge came since a work item began to read

vars == <<drv, latched, depth, handler, queued, work, n, i, tries, owed>>
irqVars  == <<latched, depth, handler>>
workVars == <<work, n, i, tries>>

Init ==
  /\ drv \in {"gt818", "mpu6050"}
  /\ latched = FALSE /\ depth = 0 /\ handler = "off"
  /\ queued = FALSE /\ work = "idle"
  /\ n = 0 /\ i = 0 /\ tries = 0 /\ owed = FALSE

-----------------------------------------------------------------------------
(* The interrupt core: an edge that cannot be delivered now is kept, once, *)
(* and delivered when the handler has returned or enable_irq is called.    *)
Edge ==
  /\ latched' = TRUE /\ owed' = TRUE
  /\ UNCHANGED <<drv, depth, handler, queued, workVars>>

Deliver ==
  /\ latched /\ depth = 0 /\ handler = "off"
  /\ latched' = FALSE
  /\ handler' = IF drv = "gt818" THEN "disable" ELSE "schedule"
  /\ UNCHANGED <<drv, depth, queued, workVars, owed>>

(* ts_interrupt_disable.                                                   *)
Disable ==
  /\ handler = "disable" /\ handler' = "schedule"
  /\ depth' = depth + 1
  /\ UNCHANGED <<drv, latched, queued, workVars, owed>>

(* schedule_work: nothing happens if the item is pending already.          *)
Schedule ==
  /\ handler = "schedule" /\ handler' = "off"
  /\ queued' = TRUE
  /\ UNCHANGED <<drv, latched, depth, workVars, owed>>

-----------------------------------------------------------------------------
(* The work items, ts_work and work_mpu6050_half.                          *)
Begin ==
  /\ queued /\ work = "idle"
  /\ queued' = FALSE /\ work' = "first"
  /\ UNCHANGED <<drv, irqVars, n, i, tries, owed>>

EAGAIN == 11

(* ts_read(0x712): the number of touches in the low bits, or -EAGAIN.      *)
TouchesRead == {-EAGAIN} \cup 0..MaxTouches

(* The low bits are taken for a number in either case.                     *)
(* Mutant: a failed read ends the work.                                    *)
FirstReadGivesUp ==
  /\ work = "first" /\ drv = "gt818"
  /\ \E ret \in TouchesRead :
       /\ n' = (ret % 16) * 8
       /\ work' = IF ret < 0 THEN "idle" ELSE "end"
  /\ i' = 0 /\ owed' = FALSE
  /\ UNCHANGED <<drv, irqVars, queued, tries>>
FirstRead ==
  /\ work = "first" /\ drv = "gt818"
  /\ \E ret \in TouchesRead : n' = (ret % 16) * 8
  /\ work' = "end" /\ i' = 0 /\ owed' = FALSE
  /\ UNCHANGED <<drv, irqVars, queued, tries>>

(* The accelerometer: six registers, each read with or without success.    *)
AxisRead ==
  /\ work = "first" /\ drv = "mpu6050"
  /\ owed' = IF i = 0 THEN FALSE ELSE owed
  /\ i' = (i + 1) % 6
  /\ work' = IF i = 5 THEN "report" ELSE "first"
  /\ UNCHANGED <<drv, irqVars, queued, n, tries>>

(* ts_write_cmd_end: up to five attempts, and nobody asks how it ended.    *)
(* Mutant: it goes on until it succeeds.                                   *)
EndNeverGivesUp ==
  /\ work = "end"
  /\ \/ work' = "next" /\ tries' = 0
     \/ work' = work /\ tries' = (tries + 1) % 5
  /\ UNCHANGED <<drv, irqVars, queued, n, i, owed>>
EndCommand ==
  /\ work = "end"
  /\ \/ work' = "next" /\ tries' = 0
     \/ tries < 4 /\ work' = work /\ tries' = tries + 1
  /\ UNCHANGED <<drv, irqVars, queued, n, i, owed>>

(* Mutant: one register more.                                              *)
LoopOneMore ==
  /\ work = "next"
  /\ work' = IF i <= n THEN "store" ELSE "report"
  /\ UNCHANGED <<drv, irqVars, queued, n, i, tries, owed>>
Loop ==
  /\ work = "next"
  /\ work' = IF i < n THEN "store" ELSE "report"
  /\ UNCHANGED <<drv, irqVars, queued, n, i, tries, owed>>

(* data[i] = ts_read(...), whatever that returns.                          *)
Store ==
  /\ work = "store" /\ work' = "end"
  /\ i' = i + 1
  /\ UNCHANGED <<drv, irqVars, queued, n, tries, owed>>

(* The events are reported; ts_interrupt_enable ends the touchscreen's     *)
(* work, after which i and n are not looked at again.                      *)
Report ==
  /\ work = "report"
  /\ work' = IF drv = "gt818" THEN "enable" ELSE "idle"
  /\ UNCHANGED <<drv, irqVars, queued, n, i, tries, owed>>

Enable ==
  /\ work = "enable" /\ work' = "idle"
  /\ depth' = depth - 1 /\ i' = 0 /\ n' = 0
  /\ UNCHANGED <<drv, latched, handler, queued, tries, owed>>

HandlerStep == Disable \/ Schedule
WorkStep == \/ Begin \/ FirstRead \/ AxisRead \/ EndCommand \/ Loop \/ Store
            \/ Report \/ Enable
Next == Edge \/ Deliver \/ HandlerStep \/ WorkStep

Spec == Init /\ [][Next]_vars

(* The interrupt core delivers what it kept, the handler returns, and the  *)
(* workqueue runs what is queued.  No edge need ever come, and no transfer *)
(* need ever succeed.                                                      *)
FairSpec == /\ Spec
            /\ WF_vars(Deliver) /\ WF_vars(HandlerStep) /\ WF_vars(WorkStep)

-----------------------------------------------------------------------------
(* The gt818 interrupt is disabled, once, exactly from ts_interrupt to the *)
(* end of the work it scheduled: no path disables it twice, or leaves it   *)
(* disabled with no work to enable it.                                     *)
DisabledWhileWorkIsOwed ==
  drv = "gt818" =>
    depth = IF handler = "schedule" \/ queued \/ work # "idle" THEN 1 ELSE 0

(* ts_work stores within data[40], a failed read of the number of touches  *)
(* included, if the controller never reports more than five.               *)
DataInBounds == work = "store" => i < 40

(* However the transfers fail, and though edges merge while the interrupt  *)
(* is disabled or the work pending: after every edge a work item begins to *)
(* read, and a work item that has begun reports.                           *)
EdgeIsReported ==
  /\ owed ~> ~owed
  /\ work = "first" ~> work = "report"
=============================================================================
