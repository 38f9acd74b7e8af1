----------------------------- MODULE DriverRules -----------------------------
(***************************************************************************)
(* What the tables of Drivers are to satisfy, and what they are known not  *)
(* to.  The exceptions come first; each names something the code gets      *)
(* wrong.  The rules look at a table alone, not at what happens: they say, *)
(* for each position of init and each way out, what is surely there, what  *)
(* may be, and what is released.  Lifecycle_proofs shows that a driver     *)
(* whose table follows them behaves.                                       *)
(***************************************************************************)
EXTENDS Drivers

(* What is known to run before what it uses is set up: in each case the    *)
(* step that makes the entry reachable comes too early in the code.        *)
Early(d) ==
  CASE d = "fifo"    -> {<<"call", "fields">>}
    [] d = "key"     -> {<<"irq", "timer">>, <<"timer", "waitq">>,
                         <<"timer", "available">>}
    [] d = "adc"     -> {<<"irq", "waitq">>, <<"open", "bound">>}
                        \cup ({"call"} \X {"lock", "waitq", "ADCCON", "ADCDAT"})
    [] d = "pwm"     -> {<<"open", "GPD0">>, <<"open", "PWM">>,
                         <<"call", "PWM">>}
    [] d \in {"mmap", "testmm"}             -> {<<"call", "reg_dat">>}
    [] d \in {"platform", "openfirmware"}   -> {<<"attr", "reg_con">>}
    [] d = "mpu6050" -> {<<"irq", "work">>, <<"work", "input">>}
    [] OTHER         -> {}

(* What is known to be used although the code went on without it.          *)
Unchecked(d) ==
  CASE d \in {"fifo_blocked", "fifo_atomic"} -> {<<"call", "page">>}
    [] d = "pwm"     -> {<<"init", "cdevmem">>, <<"open", "GPD0">>,
                         <<"open", "PWM">>, <<"call", "PWM">>}
    [] d \in {"mmap", "testmm"}              ->
                        {<<"init", "cdevmem">>, <<"call", "reg_dat">>}
    [] d = "platform"                        ->
                        {<<"init", "res">>, <<"attr", "reg_con">>}
    [] d = "openfirmware"                    ->
                        ({"init"} \X {"res", "age", "myname"})
                        \cup {<<"attr", "reg_con">>}
    [] d = "mpu6050" -> {<<"init", "mem">>, <<"work", "mem">>,
                         <<"work", "input">>}
    [] d = "gt818"   -> {<<"init", "regs">>, <<"work", "input">>}
    [] d \in {"ov3640", "ov3640_copy"}       ->
                        {"init", "call", "irq"} \X {"regs"}
    [] d = "ov3640_first"                    -> {"init", "call"} \X {"regs"}
    [] d = "fimd"    -> {"init"} \X {"gpf", "clkregs", "gpd", "regs"}
    [] d = "mydisk"  -> {<<"init", "requests">>, <<"call", "requests">>}
    [] d \in {"main", "test"}                -> {<<"init", "reg_dat">>}
    [] OTHER         -> {}

(* What is known to be used after it was released, or though it was never  *)
(* there: when loading fails, by the interrupts that stay requested, the   *)
(* timer that nothing deletes, the cdevs and the attribute that stay       *)
(* registered; ...                                                         *)
DanglingOnFailure(d) ==
  CASE d = "key"     -> {<<"irq", "mem">>}
                        \cup ({"timer"} \X {"mem", "waitq", "available"})
    [] d = "adc"     -> ({"call"} \X {"mem", "lock", "waitq", "ADCCON",
                                      "ADCDAT"})
                        \cup ({"irq"} \X {"mem", "waitq"})
                        \cup {<<"open", "bound">>}
    [] d = "pwm"     -> ({"open"} \X {"GPD0", "PWM"})
                        \cup ({"call"} \X {"mem", "PWM", "text"})
    [] d \in {"platform", "openfirmware"}  -> {<<"attr", "reg_con">>}
    [] OTHER         -> {}

(* ... on removal, by the timer again, work that nothing cancels, and      *)
(* interrupts that nothing frees; by the attribute, which outlives the     *)
(* device; by calls where the operations name no owner, or where a device  *)
(* is unbound, which does not wait for a file left open.                   *)
DanglingOnRemoval(d) ==
  CASE d = "key"     -> {<<"call", "mem">>, <<"timer", "mem">>,
                         <<"timer", "text">>}
    [] d = "adc"     -> {"call"} \X {"mem", "ADCCON", "ADCDAT"}
    [] d = "pwm"     -> ({"open"} \X {"GPD0", "PWM"})
                        \cup ({"call"} \X {"mem", "PWM", "text"})
    [] d \in {"platform", "openfirmware"}  -> {<<"attr", "reg_con">>,
                                               <<"call", "text">>}
    [] d = "mpu6050" -> {"work"} \X {"mem", "input", "text"}
    [] d = "gt818"   -> {"irq", "work"} \X {"text"}
    [] d \in {"ov3640", "ov3640_copy"}     -> {<<"irq", "text">>}
    [] d = "mydisk"  -> {<<"call", "requests">>}
    [] d = "misc"    -> {<<"call", "text">>}
    [] OTHER         -> {}

(* State of a driver, as opposed to what has to be given back.             *)
Inner == {"text", "live", "fields", "waitq", "available", "lock", "timer",
          "work", "bound", "drvdata", "config", "sensor", "gpio",
          "res", "age", "myname"}

(* What a failed attempt is known to leave behind, by the step that failed. *)
Device == {"region", "cdev", "class", "device", "devref"}
LeftByFailure(d, step) ==
  CASE d \in {"fifo_blocked", "fifo_atomic", "testmm"} -> {"page"}
    [] d = "key" -> IF step \in {"cdev", "class", "device"} THEN {"region"}
                    ELSE IF step = "irq" THEN Device
                    ELSE IF step = "drvdata" THEN Device \cup {"irq"} ELSE {}
    [] d = "adc" -> IF step = "drvdata" THEN Device \cup ToSet(AdcRemove)
                    ELSE IF step \in ToSet(AdcRemove) \ (Device \cup {"mem"})
                         THEN Device ELSE {}
    [] d = "pwm"     -> {"cdevmem"}
    [] d \in {"platform", "openfirmware"} ->
                        IF step = "attr" THEN {} ELSE {"driver", "attr"}
    [] d = "mpu6050" -> {"mem", "input", "inputreg"}
    [] d = "gt818"   -> {"regs", "mem", "input", "inputreg"}
    [] d \in {"ov3640", "ov3640_copy", "ov3640_first"} ->
                        {"vd", "v4l2_dev", "v4l2", "regs", "cam_clk", "mout",
                         "fimc_clk", "node", "irq"}
    [] d = "fimd"    -> CASE step = "fb_info" -> {}
                          [] step = "dma" -> {"fb_info", "backlight", "regs"}
                          [] OTHER        -> {"fb_info", "backlight"}
    [] OTHER         -> {}

(* What a removal is known to leave behind; with the led drivers, unbound  *)
(* but not unloaded, rightly so.                                           *)
LeftByRemoval(d, loaded) ==
  CASE d \in {"key", "adc"} -> {"devref"}
    [] d = "pwm"     -> {"devref", "cdevmem"}
    [] d \in {"platform", "openfirmware"} ->
         {"devref"} \cup (IF loaded THEN {"driver", "attr"} ELSE {})
    [] d = "gt818"   -> {"regs", "mem", "input", "inputreg", "irq"}
    [] d \in {"ov3640", "ov3640_copy", "ov3640_first"} ->
                        {"vd", "v4l2_dev", "v4l2", "regs", "cam_clk", "mout",
                         "fimc_clk", "node", "irq"}
    [] d = "fimd"    -> {"backlight"}
    [] d = "mydisk"  -> {"gendisk"}
    [] OTHER         -> {}

(* Releases that do no harm on what could not be had.                      *)
NullSafe == {"page", "mem", "cdevmem", "reg_con", "reg_dat", "GPD0", "PWM"}

(* Releases known to come twice, or of what was never there: pkey, which   *)
(* init_key and then key_probe free; the input device of mpu6050, which    *)
(* unregistering has freed; the cdev whose cdev_add failed; and what led,  *)
(* mpu6050 and mydisk go on without.                                       *)
Misreleased ==
  {<<"key", "mem">>, <<"mpu6050", "input">>, <<"mpu6050", "inputreg">>}
  \cup ({"pwm", "mmap", "testmm"} \X {"cdev"})
  \cup ({"platform", "openfirmware"} \X {"region", "cdev"})
  \cup ({"mydisk"} \X {"disk", "requests", "major"})

-----------------------------------------------------------------------------
(* Reading a table T, where step k is next.                                *)

Ends(s)    == s.fails /\ s.skip = 0     \* its failure ends the attempt
CanJump(s) == s.fails /\ s.skip > 0     \* its failure passes over steps

(* What is released at a step after which loading may go on.               *)
Drops(s) == IF Ends(s) THEN {} ELSE ToSet(s.undo)

(* Step i, failing, passes over step j: itself or a later one.             *)
PassesOver(T, i, j) == CanJump(T.init[i]) /\ j < i + T.init[i].skip

Before(T, k)    == {T.init[j].name : j \in 1 .. k - 1}
Loseable(T, k)  == {T.init[j].name : j \in {i \in 1 .. k - 1 :
                                               T.init[i].skip > 0}}
MayBeFreed(T, k) == UNION {Drops(T.init[j]) : j \in 1 .. k - 1}

(* x is not released between its step j and step k.                        *)
Stays(T, x, j, k) == \A l \in j .. k - 1 : x \notin Drops(T.init[l])

(* x is there, whatever failed: loading that passed over its step passed   *)
(* over k as well.                                                         *)
Sure(T, x, k) ==
  \E j \in 1 .. k - 1 :
    /\ T.init[j].name = x
    /\ \A i \in 1 .. j : PassesOver(T, i, j) => PassesOver(T, i, k)
    /\ Stays(T, x, j, k)

(* x is there if y is: it was when y was acquired.                         *)
SureWith(T, x, y, k) ==
  \A j \in 1 .. k - 1 : T.init[j].name = y => /\ Sure(T, x, j)
                                              /\ Stays(T, x, j, k)

(* What may be there: no step that cannot fail or be passed over has given *)
(* it back.                                                                *)
GivenBy(T, l) == IF T.init[l].fails \/ \E i \in 1 .. l : PassesOver(T, i, l)
                 THEN {} ELSE ToSet(T.init[l].undo)
Possible(T, k) ==
  {T.init[j].name : j \in {i \in 1 .. k - 1 :
     \A l \in i .. k - 1 : T.init[i].name \notin GivenBy(T, l)}}

(* Entry e can run, and what is there then because e can.                  *)
Armed(T, k) == (Before(T, k) \cap {"timer"})
               \cup (IF "irq" \in Before(T, k) THEN T.kicks ELSE {})
Reachable(T, e, k) ==
  CASE e \in {"open", "call"} -> T.node \subseteq Before(T, k)
    [] e \in {"irq", "attr"}  -> e \in Before(T, k)
    [] OTHER                  -> e \in Armed(T, k)
Guard(T, e) == IF e \in {"open", "call"} THEN T.node
               ELSE IF e \in {"irq", "attr"} THEN {e} ELSE {}
Firm(T, e, x, k) == \/ Sure(T, x, k)
                    \/ \E y \in Guard(T, e) : SureWith(T, x, y, k)

(* Where x is not there, it could not be had.                              *)
LostIfMissing(T, x, k) == x \in Loseable(T, k) \ MayBeFreed(T, k)

(* The steps of a table, and where loading ends.                           *)
End(T) == Len(T.init) + 1
Entries(T) == DOMAIN T.uses \ {"init"}

-----------------------------------------------------------------------------
(* The rules.                                                              *)

(* No step passes over the end, and the code of the driver goes last.      *)
WellFormed(T) ==
  /\ T.init \in Seq([name : STRING, fails : BOOLEAN, undo : Seq(STRING),
                     skip : Nat])
  /\ \A k \in 1 .. Len(T.init) :
       /\ k + T.init[k].skip <= End(T)
       /\ T.init[k].name \notin {"text", "live"}
       /\ {"text", "live"} \cap ToSet(T.init[k].undo) = {}
  /\ \A w \in T.ways : w.steps \in Seq(STRING) /\ w.pinned \in BOOLEAN
  /\ {"text", "live"} \cap T.node = {}
  /\ T.module \in BOOLEAN

(* Whatever can run while the driver comes up finds what it uses, or it is *)
(* a known exception; and what a failure gives back is not in use.         *)
ReadyRule(d) ==
  LET T == Drivers[d] IN
  /\ "init" \in DOMAIN T.uses =>
       \A x \in T.uses["init"] \cap Loseable(T, End(T)) :
         <<"init", x>> \in Unchecked(d)
  /\ \A k \in 1 .. End(T) : \A e \in Entries(T) : Reachable(T, e, k) =>
       \A x \in T.uses[e] :
         /\ \/ Firm(T, e, x, k)
            \/ /\ x \in Loseable(T, k) => <<e, x>> \in Unchecked(d)
               /\ <<e, x>> \in Early(d) \/ LostIfMissing(T, x, k)
         /\ k < End(T) /\ CanJump(T.init[k]) /\ x \in ToSet(T.init[k].undo)
              => <<e, x>> \in Early(d)

(* What has been released at each point of going through a list, and when  *)
(* the kernel has let go of the last things as well.                       *)
Upto(list, q)      == {list[i] : i \in 1 .. q}
Stages(list, last) == {Upto(list, q) : q \in 0 .. Len(list)}
                      \cup {ToSet(list) \cup last}
Unloads(T)         == IF T.module THEN {"text"} ELSE {}

(* Entry e finds x, or can no longer be reached, all the way: an interrupt *)
(* or an attribute is gone before what it uses, and what an open uses is   *)
(* released after the last way to it; a call may be under way all along.   *)
Outlives(T, e, x, stages, k) ==
  /\ x = "text" \/ Firm(T, e, x, k) \/ LostIfMissing(T, x, k)
  /\ \A R \in stages : x \in R => e # "call" /\ Guard(T, e) \cap R # {}
QuietRule(d) ==
  LET T == Drivers[d] IN
  \A e \in Entries(T) : \A x \in T.uses[e] \cup {"text"} :
    /\ <<e, x>> \in DanglingOnFailure(d) \/
         \A k \in 1 .. Len(T.init) :
           Ends(T.init[k]) /\ Reachable(T, e, k) =>
             Outlives(T, e, x, Stages(T.init[k].undo, Unloads(T)), k)
    /\ <<e, x>> \in DanglingOnRemoval(d) \/
         \A w \in T.ways :
           \/ w.pinned /\ e \in {"open", "call"}
           \/ Outlives(T, e, x, Stages(w.steps, {"bound"}), End(T))

(* A failure that ends the attempt, and a removal, release whatever may    *)
(* be there.                                                               *)
GiveBackRule(d) ==
  LET T == Drivers[d] IN
  /\ \A k \in 1 .. Len(T.init) : Ends(T.init[k]) =>
       Possible(T, k) \ (ToSet(T.init[k].undo) \cup Inner)
         \subseteq LeftByFailure(d, T.init[k].name)
  /\ \A w \in T.ways :
       Possible(T, End(T)) \ (ToSet(w.steps) \cup Inner)
         \subseteq LeftByRemoval(d, "text" \notin ToSet(w.steps))

(* What is released is there, and was not released before.                 *)
Releases(d, list, k) ==
  LET T == Drivers[d] IN
  \A p \in 1 .. Len(list) :
    \/ <<d, list[p]>> \in Misreleased
    \/ /\ list[p] \notin Upto(list, p - 1)
       /\ \/ list[p] = "text" \/ Sure(T, list[p], k)
          \/ list[p] \in NullSafe \ MayBeFreed(T, k)
ReleaseRule(d) ==
  LET T == Drivers[d] IN
  /\ \A k \in 1 .. Len(T.init) : T.init[k].fails =>
       Releases(d, T.init[k].undo, k)
  /\ \A w \in T.ways : Releases(d, w.steps, End(T))

FollowsRules(d) ==
  /\ WellFormed(Drivers[d])
  /\ ReadyRule(d) /\ QuietRule(d) /\ GiveBackRule(d) /\ ReleaseRule(d)
=============================================================================
