------------------------------- MODULE Drivers -------------------------------
(***************************************************************************)
(* What each driver of the repository acquires, in which order, what it    *)
(* gives back when a step fails, how it is taken down, and what its entry  *)
(* points use.  Lifecycle runs these tables.                               *)
(*                                                                         *)
(* A step acquires or initialises one thing, known by its name.  A step    *)
(* that can fail has the list of things the code releases when it does,    *)
(* in order, and the number of steps that are then passed over: none when  *)
(* the whole attempt fails.                                                *)
(***************************************************************************)
EXTENDS Naturals, Sequences, SequencesExt

Step(name, fails, undo, skip) ==
  [name |-> name, fails |-> fails, undo |-> undo, skip |-> skip]

Set(x)        == Step(x, FALSE, <<>>, 0)      \* cannot fail
Put(x)        == Step(x, FALSE, <<x>>, 0)     \* gives x back
Need(x, undo) == Step(x, TRUE, undo, 0)       \* failure ends the attempt
Try(x)        == Step(x, TRUE, <<>>, 1)       \* result not looked at

(* A goto ladder: a failure releases what was acquired before, last first. *)
Ladder(names) == [i \in DOMAIN names |->
                   Need(names[i], Reverse(SubSeq(names, 1, i - 1)))]
(* A callee whose caller releases undo as well when it fails, ...          *)
Under(steps, undo) == [i \in DOMAIN steps |->
                        IF steps[i].fails
                        THEN [steps[i] EXCEPT !.undo = @ \o undo]
                        ELSE steps[i]]
(* ... and one whose caller ignores that it failed.                        *)
Ignored(steps) == [i \in DOMAIN steps |->
                    [steps[i] EXCEPT !.skip = IF @ = 0 THEN Len(steps) + 1 - i
                                              ELSE @]]

(* device_create also takes the reference that only put_device drops.      *)
DeviceMade == <<Set("devref")>>

(* Taking a driver down: rmmod, which an open file prevents when the file  *)
(* operations or the cdev name their owner, and unbind through sysfs.      *)
Rmmod(steps, owner) == [steps |-> steps \o <<"text">>, pinned |-> owner]
Unbind(steps)       == [steps |-> steps, pinned |-> FALSE]

(* The entry "init" names what the loading itself goes on to use without   *)
(* having looked whether it is there.                                      *)
(* One driver: what loading it does, the ways to take it down, whether a   *)
(* failure to load also unloads its code, what an open needs to reach it,  *)
(* what its entry points use, and what its interrupt handler schedules.    *)
Module(init, exit, owner, node, uses) ==
  [init |-> init, ways |-> {Rmmod(exit, owner)}, module |-> TRUE,
   node |-> node, uses |-> uses, kicks |-> {}]
BusDriver(probe, remove, node, uses, kicks) ==
  [init |-> probe, ways |-> {Unbind(remove), Rmmod(remove, TRUE)},
   module |-> FALSE, node |-> node, uses |-> uses, kicks |-> kicks]

-----------------------------------------------------------------------------
(* The three fifos.  Only fifo/fifo.c checks that it got its page.         *)

FifoInit == Ladder(<<"page", "region", "cdev">>) \o <<Set("fields")>>
FifoExit == <<"cdev", "region", "page">>
(* Mutant: fifo_ops without its owner.                                     *)
FifoWithoutOwner == Module(FifoInit, FifoExit, FALSE, {"cdev"},
                           [call |-> {"page", "fields"}])
Fifo     == Module(FifoInit, FifoExit, TRUE, {"cdev"},
                   [call |-> {"page", "fields"}])

BlockedInit == <<Try("page"), Set("fields"), Set("waitq")>>
               \o Ladder(<<"region", "cdev">>)
BlockedExit == <<"cdev", "region", "page">>
BlockedFifo == Module(BlockedInit, BlockedExit, TRUE, {"cdev"},
                      [call |-> {"page", "fields", "waitq"}])

(* Mutant: the device is made reachable before its counter is set.         *)
AtomicInitReachableFirst == Ladder(<<"region", "cdev">>)
                            \o <<Set("available"), Try("page"),
                                 Set("fields")>>
AtomicInit == <<Set("available"), Try("page"), Set("fields")>>
              \o Ladder(<<"region", "cdev">>)
AtomicExit == <<"cdev", "region", "page">>
AtomicFifo == Module(AtomicInit, AtomicExit, TRUE, {"cdev"},
                     [open |-> {"available"},
                      call |-> {"available", "page", "fields"}])

-----------------------------------------------------------------------------
(* key/key.c.  add_timer arms the timer; the fields its handler and the    *)
(* calls use are set by key_probe after init_key.  While the probe runs,   *)
(* the driver core does not list the device, and key_open finds none.      *)
(* alloc_key gives back a range of three numbers where it had taken one,   *)
(* which releases nothing.                                                 *)
AllocKey  == <<Need("mem", <<>>), Need("region", <<"mem">>),
               Need("cdev", <<"mem">>), Need("class", <<"cdev", "mem">>),
               Need("device", <<"class", "cdev", "mem">>)>> \o DeviceMade
InitKey   == <<Need("irq", <<"mem">>), Set("timer")>>
KeyProbe  == AllocKey \o Under(InitKey, <<"mem">>)
             \o <<Need("drvdata", <<"mem">>), Set("lock"), Set("waitq"),
                  Set("available"), Set("bound")>>
(* Mutant: the interrupt is not freed.                                     *)
KeyRemoveKeepsInterrupt == <<"device", "class", "cdev", "region", "mem">>
(* Mutant: the interrupt is freed last.                                    *)
KeyRemoveInterruptLast == <<"device", "class", "cdev", "region", "mem", "irq">>
KeyRemove == <<"irq", "device", "class", "cdev", "region", "mem">>
Key == BusDriver(KeyProbe, KeyRemove, {"cdev", "bound"},
         [call  |-> {"mem", "waitq", "available"},
          irq   |-> {"mem", "timer"},
          timer |-> {"mem", "waitq", "available"}], {"timer"})

(* adc/adc.c.  adc_open takes an empty device list for success, and leaves *)
(* the file without a device.                                              *)
AllocAdc == Ladder(<<"mem", "region", "cdev", "class", "device">>)
            \o DeviceMade
(* Mutant: it frees padc as well, as init_key frees pkey.                  *)
InitAdcFrees == Under(Ladder(<<"ADCCON", "ADCDLY", "ADCDAT", "CLRINTADC",
                               "ADCMUX", "irq">>), <<"mem">>)
InitAdc  == Ladder(<<"ADCCON", "ADCDLY", "ADCDAT", "CLRINTADC", "ADCMUX",
                     "irq">>)
AdcProbe == AllocAdc \o Under(InitAdc, <<"mem">>)
            \o <<Need("drvdata", <<"mem">>), Set("lock"), Set("waitq"),
                 Set("bound")>>
AdcRemove == <<"irq", "ADCCON", "ADCDLY", "ADCDAT", "CLRINTADC", "ADCMUX",
               "device", "class", "cdev", "region", "mem">>
Adc == BusDriver(AdcProbe, AdcRemove, {"cdev"},
         [open |-> {"bound"},
          call |-> {"mem", "lock", "waitq", "ADCCON", "ADCDAT"},
          irq  |-> {"mem", "waitq", "CLRINTADC"}], {})

-----------------------------------------------------------------------------
(* pwm/pwm.c.  cdev_alloc's result is compared with < 0, so its failure    *)
(* passes, and cdev_init and cdev_add use it; its memory is never freed.   *)
(* The operations have no owner.                                           *)

PwmInit == <<Need("mem", <<>>), Need("region", <<"mem">>), Try("cdevmem"),
             Need("cdev", <<"cdev", "region", "mem">>),
             Try("GPD0"), Try("PWM"),
             Need("class", <<"PWM", "GPD0", "cdev", "region", "mem">>),
             Need("device", <<"class", "PWM", "GPD0", "cdev", "region",
                              "mem">>)>> \o DeviceMade
PwmExit == <<"device", "class", "PWM", "GPD0", "cdev", "region", "mem">>
Pwm == Module(PwmInit, PwmExit, FALSE, {"cdev"},
         [init |-> {"cdevmem"},
          open |-> {"mem", "GPD0", "PWM"}, call |-> {"mem", "PWM"}])

(* mmap/mmap.c, and its extension testmm/testmm.c by a page that nothing   *)
(* but the unloading uses.  Both take cdev_alloc's result as pwm does.     *)
LedMapInit == <<Need("mem", <<>>), Need("region", <<"mem">>), Try("cdevmem"),
                Need("cdev", <<"cdev", "cdevmem", "region", "mem">>),
                Try("reg_con"), Try("reg_dat")>>
LedMapExit == <<"reg_con", "reg_dat", "cdev", "cdevmem", "region", "mem">>
LedMap == Module(LedMapInit, LedMapExit, TRUE, {"cdev"},
                 [init |-> {"cdevmem"}, call |-> {"mem", "reg_dat"}])

TestmmInit == <<Try("page")>> \o LedMapInit
TestmmExit == <<"page">> \o LedMapExit
Testmm == Module(TestmmInit, TestmmExit, TRUE, {"cdev"},
                 [init |-> {"cdevmem"}, call |-> {"mem", "reg_dat"}])

-----------------------------------------------------------------------------
(* The led as a platform and as a device-tree driver: the attribute of the *)
(* driver exists while the module is loaded, its register only while a     *)
(* device is bound.  The device arrives after the module; the probe looks  *)
(* at the resource and at the properties it may not have.                  *)

LedLoaded == <<Set("driver"), Need("attr", <<"driver">>)>>
LedProbe  == <<Try("res"), Try("reg_con"), Try("region"), Try("cdev"),
               Need("class", <<"cdev", "region", "reg_con">>),
               Need("device", <<"class", "cdev", "region", "reg_con">>)>>
             \o DeviceMade
LedRemove == <<"device", "class", "cdev", "region", "reg_con">>
LedExit   == <<"attr">> \o LedRemove \o <<"driver">>
PlatformLed ==
  [init |-> LedLoaded \o LedProbe,
   ways |-> {Unbind(LedRemove), Rmmod(LedExit, FALSE)}, module |-> FALSE,
   node |-> {"cdev"},
   uses |-> [init |-> {"res"}, attr |-> {"reg_con"}, call |-> {}],
   kicks |-> {}]

OfLedLoaded == LedLoaded
OfLedProbe  == <<Try("res"), Try("age"), Try("myname"),
                 Try("reg_con"), Try("region"), Try("cdev"),
                 Need("class", <<"cdev", "region", "reg_con">>),
                 Need("device", <<"class", "cdev", "region", "reg_con">>)>>
               \o DeviceMade
OfLedRemove == <<"device", "class", "cdev", "region", "reg_con">>
OfLedExit   == <<"attr">> \o OfLedRemove \o <<"driver">>
DeviceTreeLed ==
  [PlatformLed EXCEPT !.init = OfLedLoaded \o OfLedProbe,
     !.ways = {Unbind(OfLedRemove), Rmmod(OfLedExit, FALSE)},
     !.uses = [@ EXCEPT !.init = {"res", "age", "myname"}]]

-----------------------------------------------------------------------------
(* The two input drivers.  mpu6050 ignores that its input device could not *)
(* be made, and unregisters and then frees it; gt818 does nothing to be    *)
(* removed.                                                                *)

SimpleInputInit == <<Need("input", <<>>), Need("inputreg", <<"input">>)>>
MpuProbe  == <<Try("mem")>> \o Ignored(SimpleInputInit)
             \o <<Need("irq", <<>>), Set("work")>>
MpuRemove == <<"irq", "mem", "inputreg", "input", "input">>
Mpu == BusDriver(MpuProbe, MpuRemove, {},
         [init |-> {"mem"}, irq |-> {"work"}, work |-> {"mem", "input"}],
         {"work"})

TsInitInput == <<Need("input", <<>>), Need("inputreg", <<>>)>>
Gt818Probe  == <<Try("regs"), Need("mem", <<>>), Need("config", <<>>),
                 Set("lock"), Set("work")>> \o Ignored(TsInitInput)
               \o <<Need("irq", <<>>)>>
Gt818Remove == <<>>
Gt818 == BusDriver(Gt818Probe, Gt818Remove, {},
           [init |-> {"regs"}, irq |-> {"mem", "lock", "work"},
            work |-> {"mem", "input"}], {"work"})

-----------------------------------------------------------------------------
(* The camera in its three versions: the current one, the copy in 1/, and  *)
(* the first one, without interrupt.  The clocks stay on, whatever fails.  *)

SensorInit    == <<Try("sensor")>>
InitClkCamera == <<Need("cam_clk", <<>>), Need("mout", <<>>),
                   Need("fimc_clk", <<>>)>>
CameraProbe   == <<Need("vd", <<>>), Need("v4l2_dev", <<>>),
                   Need("v4l2", <<>>), Try("regs")>>
                 \o Ignored(InitClkCamera) \o SensorInit
                 \o <<Set("waitq"), Need("node", <<>>), Need("irq", <<>>),
                   Need("video", <<>>)>>
CameraRemove  == <<"video">>
Camera == BusDriver(CameraProbe, CameraRemove, {"video"},
            [init |-> {"regs"}, call |-> {"regs", "waitq"},
             irq |-> {"regs", "waitq"}], {})

CopiedSensor  == SensorInit
CopiedInitClk == InitClkCamera
CopiedProbe   == <<Need("vd", <<>>), Need("v4l2_dev", <<>>),
                   Need("v4l2", <<>>), Try("regs")>>
                 \o Ignored(CopiedInitClk) \o CopiedSensor
                 \o <<Set("waitq"), Need("node", <<>>), Need("irq", <<>>),
                   Need("video", <<>>)>>
CopiedRemove  == CameraRemove
CopiedCamera  == [Camera EXCEPT !.init = CopiedProbe,
                    !.ways = {Unbind(CopiedRemove),
                              Rmmod(CopiedRemove, TRUE)}]

FirstSensor  == SensorInit
FirstInitClk == InitClkCamera
FirstProbe   == <<Need("vd", <<>>), Need("v4l2_dev", <<>>),
                  Need("v4l2", <<>>), Try("regs")>>
                \o Ignored(FirstInitClk) \o FirstSensor
                \o <<Need("video", <<>>)>>
FirstRemove  == CameraRemove
FirstCamera  == BusDriver(FirstProbe, FirstRemove, {"video"},
                  [init |-> {"regs"}, call |-> {"regs"}], {})

-----------------------------------------------------------------------------
(* The lcd controller.  The registers are mapped while the module loads;   *)
(* the pin that pwm_set(1) raises, pwm_set(0) does not lower.              *)

FimdVdd     == <<Try("gpf"), Put("gpf")>>
FimdClk     == <<Try("clkregs"), Put("clkregs")>>
FimdPwm     == <<Try("gpd"), Set("backlight"), Put("gpd")>>
FimdPrepare == <<Need("fb_info", <<>>)>> \o FimdVdd \o FimdClk \o FimdPwm
               \o <<Try("regs")>>
FimdShow    == <<Need("dma", <<>>), Put("regs"), Need("fb", <<"dma">>)>>
FimdExit    == <<"fb", "dma", "fb_info">>
Fimd == Module(FimdPrepare \o FimdShow, FimdExit, TRUE, {"fb"},
               [init |-> {"gpf", "clkregs", "gpd", "regs"},
                call |-> {"fb_info", "dma"}])

(* The ram disk.  Its probe ignores that it could not be set up, and       *)
(* reports success; put_disk is commented out.  add_disk reads the         *)
(* partition table, so requests come at once.                              *)
MydiskInit == <<Need("major", <<>>), Need("gendisk", <<>>), Set("lock"),
                Try("requests"), Set("disk")>>
MydiskProbe == <<Try("gpio")>> \o Ignored(MydiskInit)
MydiskExit  == <<"disk", "requests", "major">>
Mydisk == BusDriver(MydiskProbe, MydiskExit, {"disk"},
            [init |-> {"requests"},
             call |-> {"gendisk", "lock", "requests"}], {})

-----------------------------------------------------------------------------
(* The examples.  The miscellaneous device has no owner; the two modules   *)
(* write a mapped register without looking whether it was mapped.          *)

MiscInit == <<Need("misc", <<>>)>>
Misc     == Module(MiscInit, <<"misc">>, FALSE, {"misc"}, [call |-> {}])

MainInit == <<Try("reg_dat")>>
Main     == Module(MainInit, <<"reg_dat">>, TRUE, {},
                   [init |-> {"reg_dat"}])
TestInit == <<Try("reg_dat")>>
Test     == Module(TestInit, <<"reg_dat">>, TRUE, {},
                   [init |-> {"reg_dat"}])

Drivers ==
  [fifo |-> Fifo, fifo_blocked |-> BlockedFifo, fifo_atomic |-> AtomicFifo,
   key |-> Key, adc |-> Adc, pwm |-> Pwm, mmap |-> LedMap,
   testmm |-> Testmm, platform |-> PlatformLed,
   openfirmware |-> DeviceTreeLed, mpu6050 |-> Mpu, gt818 |-> Gt818,
   ov3640 |-> Camera, ov3640_copy |-> CopiedCamera,
   ov3640_first |-> FirstCamera, fimd |-> Fimd, mydisk |-> Mydisk,
   misc |-> Misc, main |-> Main, test |-> Test]
=============================================================================
