# Verification of the fs4412 driver collection

The repository is a collection of Linux drivers for the FS4412 board (Exynos
4412). Most are short character drivers around one shared structure, called
from any number of processes, from interrupt handlers, timers and work items.
This directory holds TLA+ models of them, TLC configurations that check the
models on small instances, and TLAPS proofs of what holds for every instance.

## Inventory

| Component | State | Operations | What is hard | What makes it correct |
|---|---|---|---|---|
| blocking fifo, `fifo_blocked/fifo.c` | `qbuf`, `start`, `end`, `cursize`, wait queue | read (sleeps when empty), write (wakes) | nothing locks the ring; test and sleep against write and wake; signals; copies that fault; wrap-around | the count stays in the page, no sleeper misses data, bytes come out in the order they went in |
| atomic-open fifo, `fifo_atomic/fifo.c` | the ring and the atomic `available` | open, release, read, write | decrement, test and undo by several tasks | every open is undone exactly once, and the device belongs to one task (it does not: see Findings) |
| one-page fifo, `fifo/fifo.c` | `front`, `rear`, a page | read, write | `front` is read twice by a read | no byte twice or out of order; only explicable bytes are skipped |
| key, `key/key.c` | `available`, wait queue, timer | interrupt, timer, open, read, poll | the test for a press changes what it tests; poll takes a press and puts it back | a press is read once, a waiting task sees it |
| adc, `adc/adc.c` | mutex, wait queue, converter registers | read, interrupt | the sample is read after the mutex was dropped; interrupted reads leave a conversion running | a read returns a sample of its own time; the mutex is released |
| driver lifecycle (init, exit, probe, remove of every driver) | resources held, what is reachable | acquire, unwind, release | callbacks before the driver is ready or after it is gone, failure half-way | nothing used before it exists or after it is freed, everything acquired is released |
| ram disk, `mydisk/mydisk.c` | backing array, request being served | request function, make_request function | a request is copied as a whole but ended chunk by chunk; the other path runs unlocked on several CPUs | a chunk ends well only after its data was copied, every request ends; a write that has ended stays |
| touchscreen, `touchscream/ts-gt818.c` | interrupt depth, work item, `touch_num`, `data` | interrupt, work, i2c retries | the handler disables its own interrupt; touch count from a failed read | the interrupt is enabled again; the data array is not overrun |
| accelerometer, `mpu6050_input/mpu6050_i2c_drv.c` | work item, input device | interrupt, work, probe, remove | work scheduled before it is initialised, running while remove frees | as for the lifecycle |
| camera, `fs4412摄像头驱动/ov3640/ov3640.c` | `condition`, `buffer`, `buf_size` | frame interrupt, read, set format, request buffers | wake before condition; condition cleared after the copy; order of ioctls | a reader is passed over by two frames in a row only when another reader takes the first, no announcement lets it through twice, and no copy leaves the allocated pages |
| pwm, leds, ds18b20, lcd, examples, test programs | one register or none | straight-line register writes | little: `PROJECT.json` gives the reason for each | - |

The components do not call each other. Each interacts with user tasks
(system calls, signals), with a device (registers, interrupts) and with the
kernel's wait queues, timers and work queues. The directories under `testmm`
hold copies of the fifo, key and adc drivers that differ by one space, so the
models are of those too. The camera driver is there three times: the current
version under `ov3640/`, a copy under `1/` that differs in the read, and a first
version without interrupt.

## Modules

| Module | Models |
|---|---|
| `RingIndex` | the arithmetic of the ring that is not plain: the clamping of a request in C's types, and C's remainder |
| `Ring` | what the two ring drivers share: the copies and field updates of a read and a write (extended by the next two) |
| `BlockedFifo` | the blocking fifo: `Ring` with the wait, the wake-up and signals |
| `ByteQueue` | abstract: a bounded first-in first-out queue |
| `AtomicFifo` | the atomic-open fifo: `Ring` behind open and release |
| `LinearFifo` | the one-page fifo |
| `Key` | the key driver |
| `Adc` | the adc driver with the converter |
| `EdgeWork` | the touchscreen gt818 and the accelerometer mpu6050: interrupt, work item, i2c transfers that fail |
| `Camera` | the camera: formats, buffers, frame interrupt, reads |
| `RamDisk` | the ram disk, served through the block layer's queue or without it |
| `Drivers` | for twenty drivers: what is acquired in which order, what is undone when a step fails, how the driver is taken down, what its entry points use |
| `DriverRules` | what each driver is known to get wrong, and what the tables satisfy beyond that: rules that look at a table only, not at what happens |
| `Lifecycle` | runs one driver of `Drivers` with failures, opens, calls, interrupts, timers and work in between |
| `Ring_proofs`, `BlockedFifo_proofs`, `AtomicFifo_proofs`, `LinearFifo_proofs`, `Key_proofs`, `Adc_proofs`, `Lifecycle_proofs` | theorems about the component each is named after |
| `Devices_proofs` | theorems about `EdgeWork`, `RamDisk` and `Camera`, which is why the operators of the last two are called `DiskInit`, `CameraNext` and so on |

How the models correspond to the code:

* A task's `pc` names the next access of its call to shared state. `x op= y` on
  a plain field is a load and a store, two steps; an atomic operation is one.
  The local variables of the C function are per-task functions (`size`,
  `len1`, `tmp`) that are cleared when the call returns.
* One `copy_to_user` or `copy_from_user` is one step, with the indices it is
  given. Any copy may fault, and a faulting `copy_from_user` leaves any bytes
  in the slots it was to fill.
* `wait_event_interruptible` is its own steps: test, get on the queue, test
  again, sleep; a wake-up empties the queue, a signal ends the wait, and the
  drivers ignore that it did. In `BlockedFifo` the macro's first test is one
  step with the identical test on the line before.
* The byte values, the reported numbers and the `printk`s are abstracted: bytes
  are model values in the ring and positions in `LinearFifo`, a sample of the
  converter is the set of reads it is an answer to.
* Initial states are those that module init or probe leaves. The page of a ring
  starts with any bytes.
* A fifo read with `start > end` copies everything up to the end of the page
  even if less was asked for, and then fails with `-EINVAL` because the rest is
  negative (`ReadRefused`). A write of no bytes to a fresh ring leaves `end` at
  -1 (`CMod`).
* The converter is external: a start clears the completion bit, a conversion
  sets it, stores the sample and raises the interrupt. A start while a
  conversion runs joins it.
* `fifo_atomic/fifo.c` passes a second argument to `atomic_inc`, which the kernel's
  macro does not take; the model takes it for a plain `atomic_inc`.
* A write computes `len1` from `end` at line 87 and uses `end` again in the copy;
  no call separates the two, and the model reads it once, in the copy's step.
* In `Drivers` a table entry is one statement of an init or probe function that
  acquires, initialises or publishes something. `Need` is a step whose failure
  ends the attempt, with the releases of the error path in order; `Try` one whose
  result the code does not look at; `Set` cannot fail. A `Ladder` is a chain of
  gotos. A driver that the code publishes before it is complete has its
  publishing step earlier in the table, as in the code.
* In `Lifecycle` what is released and what is there are sets of names; an entry
  point can run when what makes it reachable is there (an open file for a call, a
  requested interrupt for a handler, an armed timer or queued work), and
  `Faults` is what it would use that is not there. After a failure the module's
  text goes if it was the module's init that failed; after `rmmod` always.
* An open file keeps a module from being unloaded when its file operations, or
  its cdev, name their owner; it never keeps a device from being unbound.
* In `EdgeWork` one variable `drv` tells which of the two drivers runs. The edge
  that comes while the interrupt is disabled is remembered, once, by the interrupt
  core. A failed `ts_read` returns -11, whose low four bits are 5.
* In `Camera` an image is its number of bytes. `SetFormat` is the ioctl with
  each of the formats and with a zero height or width; `RequestBuffers` may fail at
  any of its allocations. The copy under `1/` has the test of `copy_to_user`
  inverted (`CopyToUser`).
* In `RamDisk` a request is a sequence of chunks within the capacity followed by
  chunks beyond it (the sectors of a request ascend). In the other mode a write
  stores one sector per step, in ascending order. `mode` is fixed by the device tree.
* History variables are no code: `credit` in `Key`, `told` in `Key` (what the last
  poll of a task said), `cut` and `answered` in `Adc`, `taken`, `faulted` and
  `late` in `LinearFifo`, `owed` in `EdgeWork`, `cut`, `fresh`, `missed` and `took`
  in `Camera`, `result`, `copied`, `turn`, `may` and `gone` in `RamDisk`, `freed` in
  `Lifecycle`.
  Definitions whose comment begins with "Mutant" are not part of any
  specification: each is a plausible bug that breaks one property.

## Runs

| Run | Instance | Shows |
|---|---|---|
| `blocked_race` | one reader, one writer, page of 3, lengths 0, 1, 2, 4 | with calls interleaved at every access: the count and the copies stay in the page, no wake-up is lost, a wait ends with data, a sleeper that has data leaves its call |
| `blocked_serial` | one task that reads and writes, page of 3, two byte values | `RingIsQueue`: the ring implements `ByteQueue`; wrapped reads return the oldest bytes; the three fields agree between calls |
| `blocked_order` | one task, page of 2 | violated: reads do not return bytes in order (Findings) |
| `atomic_fifo` | a reader, a writer and a third opener, page of 2 | the counter; who is refused and who is admitted; the count of the ring |
| `atomic_exclusive` | three openers, page of 1 | violated: two tasks hold the device (Findings) |
| `linear_fifo` | one reader, one writer, five bytes | bytes are taken in order; which bytes are skipped |
| `key` | one task that reads and polls, at most 2 presses unread, counter down to -3 | presses are not doubled; no lost wake-up; a poll's answer holds; a press ends the sleep |
| `adc` | three readers | samples are fresh; no lost wake-up; a conversion is undisturbed; the mutex is released |
| `edge_work` | both drivers, up to five touches | the interrupt is disabled once and exactly while work is owed; `data[40]` is not overrun; after every edge the device is read, and what was read is reported |
| `camera` | two readers, both versions with an interrupt | a reader that sleeps through two announcements in a row was overtaken by another that took the first frame; an announcement lets a reader through once; frames and copies stay in the allocated pages; readers are served |
| `ram_disk` | requests of up to four chunks; two processors, two sectors | a chunk ends well only once copied, and nothing that ended is touched again; every request ends; ended writes stay |
| `lifecycle` | every driver of the table, every failure | what can run finds what it uses while the driver comes up and after it has gone; everything is given back, once; each with the exceptions the property names; and every table follows the rules of `DriverRules` |

Bounds. A page of 3 bytes has a first, a middle and a last slot, so data that
does not wrap, wraps at each place, and fills the page all occur; the lengths
hold zero, less than the page and more than the page. `MaxBytes` bounds how
much is ever written in `LinearFifo`: five bytes are enough for several reads,
some that drain and some that do not. `MaxCredit` stops the key from being
pressed when two announced presses are unread, `MaxMisses` stops calls from
starting when the counter is below -3: the code distinguishes only 1 from
everything else. The counts that the drivers keep are otherwise unbounded and
finite in these runs because the code keeps them so.

Five touches is what the gt818 tells apart; with six `data[40]` is overrun. Two
readers are enough for one to pass the camera's wait while the other copies or
clears. Four chunks allow a request to fail at the first, in the middle, at the last
and not at all; two processors and two sectors allow writes that overlap in
part. `LastSector`, `MaxChunks` and `Turns` are the only bounds of `RamDisk`: with two
tags to tell a processor's writes apart a value two writes back may pass for the
present one, which the theorem, for every number of tags, excludes. `Lifecycle` needs no bound: each driver is loaded and taken down once.

Exceptions of `Lifecycle`. The drivers do much too early or never, and a
property without exceptions would fail for most of them. `Early`, `Unchecked`,
`DanglingOnFailure`, `DanglingOnRemoval`, `LeftByFailure`, `LeftByRemoval` and
`Misreleased` in `DriverRules`
name, per driver, what the code gets wrong; the properties say that there is nothing else. Removing any entry
makes the run fail. They read as a list of defects:

* reachable before ready: fifo, key, adc, pwm, mmap, testmm, the led's
  attribute, mpu6050;
* used without having looked whether it is there: the page of the blocking and of
  the atomic fifo; the cdev that `cdev_alloc` did not give to pwm, mmap and testmm,
  which compare its result with `< 0`, and the registers of the three; the resource,
  the properties and the register of the leds; mpu6050's memory and input device;
  mappings of gt818, the camera, the lcd controller, main and test; gt818's input
  device; the ram disk's queue. Only fifo, key, adc and misc look at everything they use;
* running on what was released: key's timer and, after a failed probe, its and
  adc's interrupt and cdev; mpu6050's and gt818's work; the interrupt of gt818 and
  of the camera, which nothing frees; the led's attribute and its calls; pwm and misc,
  which name no owner; a file of key, adc or the ram disk left open over an unbind
  (entry by entry and resource by resource, so that what an entry listed here uses
  besides is still checked);
* not given back: most when a probe fails half-way; after a removal a reference
  of each device made by `device_create`, pwm's cdev, all of gt818, all of the camera
  but the video node, the pin of the lcd's backlight, the ram disk's `gendisk`;
* released twice or without having been there: `pkey`, the input device of
  mpu6050, and what led, pwm, mmap and mydisk go on without.

A use of what is not there is where the real driver oopses or reads stale memory;
the model records it and goes on. It assumes that registering a driver
succeeds, that a device arrives after its module, and that the kernel calls of an
exit function succeed.

One reader and one writer. `CountInRange`, `CopiesStayInPage`,
`WaitEndsWithData`, and `TakenInOrder` are about one reading and one writing task.
With two readers the code has no protection at all (both subtract the same
bytes, the count becomes negative) and the properties fail; this is listed as
a hazard.

Fairness. In `BlockedFifo`, `Key` and `Adc` a task in a call that is not asleep
takes its next step (the scheduler runs it); a timer that is armed fires and its
handler runs; a conversion ends and its interrupt is served. Nobody has to
call, press, signal or fault, and who gets the mutex next is left open. In
`Key` each interrupt puts the timer off (`mod_timer`): the model keeps only that
it is armed, so `PressEndsTheSleep` assumes that the contact stops bouncing at
some time.

In `EdgeWork` the interrupt core delivers the edge it kept, the handler returns and
the workqueue runs what is queued; no edge need come and no transfer succeed. In
`Camera` frames go on coming once it streams, the handler ends, readers run; a
reader that is overtaken by others is promised nothing, so `SomeReaderServed` says
that some read copies. In `RamDisk` the function that serves the queue runs on.

## Proofs

TLAPS proves, for every set of tasks, every page size and all lengths (unless
said otherwise):

* `BlockedFifo_proofs`: `TypeCorrect`; for one reader and one writer
  `CountStaysInRange`, `CopiesInPage` and `WaitFindsData`; for one reader and any
  number of writers `NoWakeupIsLost`; for a task that reads and writes alone
  `FieldsStayInAgreement`, `WrappedReadsAreOldest` and the refinement
  `RingImplementsQueue`.
* `AtomicFifo_proofs`: `TypeCorrect`, `CounterCorrect`, `RefusedIsAlone`,
  `AdmittedIsNotAlone` for any number of openers; `CountStaysInRange` for one
  reader and one writer.
* `Key_proofs`: `PressesAreReadOnce` for any number of reading and polling tasks;
  `SleepersAreWoken` for any number of readers where nobody polls and for a task
  that also polls where it is alone; `ReadableIsReadable` for a lone task.
* `Adc_proofs`: `SamplesAreFresh`, `NoWakeupIsLost`, `ConversionIsReserved` for any
  number of readers.
* `LinearFifo_proofs`: `BytesComeInOrder` and `SkippedBytesWereLate` for one
  reader and one writer.
* `Devices_proofs`: `InterruptIsBalanced` for any number of touches,
  `DataIsNotOverrun` where `MaxTouches <= 5`; `ChunksEndCopied` for requests of any
  length, `EndedWritesLast` for any number of processors, sectors and tags;
  `SecondMissHasItsReason`, `AnnouncementServesOnce` and `FramesFit` for any number
  of readers, and `AloneMissesOne` for a lone one.
* `Lifecycle_proofs`: `ReachableIsReady`, `GoneIsQuiet`, `AllIsGivenBack` and
  `NothingReleasedTwice` for drivers of any number of steps, with any table that
  follows the rules of `DriverRules`.

They rest on the named assumptions of the modules (`RingAssumption`,
`AtomicFifoAssumption`, `LinearFifoAssumption`, `KeyAssumption`, `AdcAssumption`,
`MaxTouchesAssumption`, `RamDiskAssumption`), which TLC evaluates. Those of
`Lifecycle_proofs` have as hypothesis that the tables follow the rules: the run
`lifecycle` evaluates that for every table there is (`TableFollowsRules`).

Why the count stays in range. The count alone is not inductive: a store may
write back a value that the other task has made stale. The invariant `CountInv`
says what each task still knows: the reader's `size` is at most the count it saw,
the writer's `size` fits in the space it saw, and a loaded `tmp` is within the
same limits. Each store then writes a value in `0 .. MaxSize`, even when it
overwrites the other's. `Ring_proofs` shows this once for the ring, and the
two drivers use it.

Why no wake-up is lost. A reader in its second test or asleep is on the queue or
has been taken off it by a wake-up; a count that became non-zero did so in the
store of a write, whose next step wakes the queue. In `Adc` the completion bit
takes the place of the count and the interrupt that of the write; there the
mutex keeps a second start from clearing the bit.

Why samples are fresh. A read that was not cut short left its wait with the bit
set, the bit is cleared by its own start, and only a conversion sets it: that
conversion ended after the start. Later conversions only make the sample newer.

Why refused opens were alone. The counter is `1 - |NotClosed|`
(`CounterCorrect`, by the cardinality of a set that gains or loses one element);
the decrement reaches 0 exactly when that set is empty.

Why the interrupt is balanced. `depth` alone does not say that the next
`enable_irq` is the right one: the invariant `EdgeInv` adds that of the handler, the
pending item and the running item at most one is there.

Why an announcement serves once. While `condition` is set, a reader without a fresh
frame is one that is about to clear it (`HadIsClearing`): `condition` is set only
together with a fresh frame for all, and cleared after the copy that used it.

Why a second miss is another's gain. The handler wakes (436) before it sets
`condition` (437), so a reader woken may test, find nothing and sleep again.
`SetLetsNobodySleep`: between those two lines nobody is asleep if `condition` is still
set for an earlier frame: the wake-up has emptied the queue, and whoever queues again
sees the flag.
`MissedWait`: whoever slept through the last announcement is still in its wait and has
cleared nothing, so when the flag is down some other reader cleared it (104). With two
readers one of them may starve this way at every frame, which the run allows; a
reader alone misses one frame at most (`AloneMissesOne`).

Why skipped bytes were late. `Fields` says what a reader still knows of `front` and
`rear`, `Reached` where `rear` will be once the read that has copied returns; bytes
below that were taken or faulted, and those from there to `front` are late.

Why the ring is a queue. `RingIsQueue` maps the state to the `Unread` bytes from
`start` on, around the page (`Contents`, as a function `From` of the page, an index
and a length). `SerialInv` says how far `start` and `end` lead or trail the count at
each point of a call: between calls `end` is `start` plus the count around the page;
once a read has stored `start`, and once a write has stored `end`, the count still
lacks the bytes of the call. Two lemmas about `From` do the rest: what is
stored into a free slot changes no unread byte (`FreeSlots`), and `From` of a sum is
`From` of the parts one after the other (`FromConcat`). So a write appends its bytes when it
stores the count (`CountPuts`), a read removes its own when it stores `start`
(`StartTakes`), and every other step stutters (`BareStep`, `CopyInIsFree`,
`CountFollows`). The bytes that a read returns are another matter (Findings):
`WrappedReadsAreOldest` follows what each of the copies has delivered, and is about
the reads that find `start > end` or `start` at 0.

Why told is readable. Until the told task reads, the press is in `available`, or in
the hands of its own next poll, which puts it back (`ToldInv`). Only another task
could take it, and there is none.

Why frames fit. A change of format allocates nothing; the frame is limited by the
format (`FormatInv`), and the pages of the two possible images are the same
1 MiB because allocations are rounded up to a power of two.

Why ended writes last. A write under way is among what may be found where it writes,
the end of no other write takes it away, and the end of a write takes away nothing
that it, or another after it, has put in its place (`Ages`). Hence what a sector
holds survives every end, whoever stored last. The least sector still to store exists
because the naturals are well ordered (`MinIsThere`).

Why chunks end as they were served. The first chunk that is left has been copied once
the scan is past it and has met no error; an error comes from that chunk or a later one
(`RequestInv`). The status of the round before is never used: a round looks at one
chunk at least, and sets it.

Why a driver that follows the rules behaves. A rule is read off a table alone: at
each step, what is there whatever failed before (`Sure`), what is there if
something else is (`SureWith`), what may be there (`Possible`), what may have been
freed on the way (`MayBeFreed`). The invariant `Inv` says that what the table
tells of the step `at` is true of `has`, `freed` and `pend` (`Holds`), less what has been
released since loading failed or removal began, which is the part of the list that
`todo` no longer has. A step that succeeds keeps this because what is sure
after it was sure before it, or is what it acquires (`SureNext`). A failure that
loading survives moves over several steps at once; what they acquire is in no
later `Sure`, because being sure at a step means that whatever passes over the
acquisition passes over that step as well (`SureAcross`). An open file makes what it needs
count as if it were in hand, although it may be released meanwhile: that is why `Holds` speaks of
`InHand`. Each of the four properties then follows from `Holds` and one rule: what an
entry that can run uses is firm, or was known to be missing (`ReadyRule`); at each
stage of a release the entry is gone if what it uses is, unless the removal waits for
open files (`QuietRule`); all that is possible is on the list
(`GiveBackRule`); and all that is on the list is sure, and there once (`ReleaseRule`).

The rules are stricter than the properties: a driver could behave for a reason they do
not see, such as two failures that never come together. None of the twenty needs that.

Only model-checked: the liveness properties (fairness and `ENABLED` are out of
the prover's reach); and that the tables of `Drivers` follow the rules, which is a
computation over twenty given tables that the run carries out completely.

## Findings

* `blocked_order` - `fifo_blocked/fifo.c:54` (and `fifo_atomic/fifo.c:67`): when
  `start <= end` a read copies from the beginning of the page and then advances
  `start` as if it had copied from there. After write 2, read 1, the next read
  returns the first byte again. The queue's indices are right (`RingIsQueue`), the
  bytes are not.
* `atomic_exclusive` - `fifo_atomic/fifo.c:48`: the result of
  `atomic_dec_and_test` is inverted. A task that finds the device free gets
  `-EBUSY` (`RefusedOnlyWhenFree`), an open succeeds only while another task is at
  the door (`AdmittedOnlyInContention`), and then several hold the device at once.

## Not modelled, and the plan

* Vendored clock code, register setup of the lcd controller and of the camera
  sensor, one-wire timing of the ds18b20, one-call exercises, and user programs (the
  models' tasks stand for them).
* `mmap` of the fifo pages hands the page to user space and makes no promise about
  the fields. `fasync` of key: nothing waits for the signal.
* The calls of pwm and of the leds: register writes of one step each. Two tasks
  that use them get what the last one wrote, and the code promises nothing else.
* Torn reads: a frame that is captured while it is copied, a ram disk read over a
  write, a sector that two processors write at once, the two bytes of an accelerometer
  axis. The code neither prevents nor detects them; what `WritesLast` says of a sector
  holds of each byte of it.
* A 24-bit frame where 16 bits per pixel were asked for is modelled
  (`rgb` in `Camera`) as far as memory goes; the picture is wrong all the same.

Hazards of single statements, seen on the way and not in the list of
`PROJECT.json`: a key read that a signal interrupts returns as if a key was
pressed (`key.c:94`, modelled by `ReadInterrupted`); `get_full_path` frees the
buffer its result points into (`key.c:54`); a faulting fifo write returns a count
(`fifo.c:71`); `key_open` discards presses announced to others (`key.c:85`); each
unsuccessful test lowers `available`, which wraps after 2^32 (`key.c:94`);
`adc_open` succeeds with no device bound (`adc.c:56`); a camera read before
VIDIOC_REQBUFS copies from a null pointer (`ov3640/ov3640.c:98`).

Left to do: reads of several sectors in `RamDisk`; the order of bytes for one reader and
one writer in `BlockedFifo`, whose calls interleave.
