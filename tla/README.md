# Verification of the my_drv device drivers

This directory holds TLA+ models of the device drivers in this repository, Linux
2.6.22 kernel modules for a Samsung S3C2440 board, and of the JFFS2 file system that
is kept with the NAND driver. Each model is translated from the C source and checked by TLC
on small instances. The safety properties of every driver, that JFFS2 on NAND is crash safe, and that
nothing but waste eats into the room it keeps for its collector, are proved by TLAPS for any number of keys, processes,
buffer blocks, sectors, mice, erase blocks and names. `PROJECT.json` gives the source lines behind every definition.

## 1. The system

The repository is a set of independent drivers; each directory holds the final
version of one and, in `1th`, `2th`, ..., its earlier stages. No driver calls
another; JFFS2 reaches the flash drivers through the kernel's MTD layer. They share the kernel they run in, and the hard behaviours come from
there: processes that sleep inside a driver, interrupts that preempt each other
and them, timers (softirqs) in between, signals, and `insmod`/`rmmod` at any time.

| component | state | operations | hard behaviour | what makes it correct |
|---|---|---|---|---|
| `third_drv` buttons, blocking read | `key_val`, `ev_press`, wait queue, six IRQ lines | init, exit, open, release, read, handler | sleep against wakeup, two readers, nested handlers, signals, several openers | no lost wakeup, no stale level, no line outliving its file |
| `forth_drv` buttons, poll | the same | `third_drv` + poll | test and sleep of poll against the handler | a poller never sleeps on a set event |
| `fifth_drv` buttons, SIGIO | the same + `fifth_async_queue` | `third_drv` without waiting + fasync, poll | signal merging, queue entries of closed files | no event is swallowed |
| `8th_buttons` keys as input device | `irq_pd`, one timer, input device | init, exit, handler, timer function | bounce, two keys in one period, load order | at rest the reported state is the level |
| `11th_ts` touch screen | `cnt`, samples, ADC mode, timer, input device | init, exit, pen IRQ, ADC IRQ, timer function | three contexts programming one controller | index in bounds, touch always watched, pen up reported |
| `22th_dma` memory copy | `ev_dma`, two buffers, channel 3, one IRQ line | init, exit, ioctl, handler | shared buffers and channel, lock dropped in sleep, late interrupt | no lost wakeup, complete copy, buffers outlive transfer |
| `12th_usbmouse_as_key` | static pointers to input device, buffer, URB; `pre_val` | init, exit, probe, disconnect, completion | resubmission against kill, replug, two mice | URB never outlives its buffer, keys follow packets |
| `first_drv` LEDs, `second_drv` polled buttons | GPIO registers | init, exit, open, write / read | device usable before its registers are mapped | no fault outside that window |
| `9th_bus_drv_dev` LED on the platform bus | register mapping, pin, class | device and driver load and unload, probe, remove, open, write | either load order, files that outlive the device | registers mapped while the device can be opened, LED shows the last write |
| `10th_lcd` frame buffer | LCD registers, frame buffer, palette | init, exit, setcolreg | order of load and unload, palette index | no fault while files hold the module |
| `13th_ramblock` RAM disk | buffer, request queue | init, exit, getgeo, do_request | requests in segments, several clients, plugged queue | reads return the last write, no request forgotten |
| `14th_nand`, `15th_nor` flash | controller registers, MTD device | init, exit, select, command, ready, map access | exit order, failed probes, files that do not hold the module | no fault while files hold the module |
| `16th_virt_net` network card | statistics | init, exit, transmit | buffer ownership | no fault through load, failed load and unload |
| `19th_i2c_drv` AT24Cxx | client, class | attach, detach, read, write | two messages per read, one address pointer, failed transfers | a call that reports success took effect |
| `20th_chrdev_another` | two char device regions | init, exit, opens | two devices in one load | no fault in any order of opening and loading |
| JFFS2 (`14th_nand/mtd-utils-05.07.23/fs/jffs2`) | log of nodes on the flash, write buffer, block lists, obsolete marks, directory and inode cache | create, link, unlink, rename, reserve, flush, collect, erase, scan and mount | power cuts at any write, deletion entries that outlive what they delete, space held back for the collector | a cut loses only the latest changes, collection neither revives nor loses a name, what is held back for the collector stays there and is enough |
| test programs | | `open`, `read`, `poll`, `fcntl`, `ioctl` | | the environment of the models |
| earlier stages, LCD variants | | | | superseded by the final versions |
| `tslib`, the rest of `mtd-utils`, `zlib` | | | | third-party code kept in the tree; section 6 |

Every driver is modelled, and of JFFS2 the directory, the log and their recovery;
section 6 says what is not.

## 2. Modules

| module | models | composed of |
|---|---|---|
| `ButtonIrq` | what `third_drv`, `forth_drv` and `fifth_drv` share: module registration, lines, handler, `key_val` | |
| `ThirdDrv` | `third_drv.c` | `ButtonIrq` |
| `ForthDrv` | `forth_drv.c` and the kernel's poll loop | `ThirdDrv` |
| `FifthDrv` | `fifth_drv.c` and the signal handler of `fifth_drv/test.c` | `ButtonIrq` |
| `Buttons` | `8th_buttons/buttons.c` | |
| `TouchScreen` | `11th_ts/s3c_ts.c` | |
| `Dma` | `22th_dma/dma.c` | |
| `UsbMouse` | `12th_usbmouse_as_key/usbmouse_as_key.c` | |
| `AtomicDisk` | what a block device promises: each request takes effect at one moment | |
| `RamBlock` | `13th_ramblock/ramblock.c` | implements `AtomicDisk` |
| `LedPlatform` | `9th_bus_drv_dev/led_drv.c` and `led_dev.c` on the platform bus | |
| `At24cxx` | `19th_i2c_drv/at24cxx.c` | |
| `SmallDrivers` | `first_drv`, `second_drv`, `10th_lcd`, `14th_nand`, `15th_nor`, `16th_virt_net`, `20th_chrdev_another`; one in each behaviour | |
| `DurableDir` | what a journalling directory promises across power cuts | |
| `Jffs2` | `fs/jffs2`: `dir.c`, `write.c`, `nodemgmt.c`, `wbuf.c`, `gc.c`, `erase.c`, `scan.c`, `build.c` | implements `DurableDir` on NAND |
| `ButtonIrqProofs`, `FifthDrvProofs`, `DmaProofs`, `RamBlockProofs`, `Jffs2Proofs` | the theorems | the module of that name |
| `ForthDrvProofs` | the theorems | `ThirdDrv`, `ForthDrv` |
| `InputProofs` | the theorems | `Buttons`, `TouchScreen`, `UsbMouse` |
| `DevicesProofs` | the theorems | `LedPlatform`, `SmallDrivers`, `At24cxx` |
| `MCDevices` | the TLC instance of `RamBlock`, `LedPlatform`, `At24cxx` and `SmallDrivers`; each behaviour runs one of them | these four |
| `MCInput` | the TLC instance of `Buttons`, `TouchScreen` and `UsbMouse`; each behaviour runs one of them | these three |
| `MC...` | the TLC instance of the module of that name | |

Conventions that hold throughout:

* **Atomicity.** The board has one processor and the kernel does not preempt
  kernel code. A handler is split where it reads something (a pin, the pen) and
  acts on it later, if another context can run in between. A process step is one
  stretch of code between points where an interrupt, or another process, can make
  a difference; process steps are enabled only while no handler or timer function
  is running (`CpuFree`). Handlers are installed without `IRQF_DISABLED`, so handlers
  of different lines nest (`running` is a stack) and a line never nests in itself.
* **Load and unload** are actions like any other (`mod` says how far they are). The
  kernel's use count is the guard "all files closed" of the first exit step, which is
  what `.owner = THIS_MODULE` gives. `insmod` initialises static data. A failed
  load that leaves things registered ends in a state after which the model says
  nothing.
* **Faults.** Where the code can touch freed or unmapped memory the model has a
  variable `fault` and stops there (in `LedPlatform` the process is killed and the
  others go on); the properties say when that cannot happen.
* **History variables** (`missed`, `unread`, `behind`, `disturbed`, `stale`,
  `astray`, `careless`, `cutOff`, `lastVal`, `held`) are read by no guard and by no other variable's next value.
* **Power cuts** are in `Jffs2` only, the one component whose code recovers
  its state from a medium: a cut may come between any two steps and in the middle of a write.
* **Environment.** Keys, pen and mice change at any time; `copy_to_user` and
  allocations may fail; signals arrive in any sleep. The kernel services
  used (wait queues, `do_poll`, fasync, timers, input core, USB core) are modelled by
  what the drivers see of them and marked external in the map.
* Definitions named `X_Something` next to a definition `X`, under a comment "Mutant",
  are plausible wrong versions of `X`. Each is used to show that a property fails
  when the code is changed that way; no specification refers to them.

**State and code.** *ButtonIrq*: `irqs` is the set of lines with a handler, `idx[p]`
the loop variable `i` of `p`'s open or release, `sample[k]` the handler's local
`pinVal`. *ThirdDrv*: `rd[p]` is the program counter in `third_drv_read`:
`wait` before the test in `wait_event_interruptible`, `asleep`, `copy` before
`copy_to_user`, `copied` before `ev_press = 0`. *ForthDrv*: `poll[p]` is the place
in `do_poll`/`forth_drv_poll`. *FifthDrv*: `fq` is `fifth_async_queue`, `sig` the
pending SIGIOs, `sh[p]` the place in the signal handler, `asks` the files with FASYNC
set. *Buttons*: `btLines` are the installed lines, `btEdges` the latched edges, `armed` is the
pending timer, `tkey`/`tlevel` the locals of the running timer function, `reported`
the input core's key bits. *TouchScreen*: the controller's mode, the pending
interrupts, the stack of running handlers and how far each has come (`at`), `cnt` and the timer; `tclevel` is the unknown polarity of a sub-interrupt
latch, fixed per behaviour. *Dma*: `bkl` is the big kernel lock under which `ioctl`
runs, `chan` the next block of channel 3, `dst` the blocks copied. *UsbMouse*: `drv[m]`
is the place in probe or disconnect; objects are named by the mouse they were
allocated for and the three static pointers refer to those names. *RamBlock*: `rq[c]`
is a `struct request` (`sector`, sectors left, `buffer`), moved on by `end_request`;
`ramblock_lock` is TRUE while `do_ramblock_request` runs, `rbPlugged` while the block
layer is going to call it. *LedPlatform*: `bound` is the place in `led_probe` or
`led_remove`, `gpio` says whether `gpio_con` and `gpio_dat` are mapped, `con` and `dat` are
the pin's bits in the hardware. *At24cxx*: `msgs[p]` is what is left of the array given to
`i2c_transfer`, `count[p]` its result, `cursor` the chip's address pointer.
*SmallDrivers*: a driver's init and exit are the sequences of what they take and give up,
`sdPc` is how far they are, `sdHave` what is there; `sdOld` are files opened in an earlier
load. *Jffs2*: `log[b]` is what has been written to erase block `b`, `wbuf` how
many of its last nodes are still in `c->wbuf`, `marked` the blocks with a clean marker;
`list[b]` is the list of `jffs2_sb_info` the block is on, with `clean_list`, `dirty_list` and
`very_dirty_list` together as `"closed"`; `obs` are the refs marked `REF_OBSOLETE`,
`clearing` those whose ACCURATE bit is about to be cleared on NOR; `hv`, `hino` and `nlink` are
`highest_version`, `highest_ino` and the inode caches' `nlink`; `op` is the directory operation under
way with the nodes it still has to write; `losses` counts failed writes, paddings and skipped ends of blocks.
A node takes one slot of a block, but how long it is and where pages end is left open: a flush pads any number of slots behind the
buffered nodes (`Padding`), and a node may be too long for what is left of `c->nextblock`, whose end is then skipped (`CloseNext`).

## 3. Runs

| run | instance | shows |
|---|---|---|
| `forth_two_procs` | 2 processes, 1 key, `request_irq` may fail; symmetric | no lost wakeup for readers (`NoLostWakeup`) or pollers (`PollerNotStuck`), every installed line belongs to a file that will free it (`IrqsAccounted`), a read that found an event returns a key (`EventHasKey`) |
| `forth_one_proc` | 1 process, 2 keys | a settled `key_val` is the present level (`LevelAgrees`), a read after POLLIN does not sleep, sleepers return |
| `fifth_notified` | 1 process, 2 keys | a notified process has a signal pending or is about to read (`NotifiedOrRead`), and does read; one that clears FASYNC before it closes never makes the kernel follow a freed file (`CarefulNeverFaults`) |
| `input_devices` | 2 keys, `request_irq` may fail; 1 pen, 4 samples, both polarities; 2 mice, 1 button, 2 insertions | keys: `LastKeyAgrees`, `FaultsOnlyAfterFailedLoad`, the driver comes to rest; pen: `SampleInArray`, `TouchWatched`, faults only during load and unload, pen up and long press are reported; mice: a submitted URB has its buffer and device and nothing but the second release of the input device faults (`MouseFaultsConfined`), `KeysFollowPackets`, `ButtonsReported` |
| `dma_two_callers` | 2 processes, 2 blocks, any free lines | `DmaNoLostWakeup`, an undisturbed copy is complete, its buffers stay and its caller returns; only a call made before init has mapped the registers faults (`FaultsOnlyEarly`) |
| `devices` | 2 clients and 2 sectors; 2 users of the LED; 2 users and 2 bytes of the EEPROM; 2 files of each small driver | `RamBlock` implements `AtomicDisk`, has memory for every request and forgets none; the LED's registers are mapped for every file whose device is there (`KilledOnlyIfCutOff`) and it shows the last write; an EEPROM call that reports success took effect (`CallsTakeEffect`); the small drivers fault only where their code lets them (`FaultsConfined`) |
| `jffs2_power_cuts` | NAND and NOR, 4 blocks of 2 nodes, 2 names, 1 file at a time, 3 versions, 1 cut, 1 loss; symmetric | on NAND: `Jffs2` implements `DurableDir` (`CrashSafe`), a mount would show the directory in core (`RemountShowsDirectory`), no entry without inode (`EntriesHaveInodes`); on both media nothing but waste eats into the reserve of a mounted file system and every reservation finds it there (`ReserveKept`), and while it is there a block is found (`NeverOutOfRoom`) |
| `third_lost_event` | 1 process, 1 key | **violated**: an event between `copy_to_user` and `ev_press = 0` is forgotten |
| `third_two_openers` | 2 processes, 1 key | **violated**: one close frees the other opener's lines |
| `buttons_two_keys` | 2 keys | **violated**: a second key within 10 ms hides the first one's release, which repeats for good |
| `dma_other_line` | 1 process, 1 block | **violated**: with a lower DMA line free the caller is never woken |
| `jffs2_nor_deletion` | as `jffs2_power_cuts`, with 4 versions | **violated**: on NOR an entry that only the scan found obsolete keeps its ACCURATE bit; the collector drops the deletion entry that hides it, and the next mount shows the deleted file |

The five violated properties state what comments in the sources say; the
findings in `PROJECT.json` quote them.

`third_drv` has no passing run of its own: `forth_drv` is `third_drv` with one more
operation, so the `forth` runs check `ThirdDrv`'s properties on a larger system,
and `ForthImplementsThird` proves the relation.

**Bounds.** The drivers treat keys alike and look at most at one other key: two keys give
every nesting and every overwriting of `irq_pd`. Two processes give a second reader,
poller, opener or caller; nothing in the code distinguishes a third. A wait needs
two blocks so that a transfer can be caught half-way. Two insertions give a mouse and its
replacement, or two at once. Two sectors give a request of two segments, one that begins in
the middle of the disk, and overlapping requests; two bytes give two addresses for the
chip's one pointer. In `Jffs2`, `ResvDeletion = 2` and `ResvWrite = 3` are
what `jffs2_calc_trigger_levels` computes for a small flash, and four blocks the fewest on
which a file can be created under them. Two nodes to a block let an entry and the
entry that deletes it lie in one block or in two; two names let a file be renamed, and have one
name deleted while it keeps another; three
versions are a creation, a deletion and a move of the deletion entry by the collector, the fourth that the NOR run has one move more. A loss is
a padding or skipped end of a block, of any length, or a failed write; one of them and a power cut are enough for the reserve to be missing. There is
one inode number besides the root's; a mount gives it out again when no node carries it. A rename that
replaces another file needs a second one, `MaxIno = 3`, and about ten times as many states. The proofs remove the bounds for what they cover.
That the collector *never* runs out of room is false, of the model with two losses (`MaxLosses = 2`) and of the code: the end of a block that is
skipped, and a power cut in the middle of a move by the collector, each waste a slot, and in the end every block is partly used and none
has a slot left. The code compares the reserve with what is there when it admits a write, and keeps an extra 2% of the flash for such
overhead (`build.c`, l. 271-274), but not when it mounts, pads or skips; hence the two properties, what eats into the reserve and what it is enough for,
instead of that one. How much waste the 2% cover depends on sizes of nodes and pages and is not stated.
`CHECK_DEADLOCK FALSE` is used for `Dma`, where a failed load is the end, for
`input_devices`, where the kernel stops at a fault, for `devices`, where the exit of `at24cxx` can
crash and a small driver stops at a fault, and for `Jffs2`, where a mount can be refused.

**Conditions in properties.** `UndisturbedCopies`, `BuffersOutliveTransfer` and
`WaiterReturns` except behaviours after a signal has cut a wait short or two waits
have overlapped (`disturbed`): the code then really compares half-copied buffers
and can free them under a running channel. The mouse properties except two mice at once and the
errors the driver does not look at (`astray`), the fault of the second release on disconnect (l. 140), which `MouseFaultsConfined` names, and a mouse that begins with another's
`pre_val` (`stale`). `LiveNeverFaults` excepts load and unload of the touch screen, where
the timer can run with its registers unmapped. `FaultsOnlyAfterFailedLoad` excepts loads of
`8th_buttons` that returned -EAGAIN with lines still installed; `CarefulNeverFaults` files closed
with FASYNC set; `FaultsOnlyEarly` DMA calls made before init is complete; `FaultsConfined` the
GPIO drivers during init and `s3c_nor`, whose files do not hold it. `NeverOutOfRoom` assumes `ReserveHeld`: as many slots
that are or will be free as a block has, and one more for a writer that holds a reservation; `ReserveKept` says that only waste takes from that (`Wasted`: padding, the skipped
end of a block, a failed write) and that a reservation restores it, and excepts power cuts. `Jffs2`'s directory properties are of NAND,
since the run `jffs2_nor_deletion` refutes them of NOR. These cases are in the models and
in the list of hazards.

## 4. Fairness

Interrupts that are pending and enabled are taken, handlers and timer functions
return, conversions, DMA transfers and timers end: weak fairness. A process that can run gets the
processor: strong fairness where interrupts can disable it again and again
(`ForthDrv`, `FifthDrv`), weak where only finitely many can come. Nobody is obliged to
press a key, call a driver, send a signal or let a poll time out. A person
could move keys so fast that handlers follow each other for ever; the liveness
properties of the button drivers assume the processor is free infinitely often
(`[]<>CpuFree`), which holds for any physical key. Freedom of `UsbMouse`: a
mouse with a change to send and a submitted URB sends it. In `input_devices` each driver's
fairness is stated; it asks nothing of a driver that is not the behaviour's.

## 5. Proofs

All are safety theorems of the specifications without fairness, from the assumptions on the constants:
`NKeys \in 1..127` for the three `ButtonIrq` drivers (a pressed key's number fits below 0x80) and positive for
`Buttons`; `NBlocks`, `NSectors`, `NBytes`, `Samples` and `NButtons` positive; `Zero \in Data`; `Bytes` not
empty; `NULL` is no mouse; the bounds `MaxFiles`, `SendBuffer`, `MaxPlugs`, `MaxVer`, `MaxCuts` and `MaxLosses`
are numbers; and for JFFS2 at least one slot in a block, at least two inode numbers (the root's and one more),
finitely many names and erase blocks, and `ResvWrite > ResvDeletion >= 2`, as `jffs2_calc_trigger_levels` sets them.
Nothing is assumed of the sets of processes, clients or mice, with one exception:
`ForthReadyReadReturns` is about a single process, which is its hypothesis.

* `ButtonIrqProofs`: `LineInv` is inductive. `IrqsAccounted` is inductive together with
  `FilesOK` (an open or closing file keeps the module, and each loop starts at the
  first line). `LevelAgrees` is not inductive: the value that a handler is about
  to publish must be right too, hence `SampleAgrees` (an edge after the sample is
  latched again), and for a nested handler `StackOK` (a line runs its handler once,
  so the sample is its own). `HandlersInModule` follows from `IrqsAccounted`, `StackOK` and `FilesOK`
  (no handler is installed or runs without the module); it is proved only, no run repeats it.
* `ForthDrvProofs`: `ThirdImplementsLines` (`ThirdSpec => LineSpec`) carries the
  above over to `third_drv`; `ThirdInv` adds that a reader holds its file open,
  `NoLostWakeup`; `EventHasKey` is inductive given `LineInv` (a published key is never 0).
  `ForthImplementsThird` (`ForthSpec => ThirdSpec`: poll steps stutter) carries
  both over to `forth_drv`; `PollerNotStuck` is inductive by itself. `ReadyReadReturns` needs `ReadyInv`: once a poll
  has answered, the event stays set and the file open until the process itself reads.
* `FifthDrvProofs`: `FifthImplementsLines` (`FifthSpec => LineSpec`) carries `IrqsAccounted`,
  `HandlerNeedsModule` and `LevelAgrees` over. `NotifiedOrRead` is inductive with the types of what it
  mentions; `CarefulNeverFaults` needs `QueueInv`: the queue is exactly the files that ask for
  signals, and an entry dangles only after a careless close.
* `DmaProofs`: `DmaInv` is inductive. `UndisturbedCopies` needs `TransferOK`: while nothing is
  disturbed there is one caller, a running channel or pending interrupt
  belongs to it, blocks are copied in order, and `ev_dma` is clear until the last
  one's interrupt. For "one caller" to survive a new call it needs `LockOK` (the lock is held
  by exactly the caller that is awake), and for unloading `FilesHoldModule`. `FaultsOnlyEarly` is
  another conjunct, which `FilesHoldModule` makes inductive: a call keeps the module, and so the mapping.
* `RamBlockProofs`: `RamInv` is inductive; besides `RequestHasMemory` and
  `RequestNotForgotten` it needs `OneStarted` (one request is worked on, under the lock, and
  the memory is there exactly from `kzalloc` to `kfree`). `RamImplementsAtomicDisk`
  is the refinement: a request takes effect in `AtomicDisk` when `elv_next_request`
  returns it. The disk the clients see (`DiskSeen`, `MemSeen`) is the memory with the rest of the
  started request already copied, so that copying a segment changes nothing
  (`MemcpySplit`: a part and then the rest is the whole) and the last one finishes.

* `DevicesProofs`, LED: `LedInv` says that the registers are mapped exactly while the device is bound
  (`GpioMapped`), that a file that is not cut off has its device (`FileHasDevice`), that the pin is an output once opened
  and its bit the last value written. Unbinding under an open file is why `KilledOnlyIfCutOff` is the claim and not "never killed".
  Small drivers: `HaveOK` relates what is there to the calls made so far, whichever way init and exit
  order them: what the first `sdPc` calls of init have taken is there until exit gives it up, and
  nothing that can be switched on (`Switches`) is there beyond that. With `SmallFilesOK` (which load a file belongs to) it makes `FaultsConfined` inductive.
  EEPROM: `OneOnBus` (the adapter's lock admits one transfer) and `CallOK`: the messages left agree with the count, the chip's
  pointer is the call's address once the first message of a read is over, and a byte brought back was in
  the chip at some moment of the call.
* `InputProofs`, keys: for the key of `irq_pd`, with no edge waiting, the timer is armed, or its function is about to
  report the pin's present level, or the level has been reported (`LastKeyOK`). Touch screen: `Watched`: while a touch is reported,
  the timer is armed, or an `adc_irq` that will arm it is under way, or nothing that runs has reported the pen up or lost
  its mode (`Undisturbed`) and something runs, converts or is pending; "something is active" alone is not inductive, as a handler may be
  interrupted between its report, its register write and its timer. `SetUpOK`
  says what a live driver has. USB mouse: `MouseOK` says for each place in probe and disconnect which of the three objects exist and whether the URB may be
  with the controller, up to the second release of l. 140, the one place where disconnect may crash; `OneMouse` that the static pointers are of the one mouse that is bound; and `KeysOK` relates keys, `pre_val` and packets.
  All three hold until a second mouse, or an error that probe does not look at, has led the pointers astray.
* `Jffs2Proofs`: `NandInv` is inductive for JFFS2 on NAND; TLC checked it first. Besides the types it says:
  - no two entries have the same version (`Distinct`);
  - an entry that counts is the newest of its name, and its inode is there. When none counts, each entry of the name that
    names an inode shares its block with a newer deletion entry (`EntriesOK`), so erasing the block takes both;
  - the lists agree with the nodes on the blocks, one block is `c->nextblock`, the buffer is part of it, and a block filed to be erased has no
    used node (`BlocksOK`);
  - wherever the write buffer is cut off, and whichever doomed blocks (without a used node, and not waiting for the buffer) have been
    erased by then, every newest entry has its inode, and the entries that show are those that would show with none of the blocks
    erased (`Good` and `Alike` in `FlashOK`). This is what `erasable_pending_wbuf_list` is for: without it
    a block could be erased before what replaces its nodes is out;
  - `nlink` is at least the number of names, one more halfway through a rename (`LinksOK`), and an operation under way is where its
    nodes say (`OpOK`), so that `jffs2_do_clear_inode` never takes an inode that still has a name;
  - when not mounted, the buffer is empty and the log good.

  `MountShowsDirectory` (`RemountShowsDirectory`) follows from the first two, `NewestHasInode`
  (`EntriesHaveInodes`) from `FlashOK` with no block erased.

  `Jffs2CrashSafe` (`CrashSafe`) is the refinement of `DurableDir`, from `NandInv` before and after a step. The abstract state is the sequence of directories
  that a cut would leave, one for each number of buffered nodes that reach the flash (`Recoverable`); what such a flash shows is read off the places
  left of one and the same log (`ShownOf`). Writing a node adds one directory at the end and lets some at the front become durable
  (`RecStored`), and it differs from the one before in the node's own name only, as every other newest entry had its inode already (`OneName`). Erasing
  a block changes none of them, which is `Alike` with that block erased (`RecErased`); nor does filing, obsoleting or mounting (`RecSame`). Writing the buffer out leaves
  the last one, and a power cut any of them, a torn node being dead.

  Space, on NAND and on NOR: `SpaceInv` is inductive (no block holds more than fits, free and erased blocks are empty, erasable
  ones have no used node, one `c->nextblock` and one `c->gcblock`, and blocks wait for the write buffer only while it holds something). The
  proof of `ReserveIsKept` (`ReserveKept`) counts `Slack`, the slots that are or will be free: a move by the collector takes a slot and gives
  back the one it moved from, a writer takes the one its reservation added, filing and erasing take none; a flush, the closing of a block and a failed
  write take slots of `c->nextblock` that then hold nothing but padding, or lie behind its last node, which is `Wasted`; and a reservation is
  given only with `ResvDeletion` whole blocks there, which is why two are needed and one is not enough. `RoomWhileReserved` (`NeverOutOfRoom`): the slots of
  the reserve cannot all lie in the one block being collected, which has fewer free ones than that while it has a node to move, so another block
  is free or to be erased.

Only model-checked: every liveness property (the prover does not handle fairness), and what the five runs that expect a
violation refute. Every invariant, action property and refinement that a passing run checks is also a theorem.

## 6. Not modelled

**Inside the modelled drivers.** Values of coordinates, register bit fields, time (a timer takes
any time), names and numbers of devices, messages. Results of `class_create` and similar
calls, which the code ignores. In `8th_buttons` and `11th_ts`, `input_free_device` after
`input_unregister_device` at the end of exit, a second release of the device; in the mouse driver, where it comes
with every disconnect, it is the action `FreeKeys`.
In the RAM disk, the merging of several clients' requests into one, `getgeo` (constants) and the
`gendisk` that exit does not put; in the EEPROM, the `i2c_client` that
detach does not free. That the mouse's completion handler submits its URB with `GFP_KERNEL`.

**Behaviour that is in the models and of which no property speaks**, because no comment, document
or test says otherwise: a signal that ends `third_drv_read`'s wait makes it deliver `key_val` as it
is, 0 before the first key; `fifth_drv` never sets `ev_press`, so its poll never
says POLLIN; the touch screen keeps the count of samples across presses, so a press can be averaged
with the one before; `s3c_lcdfb_setcolreg` accepts index 16 of a palette of 16, and
`lcd_exit` clears bit 3 of `lcdcon1` where `lcd_init` had set it in `lcdcon5`, so the panel stays on;
`my_hard_start_xmit` never frees a frame; `s3c_nor` reads the mapping's address from the map it
has just freed.

**JFFS2.** Data of files and their fragment trees, directories below the root, other kinds of
inode, compression. Erase failures and bad blocks: what a failed or interrupted
erase leaves on the chip is not determined by this code, so an erase is one step in the
model, as is the writing of a clean marker. The recovery of a write buffer whose page could not be written
(`jffs2_wbuf_recover`), sizes in bytes of nodes and pages (padding is of any number of slots), unmounting, remounting read-only. The CRC check of nodes found
by the scan, which the code defers to the collector, is done at mount. The collector's thread is any
moment at which no writer holds `alloc_sem`. Two things the model does and no property
speaks of: a create that fails between its inode and its entry leaves
an inode with `nlink` 1, which nothing frees before the next mount (the comment in `jffs2_do_create`
wants it deleted "as if it were the final unlink()"), and a scan that
finds only a torn first node refuses the mount.

**Other parts of the tree.** The earlier stages and LCD variants are
versions of the modelled drivers on the way to their final form; the same
properties would be stated again. `tslib`, `zlib` and the rest of `mtd-utils` are third-party code that no
driver calls, kept for installation on the board: compression algorithms and bit-level codes
(`compr_lzo.c`, `inflate.c`, Reed-Solomon), which are functions of byte strings out of TLC's reach; command line
tools that read a file, call an ioctl and print; two more generations of the same file system
(`fs/jffs`, `fs/jffs3`) and its port to another kernel (`fs/jffs2/ecos`). They make up
most of the tree's lines of C (with `fs/jffs2` and the earlier stages all but a few thousand), so the part
of the tree that the map covers is small although every driver is modelled. `jffs2` is the exception because it carries a
protocol, crash recovery, of which a model says something that a test does not.

## 7. Plan

`TouchScreen`: samples that carry the press they belong to. `Jffs2`: erase failures, once it is
settled what they may leave; with sizes in bytes, how much padding and how many power cuts a reserve of a given size survives.
