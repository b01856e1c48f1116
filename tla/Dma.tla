-------------------------------- MODULE Dma --------------------------------
(***************************************************************************)
(* 22th_dma/dma.c: a device whose ioctl copies one buffer to another, by   *)
(* the processor or by DMA channel 3, and sleeps until the channel's       *)
(* interrupt.  Every caller shares the two buffers, the channel and        *)
(* ev_dma.  The kernel calls the ioctl operation with the big kernel lock  *)
(* held and gives it up for as long as the caller sleeps.                  *)
(*                                                                         *)
(* src holds 0xaa whenever a transfer reads it, so only dst is kept.  A    *)
(* pending interrupt whose handler is installed is taken before any        *)
(* process goes on.                                                        *)
(***************************************************************************)
EXTENDS Integers

CONSTANTS
    Procs,      \* processes that use /dev/dma, one file each
    NBlocks     \* parts of the buffer told apart (BUF_SIZE bytes in the code)

ASSUME NBlocksAssumption == NBlocks \in Nat \ {0}

VARIABLES
    mod,        \* how far dma_init or dma_exit has come
    taken,      \* DMA interrupt lines other drivers hold; does not change
    irq_no,     \* the line the driver holds, or NoLine
    pc,         \* pc[p]: where p is
    bkl,        \* the process that holds the big kernel lock, as a set
    ev_dma,     \* set by the handler, cleared by ioctl
    chan,       \* the block channel 3 copies next, 0 when it is idle
    intpend,    \* is channel 3's interrupt pending?
    dst,        \* blocks of dst that hold src's data
    result,     \* result[p]: what p's last ioctl printed
    fault,      \* has an ioctl used dma_regs while it is not mapped?
    disturbed   \* history: a signal ended a wait early, or an ioctl began during another's wait

procVars == <<pc, bkl, result>>
chanVars == <<chan, intpend, dst>>
dmaVars == <<mod, taken, irq_no, procVars, ev_dma, chanVars, fault, disturbed>>

Blocks == 1 .. NBlocks
Lines == 0 .. 3         \* IRQ_DMA0 .. IRQ_DMA3
Channel == 3            \* DMA3_BASE_ADDR
NoLine == -1

Sleeping(p) == pc[p] \in {"asleep", "woken", "signalled"}
InIoctl(p) == pc[p] \notin {"closed", "open"} /\ ~Sleeping(p)
Allocated == mod \notin {"out", "src"}
Mapped == mod \in {"regs", "live"}          \* dma_regs, l. 159 to l. 186
Deliverable == intpend /\ irq_no = Channel
CpuFree == ~Deliverable /\ ~fault /\ mod # "dead"

Goto(p, label) == pc' = [pc EXCEPT ![p] = label]

-----------------------------------------------------------------------------
(* dma_init and dma_exit.                                                  *)

\* l. 129-143.  A failure leaves nothing behind.
AllocBuffers ==
    /\ CpuFree
    /\ \/ mod = "out" /\ mod' = "src"
       \/ mod = "src" /\ mod' \in {"out", "dst"}
    /\ ev_dma' = FALSE
    /\ disturbed' = (disturbed /\ (chan # 0 \/ intpend))
    /\ UNCHANGED <<taken, irq_no, procVars, chanVars, fault>>

\* l. 145-157: from cdev_add on the device can be opened.
AddDevice ==
    /\ CpuFree
    /\ mod = "dst"
    /\ mod' = "dev"
    /\ UNCHANGED <<taken, irq_no, procVars, ev_dma, chanVars, fault, disturbed>>

\* l. 159-163.  A failed load ("dead") leaves the device registered and the
\* module's memory freed; the model says nothing of what follows.
MapRegs ==
    /\ CpuFree
    /\ mod = "dev"
    /\ mod' \in {"regs", "dead"}
    /\ UNCHANGED <<taken, irq_no, procVars, ev_dma, chanVars, fault, disturbed>>

\* l. 166-178: the first free line of the four; none is -EBUSY.
RequestIrq ==
    /\ CpuFree
    /\ mod = "regs"
    /\ \/ \E l \in Lines \ taken :
             /\ \A k \in Lines \ taken : l <= k
             /\ irq_no' = l
             /\ mod' = "live"
       \/ /\ taken = Lines
          /\ irq_no' = irq_no
          /\ mod' = "dead"
    /\ UNCHANGED <<taken, procVars, ev_dma, chanVars, fault, disturbed>>

dma_init == AllocBuffers \/ AddDevice \/ MapRegs \/ RequestIrq

\* Mutant: .owner forgotten, so that rmmod does not wait for open files.
FreeIrq_NoOwner ==
    /\ CpuFree
    /\ mod = "live"
    /\ mod' = "noirq"
    /\ irq_no' = NoLine
    /\ UNCHANGED <<taken, procVars, ev_dma, chanVars, fault, disturbed>>

\* l. 185.  rmmod waits for the module's use count.
FreeIrq ==
    /\ CpuFree
    /\ mod = "live"
    /\ \A p \in Procs : pc[p] = "closed"
    /\ mod' = "noirq"
    /\ irq_no' = NoLine
    /\ UNCHANGED <<taken, procVars, ev_dma, chanVars, fault, disturbed>>

\* l. 186-192: the registers, the device, then the buffers are given back.
FreeBuffers ==
    /\ CpuFree
    /\ mod = "noirq"
    /\ mod' = "out"
    /\ UNCHANGED <<taken, irq_no, procVars, ev_dma, chanVars, fault, disturbed>>

dma_exit == FreeIrq \/ FreeBuffers

-----------------------------------------------------------------------------
(* dma_ioctl.                                                              *)

Open(p) ==
    /\ CpuFree
    /\ pc[p] = "closed"
    /\ mod \in {"dev", "regs", "live"}
    /\ Goto(p, "open")
    /\ UNCHANGED <<mod, taken, irq_no, bkl, result, ev_dma, chanVars, fault, disturbed>>

Close(p) ==
    /\ CpuFree
    /\ pc[p] = "open"
    /\ Goto(p, "closed")
    /\ result' = [result EXCEPT ![p] = "none"]
    /\ UNCHANGED <<mod, taken, irq_no, bkl, ev_dma, chanVars, fault, disturbed>>

\* l. 61-64: the buffers are filled before cmd is looked at.
IoctlCall(p, cmd) ==
    /\ CpuFree
    /\ pc[p] = "open"
    /\ bkl = {}
    /\ dst' = {}
    /\ disturbed' = (disturbed \/ \E q \in Procs : Sleeping(q))
    /\ \/ cmd = "MEM_CPY_NO_DMA" /\ Goto(p, "copy")  /\ bkl' = {p}
       \/ cmd = "MEM_CPY_DMA"    /\ Goto(p, "clear") /\ bkl' = {p}
       \/ cmd = "other"          /\ UNCHANGED <<pc, bkl>>
    /\ UNCHANGED <<mod, taken, irq_no, result, ev_dma, chan, intpend, fault>>

\* l. 68-69.
CopyLoop(p) ==
    /\ CpuFree
    /\ pc[p] = "copy"
    /\ dst' = Blocks
    /\ Goto(p, "compare")
    /\ UNCHANGED <<mod, taken, irq_no, bkl, result, ev_dma, chan, intpend, fault, disturbed>>

\* Mutant: ev_dma keeps the value the last transfer has left.
ClearEvent_Forgotten(p) ==
    /\ CpuFree
    /\ pc[p] = "clear"
    /\ Goto(p, "start")
    /\ UNCHANGED <<mod, taken, irq_no, bkl, result, ev_dma, chanVars, fault, disturbed>>

\* l. 81.
ClearEvent(p) ==
    /\ CpuFree
    /\ pc[p] = "clear"
    /\ ev_dma' = FALSE
    /\ Goto(p, "start")
    /\ UNCHANGED <<mod, taken, irq_no, bkl, result, chanVars, fault, disturbed>>

\* l. 85-93.  A channel that is already running starts again or just goes on.
StartDma(p) ==
    /\ CpuFree
    /\ pc[p] = "start"
    /\ \/ ~Mapped /\ fault' = TRUE /\ chan' = chan
       \/ Mapped /\ fault' = fault /\ chan' \in {1, chan} \ {0}
    /\ Goto(p, "wait")
    /\ UNCHANGED <<mod, taken, irq_no, bkl, result, ev_dma, intpend, dst, disturbed>>

\* l. 97, wait_event_interruptible: test ev_dma, or sleep and give up the lock.
WaitEvent(p) ==
    /\ CpuFree
    /\ pc[p] = "wait"
    /\ \/ ev_dma /\ Goto(p, "compare") /\ UNCHANGED bkl
       \/ ~ev_dma /\ Goto(p, "asleep") /\ bkl' = {}
    /\ UNCHANGED <<mod, taken, irq_no, result, ev_dma, chanVars, fault, disturbed>>

Signal(p) ==
    /\ CpuFree
    /\ pc[p] = "asleep"
    /\ Goto(p, "signalled")
    /\ UNCHANGED <<mod, taken, irq_no, bkl, result, ev_dma, chanVars, fault, disturbed>>

\* schedule() takes the lock again before the sleeper goes on.  The result of
\* an interrupted wait is dropped.
Resume(p) ==
    /\ CpuFree
    /\ bkl = {}
    /\ bkl' = {p}
    /\ \/ pc[p] = "woken" /\ Goto(p, "wait") /\ UNCHANGED disturbed
       \/ pc[p] = "signalled" /\ Goto(p, "compare") /\ disturbed' = (disturbed \/ ~ev_dma)
    /\ UNCHANGED <<mod, taken, irq_no, result, ev_dma, chanVars, fault>>

\* l. 71-74, 99-102 and 109.
Compare(p) ==
    /\ CpuFree
    /\ pc[p] = "compare"
    /\ result' = [result EXCEPT ![p] = IF dst = Blocks THEN "ok" ELSE "error"]
    /\ Goto(p, "open")
    /\ bkl' = {}
    /\ UNCHANGED <<mod, taken, irq_no, ev_dma, chanVars, fault, disturbed>>

\* What a caller does by itself once it has called ioctl.
IoctlStep(p) ==
    \/ CopyLoop(p) \/ ClearEvent(p) \/ StartDma(p) \/ WaitEvent(p) \/ Resume(p) \/ Compare(p)

dma_ioctl(p) ==
    \/ \E cmd \in {"MEM_CPY_NO_DMA", "MEM_CPY_DMA", "other"} : IoctlCall(p, cmd)
    \/ IoctlStep(p)

-----------------------------------------------------------------------------
(* The channel and its interrupt.                                          *)

\* Channel 3 copies a block; after the last one it turns itself off and raises
\* IRQ_DMA3.
Transfer ==
    /\ chan # 0
    /\ dst' = dst \cup {chan}
    /\ chan' = IF chan = NBlocks THEN 0 ELSE chan + 1
    /\ intpend' = (intpend \/ chan = NBlocks)
    /\ UNCHANGED <<mod, taken, irq_no, procVars, ev_dma, fault, disturbed>>

\* Mutants: no ev_dma = 1; no wake_up_interruptible.
s3c_dma_irq_NoEvent ==
    /\ Deliverable
    /\ intpend' = FALSE
    /\ pc' = [p \in Procs |-> IF pc[p] = "asleep" THEN "woken" ELSE pc[p]]
    /\ UNCHANGED <<mod, taken, irq_no, bkl, result, ev_dma, chan, dst, fault, disturbed>>

s3c_dma_irq_NoWakeUp ==
    /\ Deliverable
    /\ intpend' = FALSE
    /\ ev_dma' = TRUE
    /\ UNCHANGED <<mod, taken, irq_no, procVars, chan, dst, fault, disturbed>>

\* l. 117-123, on the line the driver holds: only IRQ_DMA3 is channel 3's.
s3c_dma_irq ==
    /\ Deliverable
    /\ intpend' = FALSE
    /\ ev_dma' = TRUE
    /\ pc' = [p \in Procs |-> IF pc[p] = "asleep" THEN "woken" ELSE pc[p]]
    /\ UNCHANGED <<mod, taken, irq_no, bkl, result, chan, dst, fault, disturbed>>

-----------------------------------------------------------------------------
DmaInit ==
    /\ mod = "out"
    /\ taken \in SUBSET Lines
    /\ irq_no = NoLine
    /\ pc = [p \in Procs |-> "closed"]
    /\ bkl = {}
    /\ ev_dma = FALSE
    /\ chan = 0
    /\ intpend = FALSE
    /\ dst = {}
    /\ result = [p \in Procs |-> "none"]
    /\ fault = FALSE
    /\ disturbed = FALSE

DmaNext ==
    \/ dma_init \/ dma_exit \/ Transfer \/ s3c_dma_irq
    \/ \E p \in Procs : Open(p) \/ Close(p) \/ dma_ioctl(p) \/ Signal(p)

DmaSpec == DmaInit /\ [][DmaNext]_dmaVars

\* The channel runs, its interrupt is taken, and a caller that can go on does.
DmaFairness ==
    /\ WF_dmaVars(Transfer)
    /\ WF_dmaVars(s3c_dma_irq)
    /\ \A p \in Procs : WF_dmaVars(IoctlStep(p))

DmaFairSpec == DmaSpec /\ DmaFairness

-----------------------------------------------------------------------------
(* Properties.                                                             *)

DmaTypeOK ==
    /\ mod \in {"out", "src", "dst", "dev", "regs", "live", "noirq", "dead"}
    /\ taken \subseteq Lines
    /\ irq_no \in Lines \cup {NoLine}
    /\ pc \in [Procs -> {"closed", "open", "copy", "clear", "start", "wait",
                         "asleep", "woken", "signalled", "compare"}]
    /\ bkl \subseteq Procs
    /\ ev_dma \in BOOLEAN
    /\ chan \in 0 .. NBlocks
    /\ intpend \in BOOLEAN
    /\ dst \subseteq Blocks
    /\ result \in [Procs -> {"none", "ok", "error"}]
    /\ fault \in BOOLEAN
    /\ disturbed \in BOOLEAN

\* No caller sleeps while ev_dma is set: neither the handler (l. 120-121)
\* between the test and the sleep (l. 97), nor another caller's ev_dma = 0
\* (l. 81), makes a lost wakeup.
DmaNoLostWakeup == \A p \in Procs : pc[p] = "asleep" => ~ev_dma

\* Between taking the lock and sleeping or returning, a caller is alone in
\* dma_ioctl: the buffers, ev_dma and the registers are not programmed by two
\* callers at once (l. 61-97).
OneInIoctl == \A p, q \in Procs : InIoctl(p) /\ InIoctl(q) => p = q

\* ioctl finds the copy complete (l. 99-102) as long as no signal ends a wait
\* before the interrupt and no ioctl begins during another's wait.
UndisturbedCopies == \A p \in Procs : result[p] = "error" => disturbed

\* Under the same condition no transfer outlives its buffers (l. 191-192).
BuffersOutliveTransfer == (chan # 0 /\ ~disturbed) => Allocated

\* dma_regs is used while it is not mapped only between cdev_add, which lets
\* processes in, and ioremap (l. 154-159), never during or after unload: rmmod
\* waits for the files.
FaultsOnlyEarly == fault => mod = "dev"

\* Undisturbed, a caller returns if the driver holds channel 3's
\* line and no ioctl came before the registers were mapped.
WaiterReturns ==
    \A p \in Procs : (pc[p] \notin {"open", "closed"} /\ irq_no = Channel)
                        ~> (pc[p] \in {"open", "closed"} \/ disturbed \/ fault)

\* "中断服务程序将它置1" (l. 54), "唤醒休眠的进程" (l. 121): the interrupt at the
\* end of the transfer wakes the process that sleeps for it.
SleeperWoken == \A p \in Procs : (pc[p] = "asleep") ~> (pc[p] # "asleep")

-----------------------------------------------------------------------------
(* The inductive invariant of the proofs.                                  *)

Waiting(p) == Sleeping(p) \/ pc[p] = "wait"

\* The lock is held exactly by the caller that is in dma_ioctl and awake.
LockOK ==
    /\ bkl = {} \/ \E p \in Procs : bkl = {p}
    /\ \A p \in Procs : InIoctl(p) <=> bkl = {p}

\* The module stays while a file is open.
FilesHoldModule ==
    \A p \in Procs : /\ pc[p] # "closed" => mod \in {"dev", "regs", "live", "dead"}
                     /\ pc[p] = "closed" => result[p] = "none"

\* Undisturbed, a running channel or its interrupt belongs to the one caller,
\* who waits for it; the interrupt follows the last block, and ev_dma the
\* interrupt.
OneCaller ==
    \A p, q \in Procs : pc[p] \notin {"closed", "open"} /\ pc[q] \notin {"closed", "open"} => p = q

TransferWaited == chan # 0 \/ intpend => \E p \in Procs : Waiting(p)

BlocksInOrder == chan # 0 => ~intpend /\ 1 .. chan - 1 \subseteq dst

WaiterOK ==
    \A p \in Procs :
        /\ pc[p] = "start" => ~ev_dma
        /\ Waiting(p) /\ (chan # 0 \/ intpend) => ~ev_dma
        /\ Waiting(p) /\ chan = 0 /\ ~fault => dst = Blocks
        /\ pc[p] = "compare" => dst = Blocks

TransferOK == ~disturbed => OneCaller /\ TransferWaited /\ BlocksInOrder /\ WaiterOK

DmaInv ==
    /\ DmaTypeOK
    /\ LockOK
    /\ DmaNoLostWakeup
    /\ FilesHoldModule
    /\ TransferOK
    /\ UndisturbedCopies
    /\ FaultsOnlyEarly
=============================================================================
