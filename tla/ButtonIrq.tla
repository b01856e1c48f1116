----------------------------- MODULE ButtonIrq -----------------------------
(***************************************************************************)
(* What the interrupt-driven button drivers third_drv, forth_drv and       *)
(* fifth_drv have in common: the module's registration, the key lines that *)
(* open() requests and release() frees one by one, and the interrupt       *)
(* handler that samples a pin and publishes key_val.  Line numbers in the  *)
(* comments are those of third_drv/third_drv.c.                            *)
(*                                                                         *)
(* The machine is a uniprocessor.  The handlers are installed without      *)
(* IRQF_DISABLED, so one key's handler can interrupt another key's (never  *)
(* its own), and a process runs only while no handler does.                *)
(***************************************************************************)
EXTENDS Integers, Sequences

CONSTANTS
    Procs,              \* processes that use /dev/buttons, one file each
    NKeys,              \* number of entries of pindesc (6 in the code)
    RequestMayFail      \* may request_irq fail for want of memory?

\* The drivers' key numbers are bytes below 0x80; the code has NKeys = 6.
ASSUME NKeysAssumption == NKeys \in 1 .. 127
ASSUME RequestAssumption == RequestMayFail \in BOOLEAN

VARIABLES
    mod,        \* how far insmod or rmmod of the driver has come
    chrdev,     \* is the major registered, i.e. can the device be opened?
    file,       \* file[p]: state of p's struct file
    idx,        \* idx[p]: next line that p's open or release handles
    irqs,       \* lines whose handler is installed
    pin,        \* pin[k]: electrical level, 0 pressed and 1 released
    pend,       \* lines with a latched edge not yet acknowledged
    missed,     \* history: lines with an edge nobody latched since the last sample
    running,    \* stack of keys whose handler is running, the innermost first
    sample,     \* sample[k]: pinVal of the running handler of k
    key_val     \* the driver's published key value

lineVars == <<mod, chrdev, file, idx, irqs, pin, pend, missed, running, sample, key_val>>

Keys == 1 .. NKeys
Level == {0, 1}

\* Mutant: a release is published as 0.
Code_ReleaseIsZero(k, level) == IF level = 1 THEN 0 ELSE k

\* key_val = 0x80 | pindesc->key_val for a high pin, pindesc->key_val for a low one.
Code(k, level) == IF level = 1 THEN 128 + k ELSE k

KeyCodes == {Code(k, level) : k \in Keys, level \in Level}

InHandler(k) == \E i \in 1 .. Len(running) : running[i] = k
CpuFree == running = <<>>
Loaded == mod \in {"reg", "class", "live"}
ModStates == {"out", "reg", "class", "live", "unreg", "undev"}

-----------------------------------------------------------------------------
(* insmod and rmmod.                                                       *)

\* third_drv_init, first statement; its result is never looked at.
\* insmod gives the module fresh static data.
RegisterChrdev ==
    /\ CpuFree
    /\ mod = "out"
    /\ mod' = "reg"
    /\ chrdev' \in BOOLEAN
    /\ key_val' = 0
    /\ UNCHANGED <<file, idx, irqs, pin, pend, missed, running, sample>>

\* class_create, then class_device_create, of third_drv_init.
CreateClass ==
    /\ CpuFree
    /\ \/ mod = "reg"   /\ mod' = "class"
       \/ mod = "class" /\ mod' = "live"
    /\ UNCHANGED <<chrdev, file, idx, irqs, pin, pend, missed, running, sample, key_val>>

\* third_drv_exit, first statement.  The kernel calls it only while the
\* module's use count (.owner = THIS_MODULE) is zero.
UnregisterChrdev ==
    /\ CpuFree
    /\ mod = "live"
    /\ \A p \in Procs : file[p] = "closed"
    /\ mod' = "unreg"
    /\ chrdev' = FALSE
    /\ UNCHANGED <<file, idx, irqs, pin, pend, missed, running, sample, key_val>>

\* class_device_unregister and class_destroy; then the module's text is freed.
DestroyClass ==
    /\ CpuFree
    /\ \/ mod = "unreg" /\ mod' = "undev"
       \/ mod = "undev" /\ mod' = "out"
    /\ UNCHANGED <<chrdev, file, idx, irqs, pin, pend, missed, running, sample, key_val>>

-----------------------------------------------------------------------------
(* third_drv_open and third_drv_release, one request_irq or free_irq a step: *)
(* either may sleep, and an interrupt may arrive between any two.            *)

OpenCall(p) ==
    /\ CpuFree
    /\ file[p] = "closed"
    /\ chrdev
    /\ file' = [file EXCEPT ![p] = "opening"]
    /\ UNCHANGED <<mod, chrdev, idx, irqs, pin, pend, missed, running, sample, key_val>>

\* request_irq on a line that is taken fails with -EBUSY, which open ignores,
\* as it ignores every other failure.
RequestIrq(p) ==
    /\ CpuFree
    /\ file[p] = "opening"
    /\ idx[p] <= NKeys
    /\ \/ irqs' = irqs \cup {idx[p]}
       \/ RequestMayFail /\ irqs' = irqs
    /\ idx' = [idx EXCEPT ![p] = @ + 1]
    /\ UNCHANGED <<mod, chrdev, file, pin, pend, missed, running, sample, key_val>>

OpenReturn(p) ==
    /\ CpuFree
    /\ file[p] = "opening"
    /\ idx[p] > NKeys
    /\ file' = [file EXCEPT ![p] = "open"]
    /\ idx' = [idx EXCEPT ![p] = 1]
    /\ UNCHANGED <<mod, chrdev, irqs, pin, pend, missed, running, sample, key_val>>

ReleaseCall(p) ==
    /\ CpuFree
    /\ file[p] = "open"
    /\ file' = [file EXCEPT ![p] = "closing"]
    /\ UNCHANGED <<mod, chrdev, idx, irqs, pin, pend, missed, running, sample, key_val>>

\* free_irq finds the handler by its dev_id &pindesc[k], the same for every
\* opener: it frees the line whoever requested it.
FreeIrq(p) ==
    /\ CpuFree
    /\ file[p] = "closing"
    /\ idx[p] <= NKeys
    /\ irqs' = irqs \ {idx[p]}
    /\ idx' = [idx EXCEPT ![p] = @ + 1]
    /\ UNCHANGED <<mod, chrdev, file, pin, pend, missed, running, sample, key_val>>

\* Mutant: release may leave the last line requested.
ReleaseReturn_OneLess(p) ==
    /\ CpuFree
    /\ file[p] = "closing"
    /\ idx[p] >= NKeys
    /\ file' = [file EXCEPT ![p] = "closed"]
    /\ idx' = [idx EXCEPT ![p] = 1]
    /\ UNCHANGED <<mod, chrdev, irqs, pin, pend, missed, running, sample, key_val>>

ReleaseReturn(p) ==
    /\ CpuFree
    /\ file[p] = "closing"
    /\ idx[p] > NKeys
    /\ file' = [file EXCEPT ![p] = "closed"]
    /\ idx' = [idx EXCEPT ![p] = 1]
    /\ UNCHANGED <<mod, chrdev, irqs, pin, pend, missed, running, sample, key_val>>

-----------------------------------------------------------------------------
(* The keys and the interrupt handler.                                     *)

\* A key moves.  IRQT_BOTHEDGE latches the edge on an installed line; on a
\* line without a handler the controller may latch it or not.
PinChange(k) ==
    /\ pin' = [pin EXCEPT ![k] = 1 - @]
    /\ \/ pend' = pend \cup {k} /\ missed' = missed
       \/ k \notin irqs /\ missed' = missed \cup {k} /\ pend' = pend
    /\ UNCHANGED <<mod, chrdev, file, idx, irqs, running, sample, key_val>>

\* Mutant: pinVal is static, so that nested handlers share it.
IrqEnter_StaticPinVal(k) ==
    /\ k \in pend
    /\ k \in irqs
    /\ ~InHandler(k)
    /\ pend' = pend \ {k}
    /\ missed' = missed \ {k}
    /\ running' = <<k>> \o running
    /\ sample' = [j \in Keys |-> pin[k]]
    /\ UNCHANGED <<mod, chrdev, file, idx, irqs, pin, key_val>>

\* The kernel acknowledges the line, then the handler reads the pin (l. 54).
IrqEnter(k) ==
    /\ k \in pend
    /\ k \in irqs
    /\ ~InHandler(k)
    /\ pend' = pend \ {k}
    /\ missed' = missed \ {k}
    /\ running' = <<k>> \o running
    /\ sample' = [sample EXCEPT ![k] = pin[k]]
    /\ UNCHANGED <<mod, chrdev, file, idx, irqs, pin, key_val>>

\* The rest of the handler: publish key_val (l. 57-66) and return.  No process
\* runs in between, and a handler nested between two of these statements
\* leaves what the same handler run after them leaves.
IrqExit ==
    /\ running # <<>>
    /\ key_val' = Code(Head(running), sample[Head(running)])
    /\ sample' = [sample EXCEPT ![Head(running)] = 0]
    /\ running' = Tail(running)
    /\ UNCHANGED <<mod, chrdev, file, idx, irqs, pin, pend, missed>>

-----------------------------------------------------------------------------
LineInit ==
    /\ mod = "out"
    /\ chrdev = FALSE
    /\ file = [p \in Procs |-> "closed"]
    /\ idx = [p \in Procs |-> 1]
    /\ irqs = {}
    /\ pin \in [Keys -> Level]
    /\ pend = {}
    /\ missed = {}
    /\ running = <<>>
    /\ sample = [k \in Keys |-> 0]
    /\ key_val = 0

ModuleStep == RegisterChrdev \/ CreateClass \/ UnregisterChrdev \/ DestroyClass

FileStep(p) ==
    \/ OpenCall(p)    \/ RequestIrq(p) \/ OpenReturn(p)
    \/ ReleaseCall(p) \/ FreeIrq(p)    \/ ReleaseReturn(p)

IrqStep == IrqExit \/ \E k \in Keys : PinChange(k) \/ IrqEnter(k)

LineNext == ModuleStep \/ IrqStep \/ \E p \in Procs : FileStep(p)

LineSpec == LineInit /\ [][LineNext]_lineVars

-----------------------------------------------------------------------------
(* Properties.                                                             *)

LineTypeOK ==
    /\ mod \in ModStates
    /\ chrdev \in BOOLEAN
    /\ file \in [Procs -> {"closed", "opening", "open", "closing"}]
    /\ idx \in [Procs -> 1 .. NKeys + 1]
    /\ irqs \subseteq Keys
    /\ pin \in [Keys -> Level]
    /\ pend \subseteq Keys
    /\ missed \subseteq Keys
    /\ running \in Seq(Keys)
    /\ sample \in [Keys -> Level]
    /\ key_val \in {0} \cup KeyCodes

\* p's file keeps line k requested: its open has passed k, or its release
\* has not reached k yet.
Holds(p, k) ==
    \/ file[p] = "opening" /\ idx[p] > k
    \/ file[p] = "open"
    \/ file[p] = "closing" /\ idx[p] <= k

\* An installed line is accounted for by some process's file: open and
\* release of any number of processes, interleaved in any way, leave no line
\* behind that nobody will free (third_drv.c l. 84-89 against l. 116-121).
IrqsAccounted == \A k \in irqs : \E p \in Procs : Holds(p, k)

\* No handler is installed or running once rmmod has begun to take the driver
\* down or before insmod: the handler's text and pindesc live in the module.
HandlerNeedsModule ==
    (irqs # {} \/ running # <<>>) => Loaded

\* Once everything latched has been handled, key_val tells the present level
\* of the key it names (l. 54-66): however handlers nest and edges race with
\* the sampling, the last published value is not a stale one.  A key with
\* an edge nobody latched (its line was not installed) is excepted.
LevelAgrees ==
    \A k \in Keys, level \in Level :
        (key_val = Code(k, level) /\ k \notin pend \cup missed /\ ~InHandler(k))
            => pin[k] = level

-----------------------------------------------------------------------------
(* The inductive invariant of the proofs.                                  *)

\* A line whose handler runs is installed, and runs its handler once.
StackOK ==
    /\ \A i \in 1 .. Len(running) : running[i] \in irqs
    /\ \A i, j \in 1 .. Len(running) : running[i] = running[j] => i = j

\* An edge after the running handler's sample is latched again.
SampleAgrees ==
    \A k \in Keys : (InHandler(k) /\ k \notin pend \cup missed) => sample[k] = pin[k]

\* The device is in use only while the module is in, and open and release
\* each start at the first line.
FilesOK ==
    /\ chrdev => Loaded
    /\ \A p \in Procs : file[p] # "closed" => Loaded
    /\ \A p \in Procs : file[p] \in {"closed", "open"} => idx[p] = 1

LineInv ==
    /\ LineTypeOK
    /\ FilesOK
    /\ IrqsAccounted
    /\ StackOK
    /\ SampleAgrees
    /\ LevelAgrees
=============================================================================
