------------------------------ MODULE FifthDrv ------------------------------
(***************************************************************************)
(* fifth_drv/fifth_drv.c: the button driver that notifies by SIGIO.  The   *)
(* handler signals the processes on fifth_async_queue; read() no longer    *)
(* waits.  The processes are those of fifth_drv/test.c: they set FASYNC,   *)
(* and their signal handler reads the key.                                 *)
(***************************************************************************)
EXTENDS ButtonIrq

VARIABLES
    owner,      \* processes that have set themselves as the file's owner (F_SETOWN)
    fq,         \* fifth_async_queue: processes whose open file is on it
    dangling,   \* does the queue hold an entry of a file that is gone?
    sig,        \* processes with a SIGIO pending
    sh,         \* sh[p]: "main"; "handler", "back": p's signal handler is to read, has read
    polling,    \* processes asleep in poll()
    behind,     \* history: notified processes that have not read since the last event
    asks,       \* files with FASYNC in f_flags
    careless,   \* history: a file was closed with FASYNC set since insmod
    fault       \* has kill_fasync followed a dangling entry?

fifthVars == <<lineVars, owner, fq, dangling, sig, sh, polling, behind, asks, careless, fault>>

\* p executes user code of its main program.
InMain(p) == CpuFree /\ ~fault /\ file[p] = "open" /\ sh[p] = "main" /\ p \notin polling

-----------------------------------------------------------------------------
\* l. 56: the handler reads the pin.
HandlerEntry(k) ==
    /\ ~fault
    /\ IrqEnter(k)
    /\ UNCHANGED <<owner, fq, dangling, sig, sh, polling, behind, asks, careless, fault>>

\* Mutants: no signal to a process whose handler is running; no signal at all.
HandlerReturn_NotInHandler ==
    /\ ~fault
    /\ IrqExit
    /\ sig' = sig \cup {p \in fq \cap owner : sh[p] = "main"}
    /\ behind' = behind \cup (fq \cap owner)
    /\ fault' = dangling
    /\ UNCHANGED <<owner, fq, dangling, sh, polling, asks, careless>>

HandlerReturn_NoKill ==
    /\ ~fault
    /\ IrqExit
    /\ behind' = behind \cup (fq \cap owner)
    /\ fault' = dangling
    /\ UNCHANGED <<owner, fq, dangling, sig, sh, polling, asks, careless>>

\* l. 59-81: it publishes key_val and kill_fasync signals the owner of every
\* file on the queue; signals of the same number do not queue up.
HandlerReturn ==
    /\ ~fault
    /\ IrqExit
    /\ sig' = sig \cup (fq \cap owner)
    /\ behind' = behind \cup (fq \cap owner)
    /\ fault' = dangling
    /\ UNCHANGED <<owner, fq, dangling, sh, polling, asks, careless>>

fifth_irq_handle == HandlerReturn \/ \E k \in Keys : HandlerEntry(k)

fifth_drv_open(p) ==
    /\ ~fault
    /\ OpenCall(p) \/ RequestIrq(p) \/ OpenReturn(p)
    /\ UNCHANGED <<owner, fq, dangling, sig, sh, polling, behind, asks, careless, fault>>

\* l. 127-139.  Neither release nor this kernel's close takes the file off
\* fifth_async_queue; when the file is freed its entry is left behind.
fifth_drv_release(p) ==
    /\ ~fault
    /\ \/ /\ InMain(p)
          /\ ReleaseCall(p)
          /\ UNCHANGED <<owner, fq, dangling, sig, behind, asks, careless>>
       \/ /\ FreeIrq(p)
          /\ UNCHANGED <<owner, fq, dangling, sig, behind, asks, careless>>
       \/ /\ ReleaseReturn(p)
          /\ owner' = owner \ {p}
          /\ fq' = fq \ {p}
          /\ asks' = asks \ {p}
          /\ dangling' = (dangling \/ p \in fq)
          /\ careless' = (careless \/ p \in asks)
          /\ sig' = sig \ {p}
          /\ behind' = behind \ {p}
    /\ UNCHANGED <<sh, polling, fault>>

\* fcntl(F_SETOWN), in the kernel.
SetOwner(p) ==
    /\ InMain(p)
    /\ owner' = owner \cup {p}
    /\ UNCHANGED <<lineVars, fq, dangling, sig, sh, polling, behind, asks, careless, fault>>

\* Mutant: fasync_helper(fd, filp, 1, ...), so that an entry is never removed.
fifth_drv_fasync_OnlyOn(p, on) ==
    /\ InMain(p)
    /\ on # (p \in asks)
    /\ fq' = fq \cup {p}
    /\ asks' = IF on THEN asks \cup {p} ELSE asks \ {p}
    /\ UNCHANGED <<lineVars, owner, dangling, sig, sh, polling, behind, careless, fault>>

\* l. 155-163: fcntl(F_SETFL) calls it when FASYNC changes, and stores the flag
\* unless it fails.
fifth_drv_fasync(p, on) ==
    /\ InMain(p)
    /\ on # (p \in asks)
    /\ \/ /\ fq' = IF on THEN fq \cup {p} ELSE fq \ {p}
          /\ asks' = IF on THEN asks \cup {p} ELSE asks \ {p}
       \/ on /\ UNCHANGED <<fq, asks>>      \* no memory for the entry: -EIO
    /\ UNCHANGED <<lineVars, owner, dangling, sig, sh, polling, behind, careless, fault>>

\* test.c l. 11: the signal handler runs; SIGIO is blocked until it returns.
TakeSignal(p) ==
    /\ CpuFree
    /\ ~fault
    /\ p \in sig
    /\ sh[p] = "main"
    /\ file[p] = "open"
    /\ sig' = sig \ {p}
    /\ sh' = [sh EXCEPT ![p] = "handler"]
    /\ polling' = polling \ {p}
    /\ UNCHANGED <<lineVars, owner, fq, dangling, behind, asks, careless, fault>>

\* l. 104-125: read never waits; a wrong size or a bad buffer gets -EINVAL and
\* leaves everything as it is.
fifth_drv_read(p) ==
    /\ CpuFree
    /\ ~fault
    /\ file[p] = "open"
    /\ p \notin polling
    /\ sh[p] # "back"
    /\ sh' = [sh EXCEPT ![p] = IF @ = "handler" THEN "back" ELSE "main"]
    /\ behind' = behind \ {p}
    /\ UNCHANGED <<lineVars, owner, fq, dangling, sig, polling, asks, careless, fault>>

\* test.c l. 15-16: the signal handler prints the key and returns.
SignalReturn(p) ==
    /\ CpuFree
    /\ ~fault
    /\ sh[p] = "back"
    /\ sh' = [sh EXCEPT ![p] = "main"]
    /\ UNCHANGED <<lineVars, owner, fq, dangling, sig, polling, behind, asks, careless, fault>>

\* l. 141-153: ev_press is 0 for good (l. 75 is a comment), so poll sleeps ...
fifth_drv_poll(p) ==
    /\ InMain(p)
    /\ polling' = polling \cup {p}
    /\ UNCHANGED <<lineVars, owner, fq, dangling, sig, sh, behind, asks, careless, fault>>

\* ... until its timeout.
PollExpire(p) ==
    /\ CpuFree
    /\ ~fault
    /\ p \in polling
    /\ polling' = polling \ {p}
    /\ UNCHANGED <<lineVars, owner, fq, dangling, sig, sh, behind, asks, careless, fault>>

\* insmod and rmmod; the queue's head is static data of the module.
FifthModule ==
    /\ ~fault
    /\ ModuleStep
    /\ dangling' = (dangling /\ mod' # "out")
    /\ careless' = (careless /\ mod' # "out")
    /\ UNCHANGED <<owner, fq, sig, sh, polling, behind, asks, fault>>

\* Keys move even when the kernel has stopped.
KeyMoves ==
    /\ \E k \in Keys : PinChange(k)
    /\ UNCHANGED <<owner, fq, dangling, sig, sh, polling, behind, asks, careless, fault>>

-----------------------------------------------------------------------------
FifthInit ==
    /\ LineInit
    /\ owner = {}
    /\ fq = {}
    /\ dangling = FALSE
    /\ sig = {}
    /\ sh = [p \in Procs |-> "main"]
    /\ polling = {}
    /\ behind = {}
    /\ asks = {}
    /\ careless = FALSE
    /\ fault = FALSE

ProcStep(p) ==
    \/ fifth_drv_open(p) \/ fifth_drv_release(p) \/ fifth_drv_read(p)
    \/ SetOwner(p) \/ \E on \in BOOLEAN : fifth_drv_fasync(p, on)
    \/ fifth_drv_poll(p) \/ PollExpire(p) \/ TakeSignal(p) \/ SignalReturn(p)

FifthNext == fifth_irq_handle \/ FifthModule \/ KeyMoves \/ \E p \in Procs : ProcStep(p)

FifthSpec == FifthInit /\ [][FifthNext]_fifthVars

\* Handlers return; a process with a signal pending gets to run its handler,
\* the handler to read and a close to finish, though interrupts come in between.
FifthFairness ==
    /\ WF_fifthVars(HandlerReturn)
    /\ \A p \in Procs :
          /\ SF_fifthVars(TakeSignal(p))
          /\ SF_fifthVars(sh[p] = "handler" /\ fifth_drv_read(p))
          /\ SF_fifthVars(SignalReturn(p))
          /\ SF_fifthVars(file[p] = "closing" /\ fifth_drv_release(p))

FifthFairSpec == FifthSpec /\ FifthFairness

-----------------------------------------------------------------------------
(* Properties.                                                             *)

\* A process that has been notified and has not read the newest key value has
\* a SIGIO pending or its handler about to read: an interrupt that comes while
\* the signal is being taken, or after the read while the handler has not
\* returned, is not swallowed (l. 79 against test.c l. 11-16).
NotifiedOrRead == \A p \in behind : p \in sig \/ sh[p] = "handler"

\* A process notified of a key reads it, or closes its file.
NotifiedReads == []<>CpuFree => \A p \in Procs : (p \in behind) ~> (p \notin behind \/ fault)

\* A process that takes FASYNC off its file before it closes it never makes a
\* later interrupt follow a freed entry of fifth_async_queue (l. 79, l. 127-139
\* against l. 155-163); closing with FASYNC set is the only way to the fault.
CarefulNeverFaults == fault => careless
=============================================================================
