------------------------------ MODULE ThirdDrv ------------------------------
(***************************************************************************)
(* third_drv/third_drv.c: the button driver whose read() sleeps on         *)
(* third_waitqueue until the handler has published a key.  forth_drv.c has *)
(* the same handler, open, read and release.                               *)
(***************************************************************************)
EXTENDS ButtonIrq

VARIABLES
    ev_press,   \* set by the handler, cleared by read
    rd,         \* rd[p]: where p's read() call is
    buf,        \* buf[p]: the byte that p's read in progress has delivered, or NoByte
    unread      \* history: has an event been published since the last copy_to_user?

readVars == <<rd, buf>>
driverVars == <<ev_press, rd, buf, unread>>
thirdVars == <<lineVars, driverVars>>

NoByte == -1
ReadSizes == 0 .. 2     \* size arguments: only "1" and "not 1" matter
ReadStates == {"idle", "wait", "asleep", "copy", "copied"}

Asleep(p) == rd[p] = "asleep"

-----------------------------------------------------------------------------
(* third_drv_read.                                                         *)

\* l. 97: any size but 1 is refused.
ReadCall(p, size) ==
    /\ CpuFree
    /\ file[p] = "open"
    /\ rd[p] = "idle"
    /\ rd' = [rd EXCEPT ![p] = IF size # 1 THEN "idle" ELSE "wait"]
    /\ UNCHANGED <<lineVars, ev_press, buf, unread>>

\* l. 105, wait_event_interruptible: the caller joins the queue before it
\* tests ev_press, so testing and falling asleep are one step.
WaitEvent(p) ==
    /\ CpuFree
    /\ rd[p] = "wait"
    /\ rd' = [rd EXCEPT ![p] = IF ev_press THEN "copy" ELSE "asleep"]
    /\ UNCHANGED <<lineVars, ev_press, buf, unread>>

\* A signal ends the wait with -ERESTARTSYS; l. 105 drops the result and
\* the read goes on as if a key had been pressed.
Signal(p) ==
    /\ CpuFree
    /\ Asleep(p)
    /\ rd' = [rd EXCEPT ![p] = "copy"]
    /\ UNCHANGED <<lineVars, ev_press, buf, unread>>

\* l. 107: copy_to_user delivers the byte, or faults and read returns -EINVAL.
CopyToUser(p) ==
    /\ CpuFree
    /\ rd[p] = "copy"
    /\ \/ /\ rd' = [rd EXCEPT ![p] = "copied"]
          /\ buf' = [buf EXCEPT ![p] = key_val]
          /\ unread' = FALSE
       \/ /\ rd' = [rd EXCEPT ![p] = "idle"]
          /\ UNCHANGED <<buf, unread>>
    /\ UNCHANGED <<lineVars, ev_press>>

\* l. 110-111.
ReadReturn(p) ==
    /\ CpuFree
    /\ rd[p] = "copied"
    /\ ev_press' = FALSE
    /\ rd' = [rd EXCEPT ![p] = "idle"]
    /\ buf' = [buf EXCEPT ![p] = NoByte]
    /\ UNCHANGED <<lineVars, unread>>

-----------------------------------------------------------------------------
(* The driver's functions: the steps of ButtonIrq, with what they do to the *)
(* reader's state.                                                          *)

\* The module's static data is initialised by insmod.
third_drv_init ==
    \/ RegisterChrdev /\ ev_press' = FALSE /\ unread' = FALSE /\ UNCHANGED readVars
    \/ CreateClass /\ UNCHANGED driverVars

third_drv_exit ==
    (UnregisterChrdev \/ DestroyClass) /\ UNCHANGED driverVars

third_drv_open(p) ==
    (OpenCall(p) \/ RequestIrq(p) \/ OpenReturn(p)) /\ UNCHANGED driverVars

\* release runs when the last reference to the file goes, so never while this
\* file's read is in progress.
third_drv_release(p) ==
    /\ rd[p] = "idle"
    /\ ReleaseCall(p) \/ FreeIrq(p) \/ ReleaseReturn(p)
    /\ UNCHANGED driverVars

\* l. 69: wake_up_interruptible makes every sleeper test ev_press again.
WakeUp == rd' = [p \in Procs |-> IF Asleep(p) THEN "wait" ELSE rd[p]]

\* l. 54: a line's handler starts and reads its pin.
HandlerEntry(k) == IrqEnter(k) /\ UNCHANGED driverVars

\* Mutants: no wake_up_interruptible; no ev_press = 1.
HandlerReturn_NoWakeUp ==
    /\ IrqExit
    /\ ev_press' = TRUE
    /\ unread' = TRUE
    /\ UNCHANGED <<rd, buf>>

HandlerReturn_NoEvent ==
    /\ IrqExit
    /\ unread' = TRUE
    /\ WakeUp
    /\ UNCHANGED <<ev_press, buf>>

\* l. 57-71: it publishes key_val, sets ev_press and wakes the readers.
HandlerReturn ==
    /\ IrqExit
    /\ ev_press' = TRUE
    /\ unread' = TRUE
    /\ WakeUp
    /\ UNCHANGED buf

third_irq_handle == HandlerReturn \/ \E k \in Keys : HandlerEntry(k)

\* A person presses or releases a key.
KeyMoves == (\E k \in Keys : PinChange(k)) /\ UNCHANGED driverVars

-----------------------------------------------------------------------------
ThirdInit ==
    /\ LineInit
    /\ ev_press = FALSE
    /\ rd = [p \in Procs |-> "idle"]
    /\ buf = [p \in Procs |-> NoByte]
    /\ unread = FALSE

\* What a reader does by itself once it has called read.
ReadStep(p) == WaitEvent(p) \/ CopyToUser(p) \/ ReadReturn(p)

third_drv_read(p) == ReadStep(p) \/ \E size \in ReadSizes : ReadCall(p, size)

ThirdNext ==
    \/ third_drv_init \/ third_drv_exit \/ third_irq_handle \/ KeyMoves
    \/ \E p \in Procs : \/ third_drv_open(p) \/ third_drv_release(p)
                        \/ third_drv_read(p) \/ Signal(p)

ThirdSpec == ThirdInit /\ [][ThirdNext]_thirdVars

-----------------------------------------------------------------------------
(* Properties.                                                             *)

ThirdTypeOK ==
    /\ LineTypeOK
    /\ ev_press \in BOOLEAN
    /\ rd \in [Procs -> ReadStates]
    /\ buf \in [Procs -> {NoByte, 0} \cup KeyCodes]
    /\ unread \in BOOLEAN

\* No reader sleeps while ev_press is set: the test in wait_event_interruptible
\* (l. 105), the handler's ev_press = 1 and wake_up (l. 68-69) and another
\* reader's ev_press = 0 (l. 110) cannot be interleaved into a lost wakeup.
NoLostWakeup == \A p \in Procs : Asleep(p) => ~ev_press

\* An announced event has a key: read delivers 0, the value of key_val before the
\* first event and no key's code (l. 35-36), only to a caller whose wait was cut
\* short by a signal (l. 105).
EventHasKey == ev_press => key_val # 0

\* A read in progress keeps its file open, so the module stays in the kernel
\* while a process sleeps in, or is about to run, third_drv_read.
ReaderKeepsModule ==
    \A p \in Procs : rd[p] # "idle" => file[p] = "open" /\ Loaded

\* A reader that sleeps while an installed key has moved gets out of read():
\* the handler runs, wakes it (l. 68-69) and it returns (l. 105-111), unless
\* keys move so fast that from some point on handlers only nest and never
\* leave the processor to a process.
SleeperReturns ==
    []<>CpuFree => \A p \in Procs :
                       (Asleep(p) /\ pend \cap irqs # {}) ~> (rd[p] = "idle")

\* "如果没有按键按下的话程序将放入到third_waitqueue中" (l. 100): a reader is
\* put to sleep only if there is no key event that nobody has read.
SleepOnlyWithoutEvent == \A p \in Procs : Asleep(p) => ~unread

\* "当有按键按下时产生中断 ... 唤醒third_waitqueue中休眠的进程" (l. 102-103): a key
\* raises an interrupt for as long as a process sleeps in the wait queue.
SleeperHasIrqs == \A p \in Procs : Asleep(p) => irqs = Keys

-----------------------------------------------------------------------------
(* The inductive invariant of the proofs, on top of LineInv.               *)

ReadersHoldFile == \A p \in Procs : rd[p] # "idle" => file[p] = "open"

ThirdInv ==
    /\ ev_press \in BOOLEAN
    /\ rd \in [Procs -> ReadStates]
    /\ buf \in [Procs -> {NoByte, 0} \cup KeyCodes]
    /\ unread \in BOOLEAN
    /\ ReadersHoldFile
    /\ NoLostWakeup
=============================================================================
