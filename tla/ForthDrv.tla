------------------------------ MODULE ForthDrv ------------------------------
(***************************************************************************)
(* forth_drv/forth_drv.c: third_drv with a poll operation, used by         *)
(* forth_drv/test.c (poll) and select_test.c.  Handler, open, read and     *)
(* release are third_drv's; poll(2) itself is the kernel's do_poll loop,   *)
(* which calls forth_drv_poll, sleeps, and calls it again.                 *)
(***************************************************************************)
EXTENDS ThirdDrv

VARIABLES
    poll,       \* poll[p]: where p's poll() call is
    ready       \* ready[p]: p's last poll() said POLLIN and p has not read since

forthVars == <<thirdVars, poll, ready>>

\* "called": in do_poll, not yet on the wait queue; "queued": on it, ev_press
\* to be tested; "checked": tested and clear, about to sleep; "last": the
\* timeout has passed or a signal has come, one more test before returning.
PollStates == {"no", "called", "queued", "checked", "asleep", "last"}

PollAsleep(p) == poll[p] = "asleep"

-----------------------------------------------------------------------------
(* poll(2) on the device.                                                  *)

PollCall(p) ==
    /\ CpuFree
    /\ file[p] = "open"
    /\ rd[p] = "idle"
    /\ poll[p] = "no"
    /\ poll' = [poll EXCEPT ![p] = "called"]
    /\ ready' = [ready EXCEPT ![p] = FALSE]
    /\ UNCHANGED thirdVars

\* l. 131: poll_wait puts the process on forth_waitqueue.
PollWait(p) ==
    /\ CpuFree
    /\ poll[p] = "called"
    /\ poll' = [poll EXCEPT ![p] = "queued"]
    /\ UNCHANGED <<thirdVars, ready>>

\* Mutant: the mask starts as POLLIN.
PollTest_AlwaysReady(p) ==
    /\ CpuFree
    /\ poll[p] \in {"queued", "last"}
    /\ poll' = [poll EXCEPT ![p] = "no"]
    /\ ready' = [ready EXCEPT ![p] = TRUE]
    /\ UNCHANGED thirdVars

\* l. 133-135: POLLIN if ev_press is set; otherwise do_poll goes to sleep, or
\* returns 0 if its time is over.
PollTest(p) ==
    /\ CpuFree
    /\ poll[p] \in {"queued", "last"}
    /\ poll' = [poll EXCEPT ![p] = IF ev_press \/ @ = "last" THEN "no" ELSE "checked"]
    /\ ready' = [ready EXCEPT ![p] = ev_press]
    /\ UNCHANGED thirdVars

\* schedule_timeout.  A wakeup since the process joined the queue has sent
\* it back to "queued", and it does not sleep.
PollSleep(p) ==
    /\ CpuFree
    /\ poll[p] = "checked"
    /\ poll' = [poll EXCEPT ![p] = "asleep"]
    /\ UNCHANGED <<thirdVars, ready>>

\* The timeout passes, or a signal comes.
PollExpire(p) ==
    /\ CpuFree
    /\ PollAsleep(p)
    /\ poll' = [poll EXCEPT ![p] = "last"]
    /\ UNCHANGED <<thirdVars, ready>>

forth_drv_poll(p) == PollWait(p) \/ PollTest(p)

\* Mutants: ev_press is tested before poll_wait, so that a wakeup between the
\* test and the sleep is not seen; the handler wakes another queue.
PollWakeUp_TestFirst ==
    poll' = [p \in Procs |-> IF poll[p] = "asleep" THEN "queued" ELSE poll[p]]

PollWakeUp_OtherQueue == UNCHANGED poll

\* wake_up_interruptible on forth_waitqueue reaches the pollers too.
PollWakeUp ==
    poll' = [p \in Procs |-> IF poll[p] \in {"checked", "asleep"} THEN "queued" ELSE poll[p]]

-----------------------------------------------------------------------------
(* The functions forth_drv shares with third_drv.  A process is in one call *)
(* at a time.                                                               *)

forth_irq_handle ==
    \/ HandlerReturn /\ PollWakeUp /\ UNCHANGED ready
    \/ \E k \in Keys : HandlerEntry(k) /\ UNCHANGED <<poll, ready>>

forth_drv_open(p) == third_drv_open(p) /\ UNCHANGED <<poll, ready>>

forth_drv_read(p) ==
    /\ poll[p] = "no"
    /\ third_drv_read(p)
    /\ UNCHANGED poll
    /\ ready' = [ready EXCEPT ![p] = @ /\ rd'[p] # "idle"]

forth_drv_release(p) ==
    /\ poll[p] = "no"
    /\ third_drv_release(p)
    /\ UNCHANGED poll
    /\ ready' = [ready EXCEPT ![p] = FALSE]

ForthModule == (third_drv_init \/ third_drv_exit) /\ UNCHANGED <<poll, ready>>

ForthEnvironment ==
    (KeyMoves \/ \E p \in Procs : Signal(p)) /\ UNCHANGED <<poll, ready>>

-----------------------------------------------------------------------------
ForthInit ==
    /\ ThirdInit
    /\ poll = [p \in Procs |-> "no"]
    /\ ready = [p \in Procs |-> FALSE]

PollStep(p) == forth_drv_poll(p) \/ PollSleep(p)

ForthNext ==
    \/ ForthModule \/ forth_irq_handle \/ ForthEnvironment
    \/ \E p \in Procs : \/ forth_drv_open(p) \/ forth_drv_read(p) \/ forth_drv_release(p)
                        \/ PollCall(p) \/ PollStep(p) \/ PollExpire(p)

ForthSpec == ForthInit /\ [][ForthNext]_forthVars

\* An enabled interrupt is taken and its handler returns; a process that can
\* run whenever no handler does is scheduled (strong fairness: handlers get
\* in between again and again).  poll may be called without a timeout, so
\* PollExpire is not fair.
ForthFairness ==
    /\ WF_forthVars(forth_irq_handle)
    /\ \A k \in Keys : WF_forthVars(HandlerEntry(k) /\ UNCHANGED <<poll, ready>>)
    /\ \A p \in Procs : /\ SF_forthVars(PollStep(p))
                        /\ SF_forthVars(rd[p] # "idle" /\ forth_drv_read(p))

ForthFairSpec == ForthSpec /\ ForthFairness

-----------------------------------------------------------------------------
(* Properties.                                                             *)

\* No poller sleeps, and none is about to, while ev_press is set: forth_drv_poll
\* joins the queue (l. 131) before it tests ev_press (l. 133), so a handler
\* that comes after the test wakes it.
PollerNotStuck == \A p \in Procs : poll[p] \in {"checked", "asleep"} => ~ev_press

\* With one process, a read after a poll that said POLLIN does not sleep
\* (forth_drv/test.c l. 28-35 relies on it): nothing between the two clears
\* ev_press.
ReadyReadReturns == \A p \in Procs : ready[p] => ~Asleep(p)

\* A poller asleep while an installed key has moved gets out of poll(): the
\* handler wakes it (l. 69-70) and its new test (l. 133) finds ev_press set.
PollerReturns ==
    []<>CpuFree => \A p \in Procs :
                       (PollAsleep(p) /\ pend \cap irqs # {}) ~> (poll[p] = "no")
=============================================================================
