------------------------------- MODULE Buttons -------------------------------
(***************************************************************************)
(* 8th_buttons/buttons.c: the keys as an input device.  The interrupt only *)
(* notes which key moved (irq_pd) and (re)starts a 10 ms timer; the timer, *)
(* a softirq, reads the pin and reports it to the input core.              *)
(*                                                                         *)
(* Interrupts preempt the timer function and processes; the timer function *)
(* preempts processes.  The two statements of buttons_irq are one step: a  *)
(* handler nested between them leaves what it leaves when run after them.  *)
(* How long the timer takes is left open.                                  *)
(***************************************************************************)
EXTENDS Integers

CONSTANTS
    NKeys,              \* entries of pindesc (6 in the code)
    RequestMayFail      \* may request_irq fail?

ASSUME NKeysAssumption == NKeys \in Nat \ {0}
ASSUME RequestAssumption == RequestMayFail \in BOOLEAN

VARIABLES
    btMod,      \* how far buttons_init or buttons_exit has come
    idx,        \* the loop variable i of both
    btLines,    \* lines whose handler is installed
    pin,        \* pin[k]: 0 pressed, 1 released
    btEdges,    \* lines with a latched edge
    missed,     \* history: lines with an edge nobody latched since their last interrupt
    irq_pd,     \* the key whose interrupt came last, or NoKey (NULL)
    armed,      \* is buttons_timer pending?
    tkey,       \* the key buttons_timer_function is handling, or NoKey when it is not running
    tlevel,     \* the pinval it has read
    btDevice,   \* the input device: "none", "allocated" or "registered"
    reported,   \* reported[k]: the key's state in the input core (dev->key)
    btFault     \* has a handler or the timer run in memory that is gone?

irqVars == <<btLines, pin, btEdges, missed>>
btTimerVars == <<irq_pd, armed, tkey, tlevel>>
buttonsVars == <<btMod, idx, irqVars, btTimerVars, btDevice, reported, btFault>>

Keys == 1 .. NKeys
NoKey == 0
CpuFree == tkey = NoKey /\ ~btFault

\* The module's text and data are in the kernel: a failed load frees them too.
Present == btMod \notin {"out", "failed"}

-----------------------------------------------------------------------------
(* buttons_init.                                                           *)

\* l. 81: input_allocate_device; NULL makes init fail with nothing to undo.
AllocateDevice ==
    /\ CpuFree
    /\ btMod = "out"
    /\ btMod' = "alloc"
    /\ btDevice' = "allocated"
    /\ reported' = [k \in Keys |-> FALSE]
    /\ irq_pd' = NoKey
    /\ UNCHANGED <<idx, irqVars, armed, tkey, tlevel, btFault>>

\* l. 87-101.
RegisterDevice ==
    /\ CpuFree
    /\ btMod = "alloc"
    /\ btMod' = "register"
    /\ btDevice' = "registered"
    /\ UNCHANGED <<idx, irqVars, btTimerVars, reported, btFault>>

\* l. 104-106: the timer starts at once, with irq_pd still NULL.
AddTimer ==
    /\ CpuFree
    /\ btMod = "register"
    /\ btMod' = "request"
    /\ idx' = 1
    /\ armed' = TRUE
    /\ UNCHANGED <<irqVars, irq_pd, tkey, tlevel, btDevice, reported, btFault>>

\* l. 108-112: a line that is refused makes init return -EAGAIN, with the
\* lines before it, the timer and the input device left in place.
RequestLine ==
    /\ CpuFree
    /\ btMod = "request"
    /\ \/ /\ btLines' = btLines \cup {idx}
          /\ btMod' = IF idx = NKeys THEN "live" ELSE "request"
       \/ /\ RequestMayFail
          /\ btMod' = "failed"
          /\ UNCHANGED btLines
    /\ idx' = IF btMod' = "request" THEN idx + 1 ELSE 1
    /\ UNCHANGED <<pin, btEdges, missed, btTimerVars, btDevice, reported, btFault>>

buttons_init == AllocateDevice \/ RegisterDevice \/ AddTimer \/ RequestLine

-----------------------------------------------------------------------------
(* buttons_exit.                                                           *)

\* l. 118-119.
FreeLine ==
    /\ CpuFree
    /\ btMod \in {"live", "free"}
    /\ btLines' = btLines \ {idx}
    /\ btMod' = IF idx = NKeys THEN "deltimer" ELSE "free"
    /\ idx' = IF idx = NKeys THEN 1 ELSE idx + 1
    /\ UNCHANGED <<pin, btEdges, missed, btTimerVars, btDevice, reported, btFault>>

\* Mutant: del_timer forgotten.
DelKeyTimer_Forgotten ==
    /\ CpuFree
    /\ btMod = "deltimer"
    /\ btMod' = "unregister"
    /\ UNCHANGED <<idx, irqVars, btTimerVars, btDevice, reported, btFault>>

\* l. 121.
DelKeyTimer ==
    /\ CpuFree
    /\ btMod = "deltimer"
    /\ btMod' = "unregister"
    /\ armed' = FALSE
    /\ UNCHANGED <<idx, irqVars, irq_pd, tkey, tlevel, btDevice, reported, btFault>>

\* l. 122-123; the module's text and data go with it.
UnregisterDevice ==
    /\ CpuFree
    /\ btMod = "unregister"
    /\ btMod' = "out"
    /\ btDevice' = "none"
    /\ irq_pd' = NoKey
    /\ UNCHANGED <<idx, irqVars, armed, tkey, tlevel, reported, btFault>>

buttons_exit == FreeLine \/ DelKeyTimer \/ UnregisterDevice

-----------------------------------------------------------------------------
(* The keys, the interrupt handler and the timer function.                 *)

\* IRQT_BOTHEDGE latches an edge on an installed line; on another it may.
PinChange(k) ==
    /\ pin' = [pin EXCEPT ![k] = 1 - @]
    /\ \/ btEdges' = btEdges \cup {k} /\ missed' = missed
       \/ k \notin btLines /\ missed' = missed \cup {k} /\ btEdges' = btEdges
    /\ UNCHANGED <<btMod, idx, btLines, btTimerVars, btDevice, reported, btFault>>

\* Mutant: the timer is not started again while its function is running.
buttons_irq_NoRestart(k) ==
    /\ ~btFault
    /\ k \in btEdges \cap btLines
    /\ btEdges' = btEdges \ {k}
    /\ missed' = missed \ {k}
    /\ irq_pd' = k
    /\ armed' = (armed \/ tkey = NoKey)
    /\ btFault' = ~Present
    /\ UNCHANGED <<btMod, idx, btLines, pin, tkey, tlevel, btDevice, reported>>

\* l. 47-48.
buttons_irq(k) ==
    /\ ~btFault
    /\ k \in btEdges \cap btLines
    /\ btEdges' = btEdges \ {k}
    /\ missed' = missed \ {k}
    /\ irq_pd' = k
    /\ armed' = TRUE
    /\ btFault' = ~Present
    /\ UNCHANGED <<btMod, idx, btLines, pin, tkey, tlevel, btDevice, reported>>

\* Mutant: a periodic timer.
TimerFire_Periodic ==
    /\ armed
    /\ CpuFree
    /\ armed' = TRUE
    /\ tkey' = irq_pd
    /\ tlevel' = IF irq_pd = NoKey THEN 1 ELSE pin[irq_pd]
    /\ btFault' = ~Present
    /\ UNCHANGED <<btMod, idx, irqVars, irq_pd, btDevice, reported>>

\* l. 54-60: the timer expires and its function reads irq_pd and the pin.
TimerFire ==
    /\ armed
    /\ CpuFree
    /\ armed' = FALSE
    /\ tkey' = irq_pd
    /\ tlevel' = IF irq_pd = NoKey THEN 1 ELSE pin[irq_pd]
    /\ btFault' = ~Present
    /\ UNCHANGED <<btMod, idx, irqVars, irq_pd, btDevice, reported>>

\* l. 62-73: input_event; the input core keeps the key's state and drops an
\* event that does not change it.
TimerReport ==
    /\ tkey # NoKey
    /\ ~btFault
    /\ reported' = [reported EXCEPT ![tkey] = (tlevel = 0)]
    /\ tkey' = NoKey
    /\ tlevel' = 1
    /\ btFault' = (btDevice # "registered")
    /\ UNCHANGED <<btMod, idx, irqVars, irq_pd, armed, btDevice>>

buttons_timer_function == TimerFire \/ TimerReport

-----------------------------------------------------------------------------
ButtonsInit ==
    /\ btMod = "out"
    /\ idx = 1
    /\ btLines = {}
    /\ pin \in [Keys -> {0, 1}]
    /\ btEdges = {}
    /\ missed = {}
    /\ irq_pd = NoKey
    /\ armed = FALSE
    /\ tkey = NoKey
    /\ tlevel = 1
    /\ btDevice = "none"
    /\ reported = [k \in Keys |-> FALSE]
    /\ btFault = FALSE

KeyMoves == \E k \in Keys : PinChange(k)

ButtonsNext ==
    \/ buttons_init \/ buttons_exit \/ buttons_timer_function \/ KeyMoves
    \/ \E k \in Keys : buttons_irq(k)

ButtonsSpec == ButtonsInit /\ [][ButtonsNext]_buttonsVars

\* A latched edge interrupts, and a pending timer expires and runs.
ButtonsFairness ==
    /\ \A k \in Keys : WF_buttonsVars(buttons_irq(k))
    /\ WF_buttonsVars(buttons_timer_function)

ButtonsFairSpec == ButtonsSpec /\ ButtonsFairness

-----------------------------------------------------------------------------
(* Properties.                                                             *)

Quiet == ~armed /\ CpuFree /\ btEdges \cap btLines = {}

\* Once the interrupts and the timer have settled, the input core has the
\* true state of the key that moved last (irq_pd): contact bounce and edges
\* between the timer's reading of the pin and its report (l. 60-72) are made
\* good by another interrupt and another timer.
LastKeyAgrees ==
    btMod \in {"request", "live", "free", "deltimer"} =>
        \A k \in Keys : (irq_pd = k /\ Quiet /\ k \notin btEdges \cup missed)
                            => (reported[k] <=> pin[k] = 0)

\* An interrupt or the timer runs in freed memory, or reports to a device that
\* is gone, only after a load that failed half-way (l. 110): exit frees the lines,
\* which start the timer, before it deletes the timer, and that before the
\* device (l. 118-122), whatever fires in between.
FaultsOnlyAfterFailedLoad == btFault => btMod = "failed"

\* When the keys stop moving, the driver comes to rest: no interrupt and no
\* timer is left over.
ComesToRest ==
    (<>[][~KeyMoves]_buttonsVars /\ <>[](btMod = "live")) => <>[]Quiet

\* "按住按键的时候会有很多按键值" (l. 89): the input core repeats a key while the
\* key is held; at rest, a key it takes for pressed is being held.
RepeatsOnlyWhileHeld ==
    (btMod = "live" /\ Quiet) => \A k \in Keys \ missed : reported[k] => pin[k] = 0
=============================================================================
