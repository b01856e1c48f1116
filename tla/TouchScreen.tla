---------------------------- MODULE TouchScreen ----------------------------
(***************************************************************************)
(* 11th_ts/s3c_ts.c: the touch screen driver, with the part of the S3C2440 *)
(* ADC it programs.  Three pieces of code share the controller: the pen    *)
(* interrupt (IRQ_TC), the conversion interrupt (IRQ_ADC) and a timer. The *)
(* timer function is a softirq that both interrupts preempt, and as both   *)
(* are requested without IRQF_DISABLED each can interrupt the other.  Each *)
(* of the three reads whether the pen is up (adcdat0 bit 15) and acts on   *)
(* what it read: it reports, writes adctsc, starts a conversion or the     *)
(* timer, one step each, with anything in between.                         *)
(***************************************************************************)
EXTENDS Integers, Sequences

CONSTANTS
    Samples,        \* conversions averaged into one report (4 in the code)
    InitMayFail     \* may clk_get, ioremap or request_irq fail?

ASSUME SamplesAssumption == Samples \in Nat \ {0}
ASSUME FlagsAssumption == InitMayFail \in BOOLEAN

VARIABLES
    mod,        \* how far s3c_ts_init or s3c_ts_exit has come
    input,      \* is the input device registered?
    mapped,     \* is s3c_ts_regs mapped?
    irqs,       \* installed handlers, a subset of {"tc", "adc"}
    timer,      \* ts_timer: "raw" before init_timer, "idle" or "armed"
    stack,      \* the running handlers and timer function, the innermost first
    cnt,        \* adc_irq's count of samples in x[] and y[]
    touch,      \* BTN_TOUCH as last reported
    fault,      \* has the driver touched what is not there?
    pen,        \* is the pen down?
    mode,       \* what adctsc selects
    conv,       \* is a conversion running?
    tclevel,    \* does selecting a wait mode whose condition holds already raise IRQ_TC?
    pend        \* latched interrupts

driverVars == <<input, mapped, irqs, timer, cnt, touch, fault>>
hardware == <<pen, mode, conv, tclevel, pend>>
touchVars == <<mod, driverVars, stack, hardware>>

Ctx == {"timer", "tc", "adc"}
Running(c) == \E i \in 1 .. Len(stack) : stack[i].ctx = c
Push(c) == stack' = <<[ctx |-> c, up |-> ~pen, at |-> "read"]>> \o stack
Alive == ~fault /\ mod # "failed"       \* otherwise nothing is said of what follows
Process == Alive /\ stack = <<>>        \* insmod and rmmod run

-----------------------------------------------------------------------------
(* The controller.                                                         *)

\* The wait modes raise IRQ_TC when the pen reaches the state waited for.
Waited(m, p) == (m = "down" /\ p) \/ (m = "up" /\ ~p)

PenMove ==
    /\ pen' = ~pen
    /\ pend' = IF Waited(mode, ~pen) THEN pend \cup {"tc"} ELSE pend
    /\ UNCHANGED <<mod, driverVars, stack, mode, conv, tclevel>>

\* enter_wait_pen_down_mode and enter_wait_pen_up_mode.  If the pen is in the
\* state waited for already, the interrupt comes at once, or need not come.
EnterWaitMode(m) ==
    /\ mode' = m
    /\ \/ Waited(m, pen) /\ pend' = pend \cup {"tc"}
       \/ ~(tclevel /\ Waited(m, pen)) /\ pend' = pend
    /\ UNCHANGED <<pen, conv, tclevel>>

\* A conversion ends with IRQ_ADC; one whose mode was changed under it may
\* end with nothing.
ConversionEnds ==
    /\ conv
    /\ conv' = FALSE
    /\ \/ pend' = pend \cup {"adc"}
       \/ mode # "xy" /\ pend' = pend
    /\ UNCHANGED <<mod, driverVars, stack, pen, mode, tclevel>>

-----------------------------------------------------------------------------
(* s3c_ts_init.                                                            *)

\* l. 141-159, with the module's static data as insmod loads it.
AllocateAndRegister ==
    /\ Process
    /\ mod = "out"
    /\ mod' = "input"
    /\ input' = TRUE
    /\ cnt' = 0
    /\ timer' = "raw"
    /\ touch' = FALSE
    /\ UNCHANGED <<mapped, irqs, fault, stack, hardware>>

\* l. 163-181: clk_get and ioremap.  A failure here or below leaves in place
\* all that was set up before.
MapRegs ==
    /\ Process
    /\ mod = "input"
    /\ \/ mod' = "mapped" /\ mapped' = TRUE
       \/ InitMayFail /\ mod' = "failed" /\ mapped' = mapped
    /\ UNCHANGED <<input, irqs, timer, cnt, touch, fault, stack, hardware>>

\* l. 183-193.
RequestIrq(c, from, to) ==
    /\ Process
    /\ mod = from
    /\ \/ mod' = to /\ irqs' = irqs \cup {c}
       \/ InitMayFail /\ mod' = "failed" /\ irqs' = irqs
    /\ UNCHANGED <<input, mapped, timer, cnt, touch, fault, stack, hardware>>

\* Mutant: init_timer and add_timer forgotten.
StartTimer_Forgotten ==
    /\ Process
    /\ mod = "requested"
    /\ mod' = "live"
    /\ EnterWaitMode("down")
    /\ UNCHANGED <<input, mapped, irqs, timer, cnt, touch, fault, stack>>

\* l. 203-207: the timer starts at once.
StartTimer ==
    /\ Process
    /\ mod = "requested"
    /\ mod' = "live"
    /\ timer' = "armed"
    /\ EnterWaitMode("down")
    /\ UNCHANGED <<input, mapped, irqs, cnt, touch, fault, stack>>

s3c_ts_init ==
    \/ AllocateAndRegister \/ MapRegs \/ StartTimer
    \/ RequestIrq("tc", "mapped", "tc")
    \/ RequestIrq("adc", "tc", "requested")

-----------------------------------------------------------------------------
(* s3c_ts_exit, l. 214-219; the timer is deleted last.                      *)

FreeIrq(c, from, to) ==
    /\ Process
    /\ mod = from
    /\ mod' = to
    /\ irqs' = irqs \ {c}
    /\ UNCHANGED <<input, mapped, timer, cnt, touch, fault, stack, hardware>>

UnmapRegs ==
    /\ Process
    /\ mod = "freed"
    /\ mod' = "unmapped"
    /\ mapped' = FALSE
    /\ UNCHANGED <<input, irqs, timer, cnt, touch, fault, stack, hardware>>

UnregisterInput ==
    /\ Process
    /\ mod = "unmapped"
    /\ mod' = "noinput"
    /\ input' = FALSE
    /\ UNCHANGED <<mapped, irqs, timer, cnt, touch, fault, stack, hardware>>

DelTimer ==
    /\ Process
    /\ mod = "noinput"
    /\ mod' = "out"
    /\ timer' = "idle"
    /\ UNCHANGED <<input, mapped, irqs, cnt, touch, fault, stack, hardware>>

s3c_ts_exit ==
    \/ FreeIrq("tc", "live", "notc") \/ FreeIrq("adc", "notc", "freed")
    \/ UnmapRegs \/ UnregisterInput \/ DelTimer

-----------------------------------------------------------------------------
(* Handlers and timer function: entry, where the pen's state is read.      *)

\* l. 71 and l. 96-99.
IrqEnter(c) ==
    /\ Alive
    /\ c \in pend \cap irqs
    /\ ~Running(c)
    /\ pend' = pend \ {c}
    /\ Push(c)
    /\ UNCHANGED <<mod, driverVars, pen, mode, conv, tclevel>>

\* l. 53; the registers may be gone already (rmmod).
TimerEnter ==
    /\ Alive
    /\ stack = <<>>
    /\ timer = "armed"
    /\ timer' = "idle"
    /\ IF mapped THEN Push("timer") /\ fault' = fault
                 ELSE fault' = TRUE /\ stack' = stack
    /\ UNCHANGED <<mod, input, mapped, irqs, cnt, touch, hardware>>

-----------------------------------------------------------------------------
(* The rest of each, on the innermost one, which has read that the pen is  *)
(* up, or not, and has come as far as `at'.                                *)

Inner(c, up, at) ==
    /\ Alive
    /\ stack # <<>>
    /\ Head(stack).ctx = c /\ Head(stack).up = up /\ Head(stack).at = at
    /\ UNCHANGED <<mod, input, mapped, irqs>>

GoTo(at) == stack' = <<[Head(stack) EXCEPT !.at = at]>> \o Tail(stack)
Return == stack' = Tail(stack)

\* l. 56-58: report the pen as up ...
ReportUp(c) ==
    /\ Inner(c, TRUE, "read")
    /\ touch' = FALSE
    /\ GoTo("reported")
    /\ UNCHANGED <<timer, cnt, fault, hardware>>

\* ... and, l. 59, wait for it to come down.
WaitDown(c) ==
    /\ Inner(c, TRUE, "reported")
    /\ EnterWaitMode("down")
    /\ Return
    /\ UNCHANGED <<timer, cnt, touch, fault>>

\* l. 64: enter_masure_xy_mode ...
EnterMeasureMode(c) ==
    /\ Inner(c, FALSE, "read")
    /\ mode' = "xy"
    /\ GoTo("measure")
    /\ UNCHANGED <<timer, cnt, touch, fault, pen, conv, tclevel, pend>>

\* ... and, l. 65, start_adc_mode.
StartConversion(c) ==
    /\ Inner(c, FALSE, "measure")
    /\ conv' = TRUE
    /\ Return
    /\ UNCHANGED <<timer, cnt, touch, fault, pen, mode, tclevel, pend>>

\* Mutant: the timer only watches for the pen to go up.
s3c_ts_timer_function_UpOnly ==
    \/ ReportUp("timer") \/ WaitDown("timer")
    \/ Inner("timer", FALSE, "read") /\ Return /\ UNCHANGED <<timer, cnt, touch, fault, hardware>>

\* l. 51-67 and l. 69-88 do the same.
s3c_ts_timer_function ==
    ReportUp("timer") \/ WaitDown("timer") \/ EnterMeasureMode("timer") \/ StartConversion("timer")

pen_down_up_irq ==
    ReportUp("tc") \/ WaitDown("tc") \/ EnterMeasureMode("tc") \/ StartConversion("tc")

\* Mutant: the samples are dropped and the release is not reported.
AdcUp_Silent ==
    /\ Inner("adc", TRUE, "read")
    /\ cnt' = 0
    /\ GoTo("reported")
    /\ UNCHANGED <<timer, touch, fault, hardware>>

\* l. 99-105: the pen is up, the samples are dropped.
AdcUp ==
    /\ Inner("adc", TRUE, "read")
    /\ cnt' = 0
    /\ touch' = FALSE
    /\ GoTo("reported")
    /\ UNCHANGED <<timer, fault, hardware>>

\* l. 111-113 and l. 129: one sample more, measure again.
AdcSample ==
    /\ Inner("adc", FALSE, "read")
    /\ cnt + 1 # Samples
    /\ cnt' = cnt + 1
    /\ mode' = "xy"
    /\ GoTo("measure")
    /\ UNCHANGED <<timer, touch, fault, pen, conv, tclevel, pend>>

\* Mutant: cnt is not reset.
AdcReport_KeepCnt ==
    /\ Inner("adc", FALSE, "read")
    /\ cnt + 1 = Samples
    /\ cnt' = cnt + 1
    /\ touch' = TRUE
    /\ GoTo("reported")
    /\ UNCHANGED <<timer, fault, hardware>>

\* l. 114-122: the last sample; report it, ...
AdcReport ==
    /\ Inner("adc", FALSE, "read")
    /\ cnt + 1 = Samples
    /\ cnt' = 0
    /\ touch' = TRUE
    /\ GoTo("reported")
    /\ UNCHANGED <<timer, fault, hardware>>

\* ... l. 123: wait for the pen to go up, ...
AdcWaitUp ==
    /\ Inner("adc", FALSE, "reported")
    /\ EnterWaitMode("up")
    /\ GoTo("waiting")
    /\ UNCHANGED <<timer, cnt, touch, fault>>

\* Mutant: the timer is not started.
AdcStartTimer_Forgotten ==
    /\ Inner("adc", FALSE, "waiting")
    /\ Return
    /\ UNCHANGED <<timer, cnt, touch, fault, hardware>>

\* ... and l. 125: start the timer.  mod_timer on a timer without a function is a BUG.
AdcStartTimer ==
    /\ Inner("adc", FALSE, "waiting")
    /\ timer' = IF timer = "raw" THEN timer ELSE "armed"
    /\ fault' = (timer = "raw")
    /\ Return
    /\ UNCHANGED <<cnt, touch, hardware>>

adc_irq ==
    \/ AdcUp \/ WaitDown("adc") \/ AdcSample \/ StartConversion("adc")
    \/ AdcReport \/ AdcWaitUp \/ AdcStartTimer

-----------------------------------------------------------------------------
TouchInit ==
    /\ mod = "out"
    /\ input = FALSE
    /\ mapped = FALSE
    /\ irqs = {}
    /\ timer = "idle"
    /\ stack = <<>>
    /\ cnt = 0
    /\ touch = FALSE
    /\ fault = FALSE
    /\ pen \in BOOLEAN
    /\ mode = "reset"
    /\ conv = FALSE
    /\ tclevel \in BOOLEAN
    /\ pend = {}

Handlers ==
    \/ s3c_ts_timer_function \/ pen_down_up_irq \/ adc_irq
    \/ TimerEnter \/ \E c \in {"tc", "adc"} : IrqEnter(c)

TouchNext == s3c_ts_init \/ s3c_ts_exit \/ Handlers \/ PenMove \/ ConversionEnds

TouchSpec == TouchInit /\ [][TouchNext]_touchVars

\* A pending interrupt is taken, a pending timer expires, what has been entered
\* returns, and conversions end.  The timer waits for the processor, which a
\* trembling pen may take again and again: strong fairness.
TouchFairness ==
    /\ \A c \in {"tc", "adc"} : WF_touchVars(IrqEnter(c))
    /\ WF_touchVars(adc_irq) /\ WF_touchVars(pen_down_up_irq) /\ WF_touchVars(s3c_ts_timer_function)
    /\ SF_touchVars(TimerEnter)
    /\ WF_touchVars(ConversionEnds)

TouchFairSpec == TouchSpec /\ TouchFairness

-----------------------------------------------------------------------------
(* Properties.                                                             *)

\* adc_irq writes x[cnt] and y[cnt] inside the arrays (l. 111-112), whatever
\* made the previous batch of samples end early.
SampleInArray == cnt < Samples

\* Something will still happen: an interrupt or a conversion is on its way, the
\* timer is pending, or one of the three pieces of code is running.
Active == stack # <<>> \/ timer = "armed" \/ conv \/ pend # {}

\* A touch that has been reported is watched for as long as it stands (l. 120
\* to l. 57, 75, 104): no race between the timer, the pen interrupt and the
\* conversion leaves BTN_TOUCH down with nobody to take it back.
TouchWatched == (mod = "live" /\ touch) => Active

\* While the driver is loaded it never touches what is not there: a timer not
\* yet initialised or registers already unmapped.
LiveNeverFaults == mod = "live" => ~fault /\ mapped /\ input /\ timer # "raw"

\* In a driver that stays loaded, on a controller that raises IRQ_TC for a
\* state that holds already ...
Stays == tclevel /\ <>[](mod = "live")

\* ... a pen that stays up is reported up in the end,
PenUpReported == (Stays /\ <>[]~pen) => <>[]~touch

\* ... and one that stays down is measured and reported again and again
\* ("定时器时间到,再次启动ADC,目的是为了能够处理长按和滑动的情况",
\* driver/触摸屏驱动.txt).
LongPressReported == (Stays /\ <>[]pen) => []<><<AdcReport>>_touchVars
=============================================================================
