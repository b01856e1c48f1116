----------------------------- MODULE InputProofs -----------------------------
(***************************************************************************)
(* Proofs about the three drivers that report to the input core, Buttons,  *)
(* TouchScreen and UsbMouse, for any number of keys, samples, buttons and  *)
(* mice.                                                                   *)
(***************************************************************************)
EXTENDS Buttons, TouchScreen, UsbMouse, TLAPS

-----------------------------------------------------------------------------
(* Buttons.                                                                *)

\* From add_timer to del_timer of a load that went well.
TimerSet == {"request", "live", "free", "deltimer"}

ButtonsTypeOK ==
    /\ btMod \in {"out", "alloc", "register", "unregister", "failed"} \cup TimerSet
    /\ idx \in Keys
    /\ btLines \subseteq Keys
    /\ pin \in [Keys -> {0, 1}]
    /\ irq_pd \in Keys \cup {NoKey} /\ tkey \in Keys \cup {NoKey}
    /\ armed \in BOOLEAN /\ btFault \in BOOLEAN
    /\ reported \in [Keys -> BOOLEAN]

\* exit has freed the lines below idx, and no line is left when it comes to the timer.
LinesOK ==
    /\ btMod \notin {"request", "live", "free", "failed"} => btLines = {}
    /\ btMod = "live" => idx = 1
    /\ btMod = "free" => \A k \in btLines : idx <= k

\* The timer is pending or running only while there is a registered device.
TimerOK ==
    /\ armed \/ tkey # NoKey => btMod \in TimerSet \cup {"failed"}
    /\ btMod \in TimerSet \cup {"register", "failed"} => btDevice = "registered"
    /\ btMod \in {"out", "alloc", "register"} => irq_pd = NoKey

\* The key that moved last: the timer will read it, has read its present level, or has
\* reported it.
LastKeyOK(k) ==
    \/ armed
    \/ tkey = k /\ tlevel = pin[k]
    \/ tkey # k /\ (reported[k] <=> pin[k] = 0)

ButtonsInv ==
    /\ ButtonsTypeOK /\ LinesOK /\ TimerOK
    /\ FaultsOnlyAfterFailedLoad
    /\ btMod \in TimerSet =>
          \A k \in Keys : irq_pd = k /\ k \notin btEdges \cup missed => LastKeyOK(k)

\* Loading.
LEMMA ButtonsInitInv ==
    ASSUME ButtonsInv, buttons_init
    PROVE  ButtonsInv'
<1> USE NKeysAssumption DEF ButtonsInv, ButtonsTypeOK, Keys, NoKey, CpuFree
<1>1. CASE AllocateDevice \/ RegisterDevice
  <2>1. /\ btMod' \in {"alloc", "register"} /\ btMod \in {"out", "alloc"} /\ tkey' = NoKey /\ btFault' = FALSE
        /\ btMod' = "register" => btDevice' = "registered"
        /\ irq_pd' = NoKey /\ reported' \in [Keys -> BOOLEAN]
        /\ UNCHANGED <<idx, btLines, pin, armed>>
    BY <1>1 DEF AllocateDevice, RegisterDevice, TimerOK, irqVars, btTimerVars
  <2>2. btMod' \notin TimerSet
    BY <2>1 DEF TimerSet
  <2>3. LinesOK' /\ TimerOK' /\ FaultsOnlyAfterFailedLoad'
    BY <2>1, <2>2 DEF TimerSet, LinesOK, TimerOK, FaultsOnlyAfterFailedLoad
  <2>4. ButtonsTypeOK'
    BY <2>1
  <2> QED BY <2>2, <2>3, <2>4
<1>2. CASE AddTimer
  BY <1>2 DEF AddTimer, TimerSet, LinesOK, TimerOK, FaultsOnlyAfterFailedLoad, irqVars, LastKeyOK
<1>3. CASE RequestLine
  <2>1. /\ btMod = "request" /\ btMod' \in {"request", "live", "failed"} /\ idx' \in Keys
        /\ btLines' \subseteq Keys /\ (btMod' = "live" => idx' = 1) /\ tkey = NoKey /\ ~btFault
        /\ UNCHANGED <<pin, btEdges, missed, irq_pd, armed, tkey, tlevel, btDevice, reported, btFault>>
    <3>1. /\ btMod = "request" /\ btMod' \in {"request", "live", "failed"} /\ tkey = NoKey /\ ~btFault
          /\ btLines' \subseteq btLines \cup {idx}
          /\ UNCHANGED <<pin, btEdges, missed, irq_pd, armed, tkey, tlevel, btDevice, reported, btFault>>
      BY <1>3 DEF RequestLine, btTimerVars
    <3>2. idx' \in Keys /\ (btMod' = "live" => idx' = 1)
      <4>1. CASE btMod' = "request"
        BY <1>3, <4>1 DEF RequestLine
      <4>2. CASE btMod' # "request"
        BY <1>3, <4>2 DEF RequestLine
      <4> QED BY <4>1, <4>2
    <3> QED BY <3>1, <3>2
  <2>2. ButtonsTypeOK' /\ LinesOK' /\ TimerOK' /\ FaultsOnlyAfterFailedLoad'
    BY <2>1 DEF TimerSet, LinesOK, TimerOK, FaultsOnlyAfterFailedLoad
  <2>3. \A k \in Keys : irq_pd' = k /\ k \notin btEdges' \cup missed' => LastKeyOK(k)'
    BY <2>1 DEF TimerSet, LastKeyOK
  <2> QED BY <2>2, <2>3
<1> QED BY <1>1, <1>2, <1>3 DEF buttons_init

\* Unloading: lines, timer, device.
LEMMA ButtonsExitInv ==
    ASSUME ButtonsInv, buttons_exit
    PROVE  ButtonsInv'
<1> USE NKeysAssumption DEF ButtonsInv, ButtonsTypeOK, Keys, NoKey, CpuFree
<1>1. CASE FreeLine
  <2>1. /\ btMod \in {"live", "free"} /\ btMod' \in {"deltimer", "free"} /\ idx' \in Keys
        /\ btLines' \subseteq btLines /\ tkey = NoKey /\ ~btFault
        /\ UNCHANGED <<pin, btEdges, missed, irq_pd, armed, tkey, tlevel, btDevice, reported, btFault>>
    BY <1>1 DEF FreeLine, btTimerVars
  <2>2. \A k \in btLines : idx <= k
    BY <2>1 DEF LinesOK
  <2>3. LinesOK'
    BY <1>1, <2>2 DEF FreeLine, LinesOK
  <2>4. ButtonsTypeOK' /\ TimerOK' /\ FaultsOnlyAfterFailedLoad'
    BY <2>1 DEF TimerSet, TimerOK, FaultsOnlyAfterFailedLoad
  <2>5. \A k \in Keys : irq_pd' = k /\ k \notin btEdges' \cup missed' => LastKeyOK(k)'
    BY <2>1 DEF TimerSet, LastKeyOK
  <2> QED BY <2>3, <2>4, <2>5
<1>2. CASE DelKeyTimer \/ UnregisterDevice
  <2>1. /\ btMod' \in {"unregister", "out"} /\ btMod \in {"deltimer", "unregister"} /\ tkey' = NoKey
        /\ btFault' = FALSE /\ armed' = FALSE /\ irq_pd' \in Keys \cup {NoKey} /\ (btMod' = "out" => irq_pd' = NoKey)
        /\ UNCHANGED <<idx, btLines, pin, reported>>
    BY <1>2 DEF DelKeyTimer, UnregisterDevice, TimerSet, TimerOK, irqVars
  <2>2. btMod' \notin TimerSet
    BY <2>1 DEF TimerSet
  <2>3. LinesOK' /\ TimerOK' /\ FaultsOnlyAfterFailedLoad'
    BY <2>1, <2>2 DEF TimerSet, LinesOK, TimerOK, FaultsOnlyAfterFailedLoad
  <2>4. ButtonsTypeOK'
    BY <2>1
  <2> QED BY <2>2, <2>3, <2>4
<1> QED BY <1>1, <1>2 DEF buttons_exit

\* Keys move and interrupt.
LEMMA ButtonsIrqInv ==
    ASSUME ButtonsInv, NEW j \in Keys, PinChange(j) \/ buttons_irq(j)
    PROVE  ButtonsInv'
<1> USE NKeysAssumption DEF ButtonsInv, ButtonsTypeOK, NoKey
<1>1. CASE PinChange(j)
  <2>1. ButtonsTypeOK' /\ LinesOK' /\ TimerOK' /\ FaultsOnlyAfterFailedLoad'
    BY <1>1 DEF PinChange, btTimerVars, LinesOK, TimerOK, FaultsOnlyAfterFailedLoad
  <2>2. ASSUME NEW k \in Keys, btMod' \in TimerSet, irq_pd' = k, k \notin btEdges' \cup missed'
        PROVE  LastKeyOK(k)'
    <3>1. k # j /\ pin'[k] = pin[k] /\ k \notin btEdges \cup missed
      BY <1>1, <2>2 DEF PinChange
    <3> QED BY <1>1, <2>2, <3>1 DEF PinChange, btTimerVars, LastKeyOK
  <2> QED BY <2>1, <2>2
<1>2. CASE buttons_irq(j)
  <2>1. btMod \in {"request", "live", "free", "failed"}
    BY <1>2 DEF buttons_irq, LinesOK
  <2> QED
    BY <1>2, <2>1 DEF buttons_irq, TimerSet, LinesOK, TimerOK, FaultsOnlyAfterFailedLoad, Present, LastKeyOK
<1> QED BY <1>1, <1>2

\* The timer fires, and reports.
LEMMA ButtonsTimerInv ==
    ASSUME ButtonsInv, buttons_timer_function
    PROVE  ButtonsInv'
<1> USE NKeysAssumption DEF ButtonsInv, ButtonsTypeOK
<1>0. NoKey \notin Keys
  BY DEF NoKey, Keys
<1>1. CASE TimerFire
  BY <1>0, <1>1 DEF TimerFire, irqVars, CpuFree, TimerSet, LinesOK, TimerOK, FaultsOnlyAfterFailedLoad, Present,
                    LastKeyOK
<1>2. CASE TimerReport
  <2>1. ButtonsTypeOK' /\ LinesOK' /\ TimerOK' /\ FaultsOnlyAfterFailedLoad'
    BY <1>2 DEF TimerReport, irqVars, TimerSet, LinesOK, TimerOK, FaultsOnlyAfterFailedLoad
  <2>2. ASSUME NEW k \in Keys, btMod' \in TimerSet, irq_pd' = k, k \notin btEdges' \cup missed'
        PROVE  LastKeyOK(k)'
    <3>1. LastKeyOK(k)
      BY <1>2, <2>2 DEF TimerReport, irqVars
    <3>2. UNCHANGED <<armed, pin>> /\ tkey' = NoKey /\ tkey \in Keys
      BY <1>2 DEF TimerReport, irqVars
    <3>3. CASE tkey = k
      <4>1. reported'[k] = (tlevel = 0)
        BY <1>2, <3>3 DEF TimerReport
      <4> QED BY <1>0, <3>1, <3>2, <3>3, <4>1 DEF LastKeyOK
    <3>4. CASE tkey # k
      <4>1. reported'[k] = reported[k]
        BY <1>2, <3>4 DEF TimerReport
      <4> QED BY <1>0, <3>1, <3>2, <3>4, <4>1 DEF LastKeyOK
    <3> QED BY <3>3, <3>4
  <2> QED BY <2>1, <2>2
<1> QED BY <1>1, <1>2 DEF buttons_timer_function

\* ButtonsInv is inductive.
THEOREM ButtonsInvariant == ButtonsSpec => []ButtonsInv
<1>1. ButtonsInit => ButtonsInv
  <2> SUFFICES ASSUME ButtonsInit PROVE ButtonsInv
    OBVIOUS
  <2>1. idx \in Keys /\ reported \in [Keys -> BOOLEAN]
    BY NKeysAssumption DEF ButtonsInit, Keys
  <2>2. ButtonsTypeOK
    BY <2>1 DEF ButtonsInit, ButtonsTypeOK
  <2>3. LinesOK /\ TimerOK /\ FaultsOnlyAfterFailedLoad /\ btMod \notin TimerSet
    BY DEF ButtonsInit, LinesOK, TimerOK, TimerSet, FaultsOnlyAfterFailedLoad
  <2> QED BY <2>2, <2>3 DEF ButtonsInv
<1>2. ButtonsInv /\ [ButtonsNext]_buttonsVars => ButtonsInv'
  <2> SUFFICES ASSUME ButtonsInv, [ButtonsNext]_buttonsVars PROVE ButtonsInv'
    OBVIOUS
  <2>1. CASE UNCHANGED buttonsVars
    BY <2>1 DEF buttonsVars, irqVars, btTimerVars, ButtonsInv, ButtonsTypeOK, LinesOK, TimerOK,
                FaultsOnlyAfterFailedLoad, LastKeyOK
  <2> QED
    BY <2>1, ButtonsInitInv, ButtonsExitInv, ButtonsIrqInv, ButtonsTimerInv DEF ButtonsNext, KeyMoves
<1> QED BY <1>1, <1>2, PTL DEF ButtonsSpec

\* Once interrupts and timer have settled, the input core has the true state of the key
\* that moved last, for any number of keys (buttons_irq, buttons_timer_function).
THEOREM ButtonsLastKeyAgrees == ButtonsSpec => []LastKeyAgrees
<1>1. ButtonsInv => LastKeyAgrees
  <2>1. NoKey \notin Keys
    BY DEF NoKey, Keys
  <2> QED BY <2>1 DEF ButtonsInv, LastKeyAgrees, TimerSet, LastKeyOK, Quiet, CpuFree
<1> QED BY ButtonsInvariant, <1>1, PTL

\* Handler and timer run in freed memory only after a load that failed half-way, for any
\* number of keys and wherever they come in during exit (buttons_exit).
THEOREM ButtonsFaultsConfined == ButtonsSpec => []FaultsOnlyAfterFailedLoad
<1>1. ButtonsInv => FaultsOnlyAfterFailedLoad
  BY DEF ButtonsInv
<1> QED BY ButtonsInvariant, <1>1, PTL

-----------------------------------------------------------------------------
(* TouchScreen.                                                            *)

Places == {"read", "reported", "measure", "waiting"}
Frames == [ctx : Ctx, up : BOOLEAN, at : Places]

TouchTypeOK ==
    /\ stack \in Seq(Frames)
    /\ cnt \in Nat
    /\ pend \subseteq {"tc", "adc"}
    /\ timer \in {"raw", "idle", "armed"}

\* What init has set up by the time the timer is started.
SetUpOK ==
    /\ mod = "input" => input
    /\ mod \in {"mapped", "tc", "requested", "live"} => input /\ mapped
    /\ mod = "live" => ~fault /\ timer # "raw"

\* A frame of adc_irq that has reported a touch and will start the timer.
Arming(f) == f.ctx = "adc" /\ f.up = FALSE /\ f.at \in {"reported", "waiting"}

\* Whatever runs has not reported the pen as up, and whatever measures does so in the mode
\* it chose; if nothing runs, a conversion that was not called off, and so ends with IRQ_ADC,
\* or an interrupt is on its way.
Undisturbed ==
    /\ \A i \in 1 .. Len(stack) : /\ ~(stack[i].up = TRUE /\ stack[i].at = "reported")
                                  /\ stack[i].at = "measure" => mode = "xy"
    /\ stack # <<>> \/ (conv /\ mode = "xy") \/ pend # {}

\* Who watches a touch.
Watched == timer = "armed" \/ (\E i \in 1 .. Len(stack) : Arming(stack[i])) \/ Undisturbed

TouchInv ==
    /\ TouchTypeOK /\ SampleInArray /\ SetUpOK
    /\ mod = "live" /\ touch => Watched

\* insmod and rmmod; the timer that init starts watches whatever was reported before.
LEMMA TouchModuleInv ==
    ASSUME TouchInv, s3c_ts_init \/ s3c_ts_exit
    PROVE  TouchInv'
<1> USE SamplesAssumption DEF TouchInv, TouchTypeOK, SampleInArray, SetUpOK, Process, Alive, hardware
<1>1. CASE AllocateAndRegister
  BY <1>1 DEF AllocateAndRegister
<1>6. CASE MapRegs
  BY <1>6 DEF MapRegs
<1>2. CASE StartTimer
  BY <1>2 DEF StartTimer, EnterWaitMode, Watched
<1>3. CASE RequestIrq("tc", "mapped", "tc") \/ RequestIrq("adc", "tc", "requested")
  BY <1>3 DEF RequestIrq
<1>4. CASE FreeIrq("tc", "live", "notc") \/ FreeIrq("adc", "notc", "freed")
  BY <1>4 DEF FreeIrq
<1>5. CASE UnmapRegs \/ UnregisterInput \/ DelTimer
  BY <1>5 DEF UnmapRegs, UnregisterInput, DelTimer
<1> QED BY <1>1, <1>2, <1>3, <1>4, <1>5, <1>6 DEF s3c_ts_init, s3c_ts_exit

\* The pen moves, a conversion ends.
LEMMA TouchHardwareInv ==
    ASSUME TouchInv, PenMove \/ ConversionEnds
    PROVE  TouchInv'
<1> USE DEF TouchInv, TouchTypeOK, SampleInArray, SetUpOK
<1>1. /\ UNCHANGED <<mod, input, mapped, timer, cnt, touch, fault, stack, mode>>
      /\ pend' \in {pend, pend \cup {"tc"}, pend \cup {"adc"}}
      /\ conv /\ mode = "xy" => conv' \/ pend' # {}
  BY DEF PenMove, ConversionEnds, driverVars
<1>2. pend' \subseteq {"tc", "adc"} /\ (pend # {} => pend' # {})
  BY <1>1
<1>3. Watched => Watched'
  BY <1>1, <1>2 DEF Watched, Undisturbed
<1> QED BY <1>1, <1>2, <1>3

\* The frame on top is replaced by f, or is entered, and those below stay.
LEMMA OnTop ==
    ASSUME NEW st \in Seq(Frames), NEW f \in Frames
    PROVE  /\ <<f>> \o st \in Seq(Frames) /\ Len(<<f>> \o st) = Len(st) + 1
           /\ (<<f>> \o st)[1] = f
           /\ \A i \in 1 .. Len(st) : (<<f>> \o st)[i + 1] = st[i]
           /\ \A i \in 1 .. Len(st) + 1 : i = 1 \/ ((i - 1) \in 1 .. Len(st) /\ (<<f>> \o st)[i] = st[i - 1])
OBVIOUS

\* A handler or the timer function is entered.
LEMMA TouchEnterInv ==
    ASSUME TouchInv, TimerEnter \/ \E c \in {"tc", "adc"} : IrqEnter(c)
    PROVE  TouchInv'
<1> USE DEF TouchInv, TouchTypeOK, SampleInArray, SetUpOK
<1>1. ASSUME NEW c \in Ctx, Push(c)
      PROVE  /\ stack' \in Seq(Frames) /\ stack' # <<>> /\ Len(stack') = Len(stack) + 1
             /\ stack'[1].at = "read"
             /\ \A i \in 1 .. Len(stack) : stack'[i + 1] = stack[i]
             /\ \A i \in 1 .. Len(stack') : i = 1 \/ ((i - 1) \in 1 .. Len(stack) /\ stack'[i] = stack[i - 1])
  <2> DEFINE f == [ctx |-> c, up |-> ~pen, at |-> "read"]
  <2>1. f \in Frames /\ f.at = "read" /\ stack' = <<f>> \o stack
    BY <1>1 DEF Frames, Places, Push
  <2> HIDE DEF f
  <2>2. stack' \in Seq(Frames) /\ Len(stack') = Len(stack) + 1 /\ stack'[1] = f
    BY <2>1, OnTop
  <2> QED BY <2>1, <2>2, OnTop
<1>4. ASSUME NEW c \in Ctx, Push(c), mode' = mode, timer' = timer, Watched PROVE Watched'
  <2>1. CASE timer = "armed"
    BY <1>4, <2>1 DEF Watched
  <2>2. CASE \E i \in 1 .. Len(stack) : Arming(stack[i])
    <3>1. PICK i \in 1 .. Len(stack) : Arming(stack[i])
      BY <2>2
    <3>2. i + 1 \in 1 .. Len(stack') /\ stack'[i + 1] = stack[i]
      BY <1>1, <1>4
    <3>3. Arming(stack'[i + 1])
      BY <3>1, <3>2
    <3> QED BY <3>2, <3>3 DEF Watched, Arming
  <2>3. CASE Undisturbed
    <3>1. stack' # <<>> /\ stack'[1].at = "read"
      BY <1>1, <1>4
    <3>2. ASSUME NEW i \in 1 .. Len(stack')
          PROVE  ~(stack'[i].up = TRUE /\ stack'[i].at = "reported") /\ (stack'[i].at = "measure" => mode' = "xy")
      <4>1. CASE i = 1
        BY <3>1, <4>1
      <4>2. CASE (i - 1) \in 1 .. Len(stack) /\ stack'[i] = stack[i - 1]
        BY <1>4, <2>3, <4>2 DEF Undisturbed
      <4> QED BY <1>1, <1>4, <4>1, <4>2
    <3> QED BY <3>1, <3>2 DEF Watched, Undisturbed
  <2> QED BY <1>4, <2>1, <2>2, <2>3 DEF Watched
<1>2. CASE TimerEnter
  <2>1. /\ timer' = "idle" /\ UNCHANGED <<mod, input, mapped, irqs, cnt, touch, hardware>> /\ stack = <<>>
        /\ IF mapped THEN Push("timer") /\ fault' = fault ELSE fault' = TRUE /\ stack' = stack
    BY <1>2 DEF TimerEnter
  <2>2. "timer" \in Ctx
    BY DEF Ctx
  <2>3. CASE mapped
    <3>1. Undisturbed'
      BY <1>1, <2>1, <2>2, <2>3 DEF hardware, Undisturbed
    <3> QED BY <1>1, <2>1, <2>2, <2>3, <3>1 DEF hardware, Watched
  <2>4. CASE ~mapped
    BY <2>1, <2>4 DEF hardware
  <2> QED BY <2>3, <2>4
<1>3. ASSUME NEW c \in {"tc", "adc"}, IrqEnter(c) PROVE TouchInv'
  <2>1. c \in Ctx /\ Push(c) /\ UNCHANGED <<mod, input, mapped, irqs, timer, cnt, touch, fault, mode>>
        /\ pend' = pend \ {c}
    BY <1>3 DEF Ctx, IrqEnter, driverVars
  <2>2. Watched => Watched'
    BY <1>4, <2>1
  <2>3. stack' \in Seq(Frames)
    BY <1>1, <2>1
  <2> QED BY <2>1, <2>2, <2>3
<1> QED BY <1>2, <1>3

\* The innermost frame moves on ...
LEMMA FrameMoves ==
    ASSUME TouchTypeOK, stack # <<>>, NEW a \in Places, GoTo(a)
    PROVE  /\ stack' \in Seq(Frames) /\ stack' # <<>> /\ Len(stack') = Len(stack) /\ Len(stack) \in Nat \ {0}
           /\ stack'[1].ctx = stack[1].ctx /\ stack'[1].up = stack[1].up /\ stack'[1].at = a
           /\ \A i \in 1 .. Len(stack) : i # 1 => stack'[i] = stack[i]
<1> DEFINE f == [Head(stack) EXCEPT !.at = a]
           st == Tail(stack)
<1>1. /\ stack \in Seq(Frames) /\ Len(stack) \in Nat \ {0} /\ Head(stack) = stack[1] /\ stack[1] \in Frames
  BY DEF TouchTypeOK
<1>2. /\ st \in Seq(Frames) /\ Len(st) = Len(stack) - 1 /\ \A i \in 1 .. Len(stack) - 1 : st[i] = stack[i + 1]
  BY <1>1
<1>3. f \in Frames /\ f.at = a /\ f.ctx = stack[1].ctx /\ f.up = stack[1].up
  BY <1>1 DEF Frames
<1>4. stack' = <<f>> \o st
  BY DEF GoTo
<1> HIDE DEF f, st
<1>5. /\ stack' \in Seq(Frames) /\ Len(stack') = Len(stack) /\ stack'[1] = f
      /\ \A i \in 1 .. Len(st) + 1 : i = 1 \/ ((i - 1) \in 1 .. Len(st) /\ stack'[i] = st[i - 1])
  BY <1>1, <1>2, <1>3, <1>4, OnTop
<1>6. ASSUME NEW i \in 1 .. Len(stack), i # 1 PROVE stack'[i] = stack[i]
  <2>1. i - 1 \in 1 .. Len(stack) - 1 /\ stack'[i] = st[i - 1]
    BY <1>1, <1>2, <1>5, <1>6
  <2>2. st[i - 1] = stack[(i - 1) + 1]
    BY <1>2, <2>1
  <2>3. (i - 1) + 1 = i
    BY <1>1
  <2> QED BY <2>1, <2>2, <2>3
<1> QED BY <1>1, <1>3, <1>5, <1>6

\* ... or returns.
LEMMA FrameReturns ==
    ASSUME TouchTypeOK, stack # <<>>, Return
    PROVE  /\ stack' \in Seq(Frames) /\ Len(stack) \in Nat \ {0} /\ Len(stack') = Len(stack) - 1
           /\ \A i \in 1 .. Len(stack') : i + 1 \in 1 .. Len(stack) /\ stack'[i] = stack[i + 1]
           /\ \A i \in 1 .. Len(stack) : i # 1 => i - 1 \in 1 .. Len(stack') /\ stack'[i - 1] = stack[i]
<1>1. stack \in Seq(Frames) /\ Len(stack) \in Nat \ {0} /\ stack' = Tail(stack)
  BY DEF TouchTypeOK, Return
<1>2. /\ stack' \in Seq(Frames) /\ Len(stack') = Len(stack) - 1
      /\ \A i \in 1 .. Len(stack) - 1 : stack'[i] = stack[i + 1]
  BY <1>1
<1>3. ASSUME NEW i \in 1 .. Len(stack), i # 1 PROVE i - 1 \in 1 .. Len(stack') /\ stack'[i - 1] = stack[i]
  <2>1. i - 1 \in 1 .. Len(stack) - 1 /\ (i - 1) + 1 = i
    BY <1>1, <1>3
  <2>2. stack'[i - 1] = stack[(i - 1) + 1]
    BY <1>2, <2>1
  <2> QED BY <1>2, <2>1, <2>2
<1> QED BY <1>1, <1>2, <1>3

\* A step of a handler or the timer function: it takes the touch back, or leaves whatever
\* watches it, or starts a conversion or the timer.
LEMMA TouchReturnInv ==
    ASSUME TouchInv, s3c_ts_timer_function \/ pen_down_up_irq \/ adc_irq
    PROVE  TouchInv'
<1> USE SamplesAssumption DEF TouchInv, SampleInArray, SetUpOK
<1>0. {"read", "reported", "measure", "waiting"} = Places
  BY DEF Places
<1>1. ASSUME NEW c, ReportUp(c) \/ AdcUp PROVE TouchInv'
  <2>1. /\ UNCHANGED <<mod, input, mapped, timer, fault, pend>> /\ cnt' \in {0, cnt} /\ touch' = FALSE
        /\ stack # <<>> /\ GoTo("reported")
    BY <1>1 DEF ReportUp, AdcUp, Inner, hardware
  <2>2. stack' \in Seq(Frames)
    BY <1>0, <2>1, FrameMoves
  <2> QED BY <2>1, <2>2 DEF TouchTypeOK
<1>2. ASSUME NEW c, WaitDown(c) PROVE TouchInv'
  <2>1. /\ UNCHANGED <<mod, input, mapped, timer, cnt, touch, fault>> /\ pend' \subseteq {"tc", "adc"}
        /\ stack # <<>> /\ Return /\ stack[1].up = TRUE /\ stack[1].at = "reported"
    <3>1. /\ UNCHANGED <<mod, input, mapped, timer, cnt, touch, fault>> /\ EnterWaitMode("down")
          /\ stack # <<>> /\ Return /\ Head(stack).up = TRUE /\ Head(stack).at = "reported"
      BY <1>2 DEF WaitDown, Inner
    <3>2. Head(stack) = stack[1]
      BY <3>1 DEF TouchTypeOK
    <3>3. pend' \subseteq {"tc", "adc"}
      BY <3>1 DEF EnterWaitMode, TouchTypeOK
    <3> QED BY <3>1, <3>2, <3>3
  <2>2. ASSUME Watched PROVE Watched'
    <3>1. ~Undisturbed
      BY <2>1, FrameReturns DEF Undisturbed
    <3>2. ASSUME NEW i \in 1 .. Len(stack), Arming(stack[i]) PROVE Watched'
      <4>1. i # 1
        BY <2>1, <3>2 DEF Arming
      <4>2. i - 1 \in 1 .. Len(stack') /\ Arming(stack'[i - 1])
        BY <2>1, <3>2, <4>1, FrameReturns
      <4> QED BY <4>2 DEF Watched, Arming
    <3> QED BY <2>1, <2>2, <3>1, <3>2 DEF Watched
  <2> QED BY <2>1, <2>2, FrameReturns DEF TouchTypeOK
<1>3. ASSUME NEW c, EnterMeasureMode(c) \/ AdcSample PROVE TouchInv'
  <2>1. /\ UNCHANGED <<mod, input, mapped, timer, touch, fault, conv, pend>> /\ mode' = "xy"
        /\ cnt' = cnt \/ (cnt + 1 # Samples /\ cnt' = cnt + 1)
        /\ stack # <<>> /\ GoTo("measure") /\ stack[1].at = "read"
    BY <1>3 DEF EnterMeasureMode, AdcSample, Inner, TouchTypeOK
  <2>2. ASSUME Watched PROVE Watched'
    <3>1. ASSUME Undisturbed PROVE Undisturbed'
      BY <1>0, <2>1, <3>1, FrameMoves DEF Undisturbed
    <3>2. ASSUME NEW i \in 1 .. Len(stack), Arming(stack[i]) PROVE Watched'
      <4>1. i # 1
        BY <2>1, <3>2 DEF Arming
      <4>2. i \in 1 .. Len(stack') /\ Arming(stack'[i])
        BY <1>0, <2>1, <3>2, <4>1, FrameMoves
      <4> QED BY <4>2 DEF Watched, Arming
    <3> QED BY <2>1, <2>2, <3>1, <3>2 DEF Watched
  <2>3. cnt' \in Nat /\ cnt' < Samples
    BY <2>1 DEF TouchTypeOK
  <2> QED BY <1>0, <2>1, <2>2, <2>3, FrameMoves DEF TouchTypeOK
<1>4. ASSUME NEW c, StartConversion(c) PROVE TouchInv'
  <2>1. /\ UNCHANGED <<mod, input, mapped, timer, cnt, touch, fault, mode, pend>> /\ conv'
        /\ stack # <<>> /\ Return /\ stack[1].at = "measure"
    BY <1>4 DEF StartConversion, Inner, TouchTypeOK
  <2>2. ASSUME Watched PROVE Watched'
    <3>1. ASSUME Undisturbed PROVE Undisturbed'
      <4>1. mode = "xy"
        BY <2>1, <3>1, FrameReturns DEF Undisturbed
      <4> QED BY <2>1, <3>1, <4>1, FrameReturns DEF Undisturbed
    <3>2. ASSUME NEW i \in 1 .. Len(stack), Arming(stack[i]) PROVE Watched'
      <4>1. i # 1
        BY <2>1, <3>2 DEF Arming
      <4>2. i - 1 \in 1 .. Len(stack') /\ Arming(stack'[i - 1])
        BY <2>1, <3>2, <4>1, FrameReturns
      <4> QED BY <4>2 DEF Watched, Arming
    <3> QED BY <2>1, <2>2, <3>1, <3>2 DEF Watched
  <2> QED BY <2>1, <2>2, FrameReturns DEF TouchTypeOK
<1>5. CASE AdcReport \/ AdcWaitUp
  <2>1. /\ UNCHANGED <<mod, input, mapped, timer, fault>> /\ cnt' \in {0, cnt} /\ pend' \subseteq {"tc", "adc"}
        /\ stack # <<>> /\ (GoTo("reported") \/ GoTo("waiting")) /\ stack[1].ctx = "adc" /\ stack[1].up = FALSE
    <3>1. /\ UNCHANGED <<mod, input, mapped, timer, fault>> /\ cnt' \in {0, cnt}
          /\ stack # <<>> /\ (GoTo("reported") \/ GoTo("waiting")) /\ Head(stack).ctx = "adc" /\ Head(stack).up = FALSE
      BY <1>5 DEF AdcReport, AdcWaitUp, Inner
    <3>2. Head(stack) = stack[1]
      BY <3>1 DEF TouchTypeOK
    <3>3. pend' \subseteq {"tc", "adc"}
      BY <1>5 DEF AdcReport, AdcWaitUp, EnterWaitMode, TouchTypeOK, hardware
    <3> QED BY <3>1, <3>2, <3>3
  <2>2. 1 \in 1 .. Len(stack') /\ Arming(stack'[1]) /\ stack' \in Seq(Frames)
    BY <1>0, <2>1, FrameMoves DEF Arming
  <2>3. Watched'
    BY <2>2 DEF Watched, Arming
  <2> QED BY <2>1, <2>2, <2>3 DEF TouchTypeOK
<1>6. CASE AdcStartTimer
  <2>1. /\ UNCHANGED <<mod, input, mapped, cnt, touch, pend>> /\ stack # <<>> /\ Return
        /\ timer' \in {"raw", "armed"} /\ (timer # "raw" => timer' = "armed" /\ ~fault')
    BY <1>6 DEF AdcStartTimer, Inner, hardware
  <2> QED BY <2>1, FrameReturns DEF TouchTypeOK, Watched
<1> QED BY <1>1, <1>2, <1>3, <1>4, <1>5, <1>6 DEF s3c_ts_timer_function, pen_down_up_irq, adc_irq

\* TouchInv is inductive.
THEOREM TouchInvariant == TouchSpec => []TouchInv
<1>1. TouchInit => TouchInv
  BY SamplesAssumption DEF TouchInit, TouchInv, TouchTypeOK, SampleInArray, SetUpOK
<1>2. TouchInv /\ [TouchNext]_touchVars => TouchInv'
  <2> SUFFICES ASSUME TouchInv, [TouchNext]_touchVars PROVE TouchInv'
    OBVIOUS
  <2>1. CASE UNCHANGED touchVars
    BY <2>1 DEF touchVars, driverVars, hardware, TouchInv, TouchTypeOK, SampleInArray, SetUpOK, Watched, Undisturbed
  <2> QED
    BY <2>1, TouchModuleInv, TouchHardwareInv, TouchEnterInv, TouchReturnInv DEF TouchNext, Handlers
<1> QED BY <1>1, <1>2, PTL DEF TouchSpec

\* adc_irq stays inside x[] and y[], for any number of samples (l. 111-112).
THEOREM TouchSampleInArray == TouchSpec => []SampleInArray
<1>1. TouchInv => SampleInArray
  BY DEF TouchInv
<1> QED BY TouchInvariant, <1>1, PTL

\* A reported touch is watched for as long as it stands, however the timer and the two
\* interrupts nest (s3c_ts_timer_function, pen_down_up_irq, adc_irq).
THEOREM TouchIsWatched == TouchSpec => []TouchWatched
<1>1. TouchInv => TouchWatched
  <2> SUFFICES ASSUME TouchInv, mod = "live", touch PROVE Active
    BY DEF TouchWatched
  <2>1. stack = <<>> => Len(stack) = 0
    OBVIOUS
  <2> QED BY <2>1 DEF TouchInv, Watched, Undisturbed, Active
<1> QED BY TouchInvariant, <1>1, PTL

\* The loaded driver never touches what is not there (s3c_ts_init, TimerEnter, AdcReport).
THEOREM TouchLiveNeverFaults == TouchSpec => []LiveNeverFaults
<1>1. TouchInv => LiveNeverFaults
  BY DEF TouchInv, SetUpOK, LiveNeverFaults
<1> QED BY TouchInvariant, <1>1, PTL

-----------------------------------------------------------------------------
(* UsbMouse.                                                               *)

Busy == {"input", "buffer", "bound", "kill", "killed", "freed", "unregistered"}
AtRest == {"unbound", "refused", "crashed"}

UsbTypeOK ==
    /\ drv \in [Mice -> Busy \cup AtRest]
    /\ urb \in [Mice -> {"none", "idle", "active"}]
    /\ hw \in [Mice -> SUBSET ButtonBits]
    /\ buf \in [Mice -> (SUBSET ButtonBits) \cup {Unfilled, NoBuffer}]
    /\ keys \in [Mice -> SUBSET ButtonBits]
    /\ pre_val \in SUBSET ButtonBits
    /\ astray \in BOOLEAN /\ stale \in BOOLEAN

\* What the static pointers and the objects of a mouse are at each point of its probe and
\* disconnect, while there is one mouse and every error has been looked at.
MouseOK(m) ==
    /\ drv[m] \in AtRest => urb[m] = "none"
    /\ drv[m] \in {"input", "buffer"} => urb[m] = "none" /\ rejecting = {}
    /\ drv[m] \in Busy \ {"unregistered"} => uk_input_dev = m /\ m \in usbInput
    /\ drv[m] \in Busy \ {"input", "freed", "unregistered"} => usb_buf = m /\ buf[m] # NoBuffer
    /\ drv[m] = "bound" => uk_urb = m /\ urb[m] = "active" /\ rejecting = {}
    /\ drv[m] = "kill" => uk_urb = m /\ urb[m] # "none" /\ rejecting = {m}
    /\ drv[m] \in {"killed", "freed", "unregistered"} => urb[m] = "none"

\* The keys of the mouse in use are those of the last packet.
KeysOK(m) == drv[m] \in {"input", "buffer", "bound", "kill"} => keys[m] = pre_val

OneMouse == \A m, q \in Mice : drv[m] \in Busy /\ drv[q] \in Busy => m = q

UsbInv ==
    /\ UsbTypeOK
    /\ usbMod = "out" => \A m \in Mice : drv[m] \notin Busy
    /\ ~astray => /\ usbFault => \E m \in Mice : drv[m] = "crashed"
                  /\ OneMouse
                  /\ (\A m \in Mice : drv[m] # "kill") => rejecting = {}
                  /\ \A m \in Mice : MouseOK(m)
                  /\ ~stale => \A m \in Mice : KeysOK(m)

\* The contents of a buffer that is there are never those of one that is not.
LEMMA BufferThere ==
    /\ Unfilled # NoBuffer
    /\ \A v \in SUBSET ButtonBits : v # NoBuffer
<1>1. -1 # 0 /\ 0 \notin ButtonBits
  BY DEF ButtonBits
<1> QED BY <1>1 DEF Unfilled, NoBuffer

\* Plugging, pressing and unplugging; loading and unloading.
LEMMA UsbBusInv ==
    ASSUME UsbInv,
           \/ usbmouse_as_key_init \/ usbmouse_as_key_exit
           \/ \E m \in Mice : Plug(m) \/ Unplug(m) \/ \E b \in ButtonBits : Press(m, b)
    PROVE  UsbInv'
<1> USE DEF UsbInv, UsbTypeOK
<1>1. ASSUME NEW m \in Mice, Plug(m) \/ \E b \in ButtonBits : Press(m, b) PROVE UsbInv'
  <2>1. hw' \in [Mice -> SUBSET ButtonBits]
    BY <1>1 DEF Plug, Press
  <2> QED
    BY <1>1, <2>1 DEF Plug, Press, objVars, ptrVars, OneMouse, MouseOK, KeysOK
<1>2. ASSUME NEW m \in Mice, Unplug(m) PROVE UsbInv'
  <2>1. /\ hw' \in [Mice -> SUBSET ButtonBits] /\ drv' \in [Mice -> Busy \cup AtRest]
        /\ UNCHANGED <<usbMod, objVars, ptrVars, pre_val, rejecting, astray, stale, usbFault>>
    BY <1>2 DEF Unplug, AtRest
  <2>2. \A q \in Mice : drv'[q] = drv[q] \/ (drv[q] = "refused" /\ drv'[q] = "unbound")
    BY <1>2 DEF Unplug
  <2>3. \A q \in Mice : MouseOK(q) => MouseOK(q)'
    BY <2>1, <2>2 DEF objVars, ptrVars, MouseOK, Busy, AtRest
  <2>4. \A q \in Mice : (drv'[q] \in Busy <=> drv[q] \in Busy) /\ (KeysOK(q) => KeysOK(q)')
    BY <2>1, <2>2 DEF objVars, KeysOK, Busy, AtRest
  <2>5. (\A q \in Mice : drv'[q] # "kill") => \A q \in Mice : drv[q] # "kill"
    BY <2>2
  <2> QED BY <1>2, <2>1, <2>2, <2>3, <2>4, <2>5 DEF OneMouse, objVars, Unplug
<1>3. CASE usbmouse_as_key_init
  <2>1. UNCHANGED <<drv, hw, objVars, rejecting, astray, stale, usbFault>> /\ pre_val' = {} /\ usbMod = "out"
    BY <1>3 DEF usbmouse_as_key_init, busVars
  <2>2. \A m \in Mice : drv[m] \in AtRest
    BY <2>1
  <2> QED BY <2>1, <2>2 DEF objVars, OneMouse, MouseOK, KeysOK, Busy, AtRest
<1>4. CASE usbmouse_as_key_exit
  <2>1. /\ UNCHANGED <<drv, hw, objVars, ptrVars, pre_val, rejecting, astray, stale, usbFault>>
        /\ usbMod' = "out" => \A m \in Mice : drv[m] \notin Busy
    BY <1>4 DEF usbmouse_as_key_exit, HubFree, busVars, Busy, AtRest
  <2> QED BY <2>1 DEF objVars, ptrVars, OneMouse, MouseOK, KeysOK
<1> QED BY <1>1, <1>2, <1>3, <1>4

\* A mouse nothing is done for has no URB, and that is all there is to say of it.
LEMMA IdleMouse ==
    ASSUME NEW q \in Mice, drv'[q] \in AtRest, urb'[q] = "none"
    PROVE  MouseOK(q)' /\ KeysOK(q)'
BY DEF MouseOK, KeysOK, Busy, AtRest

\* usbmouse_as_key_probe.
LEMMA UsbProbeInv ==
    ASSUME UsbInv, NEW m \in Mice, usbmouse_as_key_probe(m)
    PROVE  UsbInv'
<1> USE DEF UsbInv, UsbTypeOK
<1>1. CASE ProbeInput(m)
  <2>1. /\ drv[m] = "unbound" /\ usbMod = "in" /\ usbMod' = usbMod
        /\ \A q \in Mice : drv[q] \in {"unbound", "refused", "bound"}
        /\ ~usbFault
        /\ astray' = (astray \/ \E q \in Mice : drv[q] = "bound")
        /\ stale' = (pre_val # {})
        /\ UNCHANGED <<hw, urb, buf, usb_buf, uk_urb, pre_val, rejecting, usbFault>>
    BY <1>1 DEF ProbeInput, HubFree, busVars
  <2>2. UsbTypeOK'
    BY <1>1, <2>1 DEF ProbeInput, Busy, AtRest
  <2>3. ASSUME ~astray'
        PROVE  /\ ~usbFault' /\ OneMouse' /\ ((\A q \in Mice : drv'[q] # "kill") => rejecting' = {})
               /\ (\A q \in Mice : MouseOK(q)') /\ (~stale' => \A q \in Mice : KeysOK(q)')
    <3>1. \A q \in Mice : drv[q] \in AtRest /\ urb[q] = "none"
      BY <2>1, <2>3 DEF MouseOK, AtRest
    <3>2. ~usbFault /\ rejecting = {}
      BY <2>1, <2>3, <3>1
    <3>3. \A q \in Mice : q # m => drv'[q] = drv[q]
      BY <1>1 DEF ProbeInput
    <3>4. \A q \in Mice : q # m => MouseOK(q)' /\ KeysOK(q)'
      BY <2>1, <3>1, <3>3, IdleMouse
    <3>5. CASE drv' = [drv EXCEPT ![m] = "refused"]
      BY <2>1, <3>1, <3>2, <3>3, <3>4, <3>5, IdleMouse DEF OneMouse, Busy, AtRest
    <3>6. CASE /\ drv' = [drv EXCEPT ![m] = "input"] /\ uk_input_dev' = m
               /\ usbInput' = usbInput \cup {m} /\ keys' = [keys EXCEPT ![m] = {}]
      <4>1. drv'[m] = "input" /\ keys'[m] = {}
        BY <3>6
      <4>2. MouseOK(m)' /\ (~stale' => KeysOK(m)')
        BY <2>1, <3>1, <3>2, <3>6, <4>1 DEF MouseOK, KeysOK, Busy, AtRest
      <4>3. OneMouse'
        BY <3>1, <3>3 DEF OneMouse, Busy, AtRest
      <4> QED BY <2>1, <3>2, <3>4, <4>2, <4>3
    <3> QED BY <1>1, <3>5, <3>6 DEF ProbeInput
  <2> QED BY <2>1, <2>2, <2>3
<1>2. CASE ProbeBuffer(m) \/ ProbeUrb(m)
  <2>1. /\ drv[m] \in {"input", "buffer"} /\ ~usbFault /\ (astray => astray')
        /\ UNCHANGED <<usbMod, hw, usbInput, keys, uk_input_dev, pre_val, rejecting, stale, usbFault>>
        /\ \A q \in Mice : q # m => drv'[q] = drv[q] /\ urb'[q] = urb[q]
    BY <1>2 DEF ProbeBuffer, ProbeUrb, busVars
  <2>2. UsbTypeOK' /\ usbMod' # "out"
    <3>1. usbMod' # "out"
      BY <2>1 DEF Busy, AtRest
    <3>2. CASE ProbeBuffer(m)
      <4>1. buf' \in [Mice -> (SUBSET ButtonBits) \cup {Unfilled, NoBuffer}] /\ astray' \in BOOLEAN
        BY <3>2 DEF ProbeBuffer
      <4>2. drv' \in [Mice -> Busy \cup AtRest] /\ urb' = urb
        BY <3>2 DEF ProbeBuffer, Busy, AtRest
      <4> QED BY <2>1, <3>1, <4>1, <4>2
    <3>3. CASE ProbeUrb(m)
      BY <2>1, <3>1, <3>3 DEF ProbeUrb, Busy, AtRest
    <3> QED BY <1>2, <3>2, <3>3
  <2>3. ASSUME ~astray'
        PROVE  /\ ~usbFault' /\ OneMouse' /\ ((\A q \in Mice : drv'[q] # "kill") => rejecting' = {})
               /\ (\A q \in Mice : MouseOK(q)') /\ (~stale' => \A q \in Mice : KeysOK(q)')
    <3>0. ~astray
      BY <2>1, <2>3
    <3>1. \A q \in Mice : q # m => drv[q] \in AtRest /\ urb[q] = "none"
      BY <2>1, <3>0 DEF OneMouse, MouseOK, Busy, AtRest
    <3>2. \A q \in Mice : q # m => MouseOK(q)' /\ KeysOK(q)'
      BY <2>1, <3>1, IdleMouse
    <3>3. OneMouse' /\ rejecting = {}
      BY <2>1, <3>0, <3>1 DEF OneMouse, MouseOK, Busy, AtRest
    <3>4. MouseOK(m)'
      <4>1. urb[m] = "none" /\ uk_input_dev = m /\ m \in usbInput /\ (drv[m] = "buffer" => usb_buf = m /\ buf[m] # NoBuffer)
        BY <2>1, <3>0 DEF MouseOK, Busy, AtRest
      <4>2. CASE ProbeBuffer(m)
        <5>1. drv'[m] = "buffer" /\ usb_buf' = m /\ buf'[m] = Unfilled /\ urb' = urb
          BY <2>3, <4>2 DEF ProbeBuffer
        <5> QED BY <2>1, <3>3, <4>1, <5>1, BufferThere DEF MouseOK, Busy, AtRest
      <4>3. CASE ProbeUrb(m)
        <5>1. /\ UNCHANGED <<buf, usb_buf>> /\ drv[m] = "buffer"
              /\ \/ drv'[m] = "refused" /\ urb'[m] = urb[m]
                 \/ drv'[m] = "bound" /\ uk_urb' = m /\ urb'[m] = "active"
          BY <2>3, <4>3 DEF ProbeUrb
        <5>2. CASE drv'[m] = "refused" /\ urb'[m] = urb[m]
          BY <4>1, <5>2, IdleMouse DEF AtRest
        <5>3. CASE drv'[m] = "bound" /\ uk_urb' = m /\ urb'[m] = "active"
          BY <2>1, <3>3, <4>1, <5>1, <5>3 DEF MouseOK, Busy, AtRest
        <5> QED BY <5>1, <5>2, <5>3
      <4> QED BY <1>2, <4>2, <4>3
    <3>5. ~stale' => KeysOK(m)'
      BY <2>1, <3>0 DEF KeysOK
    <3> QED BY <2>1, <3>2, <3>3, <3>4, <3>5
  <2> QED BY <2>2, <2>3
<1> QED BY <1>1, <1>2 DEF usbmouse_as_key_probe

\* Reporting the buttons that changed makes the keys those of the packet.
LEMMA ReportedKeys ==
    ASSUME NEW old, NEW v
    PROVE  LET changed == (old \ v) \cup (v \ old) IN (old \ changed) \cup (v \cap changed) = v
OBVIOUS

\* A completion of m's URB, with the buffers as the transfer has left them.
LEMMA UsbCompletionInv ==
    ASSUME UsbInv, NEW m \in Mice, ~usbFault, urb[m] = "active",
           NEW content \in [Mice -> (SUBSET ButtonBits) \cup {Unfilled, NoBuffer}],
           \A q \in Mice : content[q] = NoBuffer <=> buf[q] = NoBuffer,
           usb_mouse_as_key_irq(m, content),
           UNCHANGED <<usbMod, hw, drv, usbInput, ptrVars, rejecting>>
    PROVE  UsbInv'
<1> USE DEF UsbInv, UsbTypeOK
\* With one mouse, the handler has all it uses.
<1>1. ASSUME ~astray
      PROVE  /\ Sane /\ drv[m] \in {"bound", "kill"} /\ uk_input_dev = m /\ usb_buf = m /\ uk_urb = m
             /\ m \in usbInput /\ buf[m] # NoBuffer
             /\ rejecting = IF drv[m] = "bound" THEN {} ELSE {m}
             /\ \A q \in Mice : q # m => drv[q] \in AtRest /\ urb[q] = "none"
  <2>1. drv[m] \in {"bound", "kill"}
    BY <1>1 DEF MouseOK, Busy, AtRest
  <2>2. /\ uk_input_dev = m /\ usb_buf = m /\ uk_urb = m /\ m \in usbInput /\ buf[m] # NoBuffer
        /\ rejecting = IF drv[m] = "bound" THEN {} ELSE {m}
    BY <1>1, <2>1 DEF MouseOK, Busy, AtRest
  <2>3. \A q \in Mice : q # m => drv[q] \in AtRest /\ urb[q] = "none"
    BY <1>1, <2>1 DEF OneMouse, MouseOK, Busy, AtRest
  <2> QED BY <2>1, <2>2, <2>3 DEF Sane
<1>2. CASE ~Sane
  <2>1. UNCHANGED <<objVars, pre_val, astray, stale>>
    BY <1>2 DEF usb_mouse_as_key_irq
  <2> QED BY <1>1, <1>2, <2>1 DEF objVars
<1>3. CASE Sane
  <2>1. PICK v \in IF content[usb_buf] = Unfilled THEN SUBSET ButtonBits ELSE {content[usb_buf]} :
              Report(v) /\ pre_val' = v /\ buf' = [content EXCEPT ![usb_buf] = v]
    BY <1>3 DEF usb_mouse_as_key_irq
  <2>2. /\ stale' = (stale \/ content[usb_buf] = Unfilled) /\ Resubmit(m) /\ usbFault' = usbFault
    BY <1>3 DEF usb_mouse_as_key_irq
  <2>3. usb_buf \in Mice /\ v \in SUBSET ButtonBits
    <3>1. usb_buf \in Mice /\ content[usb_buf] \in (SUBSET ButtonBits) \cup {Unfilled, NoBuffer}
      BY <1>3 DEF Sane
    <3>2. content[usb_buf] # NoBuffer
      BY <1>3 DEF Sane
    <3>3. CASE content[usb_buf] = Unfilled
      BY <2>1, <3>1, <3>3
    <3>4. CASE content[usb_buf] # Unfilled
      BY <2>1, <3>1, <3>2, <3>4
    <3> QED BY <3>3, <3>4
  <2>4. UsbTypeOK'
    <3>1. keys' \in [Mice -> SUBSET ButtonBits]
      BY <2>1, <2>3 DEF Report
    <3>2. urb' \in [Mice -> {"none", "idle", "active"}] /\ astray' \in BOOLEAN
      BY <2>2 DEF Resubmit
    <3>3. stale' \in BOOLEAN /\ pre_val' \in SUBSET ButtonBits
      BY <2>1, <2>2, <2>3
    <3>4. buf' \in [Mice -> (SUBSET ButtonBits) \cup {Unfilled, NoBuffer}]
      BY <2>1, <2>3
    <3> QED BY <3>1, <3>2, <3>3, <3>4
  <2>5. ASSUME ~astray'
        PROVE  /\ ~usbFault' /\ OneMouse' /\ ((\A q \in Mice : drv'[q] # "kill") => rejecting' = {})
               /\ (\A q \in Mice : MouseOK(q)') /\ (~stale' => \A q \in Mice : KeysOK(q)')
    <3>0. ~astray
      BY <2>2, <2>5 DEF Resubmit
    \* Only a URB that is being killed stays idle.
    <3>1. /\ urb'[m] = "active" \/ (drv[m] = "kill" /\ urb'[m] = "idle")
          /\ \A q \in Mice : q # m => urb'[q] = "none"
      BY <1>1, <2>2, <2>5, <3>0 DEF Resubmit
    <3>2. \A q \in Mice : q # m => MouseOK(q)' /\ KeysOK(q)'
      BY <1>1, <3>0, <3>1, IdleMouse
    <3>3. buf'[m] # NoBuffer
      BY <1>1, <2>1, <2>3, <3>0, BufferThere
    <3>4. MouseOK(m)'
      BY <1>1, <3>0, <3>1, <3>3 DEF MouseOK, Busy, AtRest, ptrVars
    <3>5. ASSUME ~stale' PROVE KeysOK(m)'
      <4>1. keys[m] = pre_val
        BY <1>1, <2>2, <3>0, <3>5 DEF KeysOK
      <4>2. keys'[m] = LET changed == (pre_val \ v) \cup (v \ pre_val)
                       IN  (keys[m] \ changed) \cup (v \cap changed)
        BY <1>1, <2>1, <3>0 DEF Report
      <4>3. keys'[m] = v
        BY <4>1, <4>2, ReportedKeys
      <4> QED BY <2>1, <4>3 DEF KeysOK
    <3> QED BY <2>2, <3>0, <3>2, <3>4, <3>5 DEF OneMouse
  <2> QED BY <2>4, <2>5
<1> QED BY <1>2, <1>3

\* usbmouse_as_key_disconnect.
LEMMA UsbDisconnectInv ==
    ASSUME UsbInv, NEW m \in Mice, usbmouse_as_key_disconnect(m)
    PROVE  UsbInv'
<1> USE DEF UsbInv, UsbTypeOK
<1>1. /\ drv[m] \in {"bound", "kill", "killed", "freed", "unregistered"} /\ ~usbFault
      /\ UNCHANGED <<usbMod, hw, ptrVars, pre_val, astray, stale>>
      /\ \A q \in Mice : q # m => drv'[q] = drv[q]
      /\ (drv'[m] \in Busy => drv[m] \in Busy) /\ drv'[m] \in Busy \cup AtRest
  BY DEF usbmouse_as_key_disconnect, KillUrb, FreeUrb, FreeBuffer, UnregisterKeys, FreeKeys, HubFree, busVars, Busy, AtRest
<1>2. usbMod' # "out"
  BY <1>1 DEF Busy, AtRest
<1>3. UsbTypeOK'
  <2>1. CASE KillUrb(m)
    BY <1>1, <2>1 DEF KillUrb, objVars, Busy, AtRest
  <2>2. CASE FreeUrb(m)
    BY <1>1, <2>2 DEF FreeUrb, Busy, AtRest
  <2>3. CASE FreeBuffer(m)
    <3>1. buf' \in [Mice -> (SUBSET ButtonBits) \cup {Unfilled, NoBuffer}]
      BY <2>3 DEF FreeBuffer
    <3>2. drv' \in [Mice -> Busy \cup AtRest] /\ UNCHANGED <<urb, keys>>
      BY <2>3 DEF FreeBuffer, Busy, AtRest
    <3> QED BY <1>1, <3>1, <3>2
  <2>4. CASE UnregisterKeys(m)
    BY <1>1, <2>4 DEF UnregisterKeys, Busy, AtRest
  <2>5. CASE FreeKeys(m)
    BY <1>1, <2>5 DEF FreeKeys, objVars, Busy, AtRest
  <2> QED BY <2>1, <2>2, <2>3, <2>4, <2>5 DEF usbmouse_as_key_disconnect
<1>4. ASSUME ~astray'
      PROVE  /\ (usbFault' => \E q \in Mice : drv'[q] = "crashed")
             /\ OneMouse' /\ ((\A q \in Mice : drv'[q] # "kill") => rejecting' = {})
             /\ (\A q \in Mice : MouseOK(q)') /\ (~stale' => \A q \in Mice : KeysOK(q)')
  <2>0. ~astray /\ MouseOK(m) /\ (~stale => KeysOK(m)) /\ m # NULL
    BY <1>1, <1>4, MiceAssumption
  <2>1. \A q \in Mice : q # m => drv[q] \in AtRest /\ urb[q] = "none"
    BY <1>1, <2>0 DEF OneMouse, MouseOK, Busy, AtRest
  <2>2. OneMouse'
    BY <1>1, <2>1 DEF OneMouse, Busy, AtRest
  <2>3. (\A q \in Mice : drv[q] # "kill") => rejecting = {}
    BY <2>0
  <2>4. CASE KillUrb(m)
    <3>1. /\ drv'[m] = "kill" /\ rejecting' = {m} /\ usbFault' = FALSE /\ UNCHANGED objVars
      BY <2>0, <2>4 DEF KillUrb, MouseOK
    <3>2. MouseOK(m)'
      BY <1>1, <2>0, <2>4, <3>1 DEF KillUrb, MouseOK, Busy, AtRest, objVars, ptrVars
    <3>3. ~stale' => KeysOK(m)'
      BY <1>1, <2>0, <2>4, <3>1 DEF KillUrb, KeysOK, objVars
    <3> QED BY <1>1, <2>1, <2>2, <3>1, <3>2, <3>3, IdleMouse DEF objVars
  <2>5. CASE FreeUrb(m)
    <3>1. /\ drv'[m] = "killed" /\ rejecting' = {} /\ usbFault' = usbFault
          /\ UNCHANGED <<buf, usbInput, keys>> /\ urb' = [urb EXCEPT ![m] = "none"]
      BY <2>0, <2>5 DEF FreeUrb, MouseOK
    <3>2. MouseOK(m)' /\ KeysOK(m)'
      BY <1>1, <2>0, <2>5, <3>1 DEF FreeUrb, MouseOK, KeysOK, Busy, AtRest, ptrVars
    <3> QED BY <1>1, <2>0, <2>1, <2>2, <3>1, <3>2, IdleMouse
  <2>6. CASE FreeBuffer(m)
    <3>1. /\ drv[m] = "killed" /\ drv'[m] = "freed" /\ rejecting' = rejecting
          /\ UNCHANGED <<urb, usbInput, keys>> /\ usbFault' = FALSE
      BY <2>0, <2>6 DEF FreeBuffer, MouseOK, Busy, AtRest
    <3>2. MouseOK(m)' /\ KeysOK(m)'
      BY <1>1, <2>0, <3>1 DEF MouseOK, KeysOK, Busy, AtRest, ptrVars
    <3>3. rejecting' = {}
      BY <2>1, <2>3, <3>1 DEF AtRest
    <3> QED BY <1>1, <2>1, <2>2, <3>1, <3>2, <3>3, IdleMouse
  <2>7. CASE UnregisterKeys(m)
    <3>1. /\ drv[m] = "freed" /\ drv'[m] = "unregistered" /\ UNCHANGED <<rejecting, urb>> /\ usbFault' = FALSE
      BY <2>0, <2>7 DEF UnregisterKeys, MouseOK, Busy, AtRest
    <3>2. MouseOK(m)' /\ KeysOK(m)'
      BY <2>0, <3>1 DEF MouseOK, KeysOK, Busy, AtRest
    <3>3. rejecting' = {}
      BY <2>1, <2>3, <3>1 DEF AtRest
    <3> QED BY <1>1, <2>1, <2>2, <3>1, <3>2, <3>3, IdleMouse
  <2>8. CASE FreeKeys(m)
    <3>1. /\ drv[m] = "unregistered" /\ UNCHANGED <<rejecting, urb>>
          /\ \/ drv'[m] = "unbound" /\ usbFault' = usbFault
             \/ drv'[m] = "crashed"
      BY <2>8 DEF FreeKeys, objVars
    <3>2. urb[m] = "none"
      BY <2>0, <3>1 DEF MouseOK, AtRest
    <3>3. MouseOK(m)' /\ KeysOK(m)'
      BY <3>1, <3>2, IdleMouse DEF AtRest
    <3>4. rejecting' = {}
      BY <2>1, <2>3, <3>1 DEF AtRest
    <3> QED BY <1>1, <2>1, <2>2, <3>1, <3>3, <3>4, IdleMouse
  <2> QED BY <2>4, <2>5, <2>6, <2>7, <2>8 DEF usbmouse_as_key_disconnect
<1> QED BY <1>2, <1>3, <1>4

\* UsbInv is inductive.
THEOREM UsbInvariant == UsbSpec => []UsbInv
<1>1. UsbInit => UsbInv
  <2> SUFFICES ASSUME UsbInit PROVE UsbInv
    OBVIOUS
  <2>1. \A m \in Mice : drv[m] = "unbound" /\ urb[m] = "none"
    BY DEF UsbInit
  <2>2. (\A m \in Mice : MouseOK(m) /\ KeysOK(m) /\ drv[m] \notin Busy) /\ OneMouse
    BY <2>1 DEF OneMouse, MouseOK, KeysOK, Busy, AtRest
  <2>3. hw \in [Mice -> SUBSET ButtonBits] /\ keys \in [Mice -> SUBSET ButtonBits]
    BY DEF UsbInit
  <2>4. buf \in [Mice -> (SUBSET ButtonBits) \cup {Unfilled, NoBuffer}]
    BY DEF UsbInit
  <2>5. UsbTypeOK
    BY <2>3, <2>4 DEF UsbInit, UsbTypeOK, AtRest
  <2> QED BY <2>2, <2>5 DEF UsbInit, UsbInv
<1>2. UsbInv /\ [UsbNext]_usbVars => UsbInv'
  <2> SUFFICES ASSUME UsbInv, [UsbNext]_usbVars PROVE UsbInv'
    OBVIOUS
  <2>1. ASSUME NEW m \in Mice, Packet(m) PROVE UsbInv'
    <3> DEFINE content == [buf EXCEPT ![m] = IF @ = NoBuffer THEN @ ELSE hw[m]]
    <3>1. /\ content \in [Mice -> (SUBSET ButtonBits) \cup {Unfilled, NoBuffer}]
          /\ \A q \in Mice : content[q] = NoBuffer <=> buf[q] = NoBuffer
      BY BufferThere DEF UsbInv, UsbTypeOK
    <3>2. /\ ~usbFault /\ urb[m] = "active" /\ usb_mouse_as_key_irq(m, content)
          /\ UNCHANGED <<usbMod, hw, drv, usbInput, ptrVars, rejecting>>
      BY <2>1 DEF Packet
    <3> HIDE DEF content
    <3> QED BY <3>1, <3>2, UsbCompletionInv
  <2>2. ASSUME NEW m \in Mice, Error(m) PROVE UsbInv'
    <3>1. /\ ~usbFault /\ urb[m] = "active" /\ usb_mouse_as_key_irq(m, buf)
          /\ UNCHANGED <<usbMod, hw, drv, usbInput, ptrVars, rejecting>>
          /\ buf \in [Mice -> (SUBSET ButtonBits) \cup {Unfilled, NoBuffer}]
      BY <2>2 DEF Error, busVars, UsbInv, UsbTypeOK
    <3> QED BY <3>1, UsbCompletionInv
  <2>3. CASE UNCHANGED usbVars
    BY <2>3 DEF usbVars, busVars, objVars, ptrVars, UsbInv, UsbTypeOK, OneMouse, MouseOK, KeysOK
  <2> QED BY <2>1, <2>2, <2>3, UsbBusInv, UsbProbeInv, UsbDisconnectInv DEF UsbNext
<1> QED BY <1>1, <1>2, PTL DEF UsbSpec

\* Mice that come and go one at a time, for any number of them: a submitted URB always
\* has its buffer and its input device (usb_mouse_as_key_irq l. 67 against l. 135-139), and
\* the only fault is that of the second release of the input device (l. 140).
THEOREM UsbFaultsConfined == UsbSpec => []MouseFaultsConfined
<1>1. UsbInv => MouseFaultsConfined
  BY DEF UsbInv, UsbTypeOK, MouseFaultsConfined, MouseOK, Busy, AtRest
<1> QED BY UsbInvariant, <1>1, PTL

\* The keys held down in the input core are those of the last packet, for any number of
\* buttons (usb_mouse_as_key_irq l. 43-64).
THEOREM UsbKeysFollowPackets == UsbSpec => []KeysFollowPackets
<1>1. UsbInv => KeysFollowPackets
  BY DEF UsbInv, KeysFollowPackets, KeysOK
<1> QED BY UsbInvariant, <1>1, PTL
=============================================================================
