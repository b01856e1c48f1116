--------------------------- MODULE ButtonIrqProofs ---------------------------
(***************************************************************************)
(* Proofs about ButtonIrq, for every number of keys and any set of         *)
(* processes: LineInv is inductive and implies the safety properties.      *)
(***************************************************************************)
EXTENDS ButtonIrq, TLAPS

\* Two published values agree only if they name the same key and level.
LEMMA CodeInjective ==
    ASSUME NEW k \in Keys, NEW j \in Keys, NEW a \in Level, NEW b \in Level,
           Code(k, a) = Code(j, b)
    PROVE  k = j /\ a = b
BY NKeysAssumption DEF Code, Keys, Level

\* The value a handler leaves in key_val is a code of its key.
LEMMA CodeInCodes ==
    ASSUME NEW k \in Keys, NEW a \in Level
    PROVE  Code(k, a) \in KeyCodes /\ Code(k, a) # 0
<1>1. Code(k, a) \in KeyCodes
  BY DEF KeyCodes
<1>2. Code(k, a) # 0
  BY NKeysAssumption DEF Code, Keys
<1> QED BY <1>1, <1>2

\* Entering a handler pushes its key on the stack.
LEMMA Push ==
    ASSUME NEW s \in Seq(Keys), NEW k \in Keys
    PROVE  /\ <<k>> \o s \in Seq(Keys)
           /\ Len(<<k>> \o s) = Len(s) + 1
           /\ (<<k>> \o s)[1] = k
           /\ \A i \in 1 .. Len(s) : (<<k>> \o s)[i + 1] = s[i]
           /\ \A i \in 2 .. Len(s) + 1 : (<<k>> \o s)[i] = s[i - 1]
OBVIOUS

\* Leaving it pops the key.
LEMMA Pop ==
    ASSUME NEW s \in Seq(Keys), s # <<>>
    PROVE  /\ Head(s) \in Keys
           /\ Head(s) = s[1]
           /\ Tail(s) \in Seq(Keys)
           /\ Len(Tail(s)) = Len(s) - 1
           /\ Len(s) \in Nat \ {0}
           /\ \A i \in 1 .. Len(s) - 1 : Tail(s)[i] = s[i + 1]
OBVIOUS

-----------------------------------------------------------------------------

\* Before the module is loaded LineInv holds.
LEMMA LineInitInv == LineInit => LineInv
<1> SUFFICES ASSUME LineInit PROVE LineInv
  OBVIOUS
<1>1. LineTypeOK
  <2>1. idx \in [Procs -> 1 .. NKeys + 1]
    BY NKeysAssumption DEF LineInit
  <2>2. running \in Seq(Keys) /\ sample \in [Keys -> Level]
    BY DEF LineInit, Level
  <2> QED BY <2>1, <2>2 DEF LineInit, LineTypeOK, ModStates
<1>2. FilesOK
  BY DEF LineInit, FilesOK
<1>3. IrqsAccounted
  BY DEF LineInit, IrqsAccounted
<1>4. StackOK
  BY DEF LineInit, StackOK
<1>5. SampleAgrees
  BY DEF LineInit, SampleAgrees, InHandler
<1>6. LevelAgrees
  BY CodeInCodes DEF LineInit, LevelAgrees
<1> QED BY <1>1, <1>2, <1>3, <1>4, <1>5, <1>6 DEF LineInv

\* The steps of insmod and rmmod.
LEMMA ModuleStepInv == LineInv /\ ModuleStep => LineInv'
<1> SUFFICES ASSUME LineInv, ModuleStep PROVE LineInv'
  OBVIOUS
<1> USE DEF LineInv
<1>1. CASE RegisterChrdev
  <2>1. LineTypeOK'
    BY <1>1 DEF RegisterChrdev, LineTypeOK, ModStates
  <2>2. FilesOK'
    BY <1>1 DEF RegisterChrdev, FilesOK, Loaded
  <2>3. IrqsAccounted' /\ StackOK' /\ SampleAgrees'
    BY <1>1 DEF RegisterChrdev, IrqsAccounted, Holds, StackOK, SampleAgrees, InHandler
  <2>4. LevelAgrees'
    BY <1>1, CodeInCodes DEF RegisterChrdev, LevelAgrees
  <2> QED BY <2>1, <2>2, <2>3, <2>4
<1>2. CASE CreateClass
  BY <1>2 DEF CreateClass, LineTypeOK, ModStates, FilesOK, Loaded, IrqsAccounted,
              Holds, StackOK, SampleAgrees, LevelAgrees, InHandler
<1>3. CASE UnregisterChrdev
  BY <1>3 DEF UnregisterChrdev, LineTypeOK, ModStates, FilesOK, IrqsAccounted,
              Holds, StackOK, SampleAgrees, LevelAgrees, InHandler
<1>4. CASE DestroyClass
  BY <1>4 DEF DestroyClass, LineTypeOK, ModStates, FilesOK, Loaded, IrqsAccounted,
              Holds, StackOK, SampleAgrees, LevelAgrees, InHandler
<1> QED BY <1>1, <1>2, <1>3, <1>4 DEF ModuleStep

\* The steps of open and release.
LEMMA FileStepInv ==
    ASSUME NEW p \in Procs, LineInv, FileStep(p)
    PROVE  LineInv'
<1> USE DEF LineInv
<1>0. LineTypeOK /\ NKeys \in Nat
  BY NKeysAssumption
<1>1. StackOK' /\ SampleAgrees' /\ LevelAgrees'
  BY DEF FileStep, OpenCall, RequestIrq, OpenReturn, ReleaseCall, FreeIrq, ReleaseReturn,
         CpuFree, StackOK, SampleAgrees, LevelAgrees, InHandler
<1>2. FilesOK'
  BY <1>0 DEF FileStep, OpenCall, RequestIrq, OpenReturn, ReleaseCall, FreeIrq, ReleaseReturn,
         LineTypeOK, FilesOK, Loaded
<1>3. LineTypeOK'
  <2>1. CASE OpenCall(p) \/ OpenReturn(p) \/ ReleaseCall(p) \/ ReleaseReturn(p)
    <3>1. 1 \in 1 .. NKeys + 1
      BY <1>0
    <3> QED BY <1>0, <2>1, <3>1 DEF OpenCall, OpenReturn, ReleaseCall, ReleaseReturn, LineTypeOK
  <2>2. CASE RequestIrq(p) \/ FreeIrq(p)
    <3>1. idx[p] \in Keys /\ idx[p] + 1 \in 1 .. NKeys + 1
      BY <1>0, <2>2 DEF RequestIrq, FreeIrq, LineTypeOK, Keys
    <3> QED BY <1>0, <2>2, <3>1 DEF RequestIrq, FreeIrq, LineTypeOK
  <2> QED BY <2>1, <2>2 DEF FileStep
<1>4. IrqsAccounted'
  <2> SUFFICES ASSUME NEW k \in irqs'
               PROVE  \E q \in Procs : Holds(q, k)'
    BY DEF IrqsAccounted
  \* The one line that open adds is held by the opener ...
  <2>1. CASE k \notin irqs
    <3>1. RequestIrq(p) /\ k = idx[p]
      BY <2>1 DEF FileStep, OpenCall, RequestIrq, OpenReturn, ReleaseCall, FreeIrq, ReleaseReturn
    <3>2. Holds(p, k)'
      BY <1>0, <3>1 DEF RequestIrq, LineTypeOK, Holds
    <3> QED BY <3>2
  \* ... and whoever held a line that is still installed holds it still.
  <2>2. CASE k \in irqs
    <3>1. PICK q \in Procs : Holds(q, k)
      BY <2>2 DEF IrqsAccounted
    <3>2. CASE q # p
      <4>1. file'[q] = file[q] /\ idx'[q] = idx[q]
        BY <1>0, <3>2 DEF FileStep, OpenCall, RequestIrq, OpenReturn, ReleaseCall, FreeIrq,
                          ReleaseReturn, LineTypeOK
      <4> QED BY <3>1, <4>1 DEF Holds
    <3>3. CASE q = p
      <4>0. k \in 1 .. NKeys /\ idx[p] \in 1 .. NKeys + 1
        BY <1>0, <2>2 DEF LineTypeOK, Keys
      <4>1. CASE OpenCall(p) \/ OpenReturn(p) \/ ReleaseCall(p) \/ ReleaseReturn(p)
        BY <1>0, <3>1, <3>3, <4>0, <4>1
           DEF OpenCall, OpenReturn, ReleaseCall, ReleaseReturn, LineTypeOK, FilesOK, Holds
      <4>2. CASE RequestIrq(p)
        BY <1>0, <3>1, <3>3, <4>0, <4>2 DEF RequestIrq, LineTypeOK, Holds
      <4>3. CASE FreeIrq(p)
        <5>1. k # idx[p] /\ idx'[p] = idx[p] + 1 /\ file'[p] = "closing"
          BY <1>0, <4>3 DEF FreeIrq, LineTypeOK
        <5>2. idx[p] <= k
          BY <3>1, <3>3, <4>3 DEF FreeIrq, Holds
        <5>3. idx'[p] <= k
          BY <4>0, <5>1, <5>2
        <5> QED BY <5>1, <5>3 DEF Holds
      <4> QED BY <4>1, <4>2, <4>3 DEF FileStep
    <3> QED BY <3>2, <3>3
  <2> QED BY <2>1, <2>2
<1> QED BY <1>1, <1>2, <1>3, <1>4

\* A key moves: the edge is latched, or counted as missed.
LEMMA PinChangeInv ==
    ASSUME NEW k \in Keys, LineInv, PinChange(k)
    PROVE  LineInv'
<1> USE DEF LineInv
<1>1. pin' \in [Keys -> Level] /\ \A j \in Keys : j # k => pin'[j] = pin[j]
  <2>1. pin[k] \in Level /\ 1 - pin[k] \in Level
    BY DEF LineTypeOK, Level
  <2> QED BY <2>1 DEF PinChange, LineTypeOK
<1>6. LineTypeOK'
  BY <1>1 DEF PinChange, LineTypeOK
<1>2. k \in pend' \cup missed' /\ pend \cup missed \subseteq pend' \cup missed'
  BY DEF PinChange
<1>3. FilesOK' /\ IrqsAccounted' /\ StackOK'
  BY DEF PinChange, FilesOK, Loaded, IrqsAccounted, Holds, StackOK
<1>4. SampleAgrees'
  BY <1>1, <1>2 DEF PinChange, SampleAgrees, InHandler
<1>5. LevelAgrees'
  BY <1>1, <1>2 DEF PinChange, LevelAgrees, InHandler
<1> QED BY <1>3, <1>4, <1>5, <1>6

\* A handler starts: it samples the level the pin has after the acknowledge.
LEMMA IrqEnterInv ==
    ASSUME NEW k \in Keys, LineInv, IrqEnter(k)
    PROVE  LineInv'
<1> USE DEF LineInv
<1>0. running \in Seq(Keys) /\ running' = <<k>> \o running
  BY DEF IrqEnter, LineTypeOK
<1>1. LineTypeOK'
  BY <1>0, Push DEF IrqEnter, LineTypeOK
<1>2. \A j \in Keys : InHandler(j)' <=> (j = k \/ InHandler(j))
  <2>1. InHandler(k)'
    BY <1>0, Push DEF InHandler
  <2>2. ASSUME NEW j \in Keys, InHandler(j) PROVE InHandler(j)'
    BY <1>0, <2>2, Push DEF InHandler
  <2>3. ASSUME NEW j \in Keys, InHandler(j)' PROVE j = k \/ InHandler(j)
    <3>1. PICK i \in 1 .. Len(running') : running'[i] = j
      BY <2>3 DEF InHandler
    <3>2. CASE i = 1
      BY <1>0, <3>1, <3>2, Push
    <3>3. CASE i # 1
      <4>1. i \in 2 .. Len(running) + 1 /\ i - 1 \in 1 .. Len(running)
        BY <1>0, <3>1, <3>3, Push
      <4>2. running[i - 1] = j
        BY <1>0, <3>1, <4>1, Push
      <4> QED BY <4>1, <4>2 DEF InHandler
    <3> QED BY <3>2, <3>3
  <2> QED BY <2>1, <2>2, <2>3
<1>3. FilesOK' /\ IrqsAccounted'
  BY DEF IrqEnter, FilesOK, Loaded, IrqsAccounted, Holds
<1>4. StackOK'
  <2>1. ~InHandler(k) /\ k \in irqs /\ irqs' = irqs
    BY DEF IrqEnter
  <2>2. \A i \in 1 .. Len(running) : running[i] # k
    BY <2>1 DEF InHandler
  <2>3. \A i \in 1 .. Len(running') :
            \/ i = 1 /\ running'[i] = k
            \/ i - 1 \in 1 .. Len(running) /\ running'[i] = running[i - 1]
    BY <1>0, Push
  <2>4. Len(running) \in Nat /\ Len(running') = Len(running) + 1
    BY <1>0, Push
  <2>5. \A i \in 1 .. Len(running') : running'[i] \in irqs'
    BY <2>1, <2>3 DEF StackOK
  <2>6. ASSUME NEW i \in 1 .. Len(running'), NEW j \in 1 .. Len(running'),
               running'[i] = running'[j]
        PROVE  i = j
    <3>1. CASE i = 1 \/ j = 1
      BY <2>2, <2>3, <2>4, <2>6, <3>1
    <3>2. CASE i # 1 /\ j # 1
      <4>1. i - 1 = j - 1
        BY <2>3, <2>6, <3>2 DEF StackOK
      <4> QED BY <2>4, <4>1
    <3> QED BY <3>1, <3>2
  <2> QED BY <2>5, <2>6 DEF StackOK
<1>5. SampleAgrees'
  BY <1>2 DEF IrqEnter, SampleAgrees, LineTypeOK
<1>6. LevelAgrees'
  BY <1>2 DEF IrqEnter, LevelAgrees
<1> QED BY <1>1, <1>3, <1>4, <1>5, <1>6

\* A handler returns, having published the level it sampled.
LEMMA IrqExitInv ==
    ASSUME LineInv, IrqExit
    PROVE  LineInv'
<1> USE DEF LineInv
<1>k. PICK k \in Keys : k = Head(running)
  BY Pop DEF IrqExit, LineTypeOK
<1>0. /\ running \in Seq(Keys) /\ running # <<>> /\ running' = Tail(running)
      /\ sample[k] \in Level /\ key_val' = Code(k, sample[k])
      /\ sample' = [sample EXCEPT ![k] = 0]
  BY <1>k DEF IrqExit, LineTypeOK
<1>1. LineTypeOK'
  BY <1>0, Pop, CodeInCodes DEF IrqExit, LineTypeOK, Level
<1>2. Len(running) \in Nat \ {0} /\ Len(running') = Len(running) - 1
  BY <1>0, Pop
<1>3. \A i \in 1 .. Len(running') :
          i + 1 \in 1 .. Len(running) /\ running'[i] = running[i + 1]
  BY <1>k, <1>0, <1>2, Pop
<1>4. FilesOK' /\ IrqsAccounted'
  BY DEF IrqExit, FilesOK, Loaded, IrqsAccounted, Holds
<1>5. StackOK'
  <2>1. \A i \in 1 .. Len(running') : running'[i] \in irqs'
    BY <1>3 DEF IrqExit, StackOK
  <2>2. ASSUME NEW i \in 1 .. Len(running'), NEW j \in 1 .. Len(running'),
               running'[i] = running'[j]
        PROVE  i = j
    <3>1. i + 1 = j + 1
      BY <1>3, <2>2 DEF StackOK
    <3> QED BY <1>2, <3>1
  <2> QED BY <2>1, <2>2 DEF StackOK
\* The popped key's handler is no longer on the stack; the others' are.
<1>6. ~InHandler(k)'
  <2> SUFFICES ASSUME NEW i \in 1 .. Len(running'), running'[i] = k PROVE FALSE
    BY DEF InHandler
  <2>1. i + 1 \in 1 .. Len(running) /\ running[i + 1] = k
    BY <1>3
  <2>2. 1 \in 1 .. Len(running) /\ running[1] = k
    BY <1>k, <1>0, <1>2, Pop
  <2>3. i + 1 = 1
    BY <2>1, <2>2 DEF StackOK
  <2> QED BY <1>2, <2>3
<1>7. InHandler(k)
  BY <1>k, <1>0, <1>2, Pop DEF InHandler
<1>8. \A j \in Keys : InHandler(j)' => InHandler(j)
  BY <1>3 DEF InHandler
<1>9. ASSUME NEW j \in Keys, j # k, InHandler(j) PROVE InHandler(j)'
  <2>1. PICK i \in 1 .. Len(running) : running[i] = j
    BY <1>9 DEF InHandler
  <2>2. i # 1
    BY <1>k, <1>0, <1>9, <2>1, Pop
  <2>3. i - 1 \in 1 .. Len(running') /\ running'[i - 1] = running[i]
    BY <1>0, <1>2, <2>2, Pop
  <2> QED BY <2>1, <2>3 DEF InHandler
<1>10. SampleAgrees'
  BY <1>0, <1>6, <1>8 DEF IrqExit, SampleAgrees, LineTypeOK
<1>11. LevelAgrees'
  <2> SUFFICES ASSUME NEW j \in Keys, NEW level \in Level,
                      key_val' = Code(j, level), j \notin pend' \cup missed'
               PROVE  pin'[j] = level
    BY DEF LevelAgrees
  <2>a. sample[k] \in Level /\ Code(k, sample[k]) = Code(j, level)
    BY <1>0
  <2>1. j = k /\ level = sample[k]
    BY <2>a, CodeInjective
  <2> QED BY <1>0, <1>7, <2>1 DEF IrqExit, SampleAgrees
<1> QED BY <1>1, <1>4, <1>5, <1>10, <1>11

-----------------------------------------------------------------------------

\* Every step of the lines, the handler and the module keeps LineInv.
LEMMA LineNextInv == LineInv /\ [LineNext]_lineVars => LineInv'
<1> SUFFICES ASSUME LineInv, [LineNext]_lineVars PROVE LineInv'
  OBVIOUS
<1>1. CASE ModuleStep
  BY <1>1, ModuleStepInv
<1>2. CASE \E p \in Procs : FileStep(p)
  BY <1>2, FileStepInv
<1>3. CASE \E k \in Keys : PinChange(k)
  BY <1>3, PinChangeInv
<1>4. CASE \E k \in Keys : IrqEnter(k)
  BY <1>4, IrqEnterInv
<1>5. CASE IrqExit
  BY <1>5, IrqExitInv
<1>6. CASE UNCHANGED lineVars
  BY <1>6 DEF lineVars, LineInv, LineTypeOK, FilesOK, Loaded, IrqsAccounted, Holds, StackOK,
              SampleAgrees, LevelAgrees, InHandler
<1> QED BY <1>1, <1>2, <1>3, <1>4, <1>5, <1>6 DEF LineNext, IrqStep

\* What the invariant says of the module's lifetime.
LEMMA InvHandlerNeedsModule == LineInv => HandlerNeedsModule
<1> SUFFICES ASSUME LineInv, irqs # {} \/ running # <<>> PROVE Loaded
  BY DEF HandlerNeedsModule
<1>1. irqs # {}
  BY Pop DEF LineInv, LineTypeOK, StackOK
<1>2. PICK k \in irqs, p \in Procs : Holds(p, k)
  BY <1>1 DEF LineInv, IrqsAccounted
<1> QED BY <1>2 DEF LineInv, FilesOK, Holds

\* In every behaviour of the interrupt side of the button drivers, with any
\* number of keys and processes, the inductive invariant holds.
THEOREM LineInvariant == LineSpec => []LineInv
BY LineInitInv, LineNextInv, PTL DEF LineSpec

\* The variables keep their types.
THEOREM LineTypeCorrect == LineSpec => []LineTypeOK
<1>1. LineInv => LineTypeOK
  BY DEF LineInv
<1> QED BY LineInvariant, <1>1, PTL

\* Every installed line belongs to a file that will free it.
THEOREM LinesAccounted == LineSpec => []IrqsAccounted
<1>1. LineInv => IrqsAccounted
  BY DEF LineInv
<1> QED BY LineInvariant, <1>1, PTL

\* No handler outlives the module.
THEOREM HandlersInModule == LineSpec => []HandlerNeedsModule
BY LineInvariant, InvHandlerNeedsModule, PTL

\* A settled key_val tells the level of the key it names.
THEOREM LevelIsCurrent == LineSpec => []LevelAgrees
<1>1. LineInv => LevelAgrees
  BY DEF LineInv
<1> QED BY LineInvariant, <1>1, PTL
=============================================================================
