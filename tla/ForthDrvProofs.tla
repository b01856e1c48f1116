--------------------------- MODULE ForthDrvProofs ---------------------------
(***************************************************************************)
(* Proofs about ThirdDrv and ForthDrv: third_drv behaves as ButtonIrq says *)
(* on the interrupt side, and no interleaving of handler and readers loses *)
(* a wakeup; adding poll leaves third_drv's behaviour as it was, and no    *)
(* poller sleeps through an event.                                         *)
(***************************************************************************)
EXTENDS ForthDrv, ButtonIrqProofs

(***************************************************************************)
(* third_drv.                                                              *)
(***************************************************************************)
\* Every step of the driver is a step of the interrupt side or leaves it alone.
LEMMA ThirdStepIsLineStep == [ThirdNext]_thirdVars => [LineNext]_lineVars
<1> SUFFICES ASSUME [ThirdNext]_thirdVars PROVE [LineNext]_lineVars
  OBVIOUS
<1>1. CASE third_drv_init \/ third_drv_exit
  BY <1>1 DEF third_drv_init, third_drv_exit, LineNext, ModuleStep
<1>2. CASE third_irq_handle \/ KeyMoves
  BY <1>2 DEF third_irq_handle, HandlerReturn, HandlerEntry, KeyMoves, LineNext, IrqStep
<1>3. ASSUME NEW p \in Procs, third_drv_open(p) \/ third_drv_release(p)
      PROVE  LineNext
  BY <1>3 DEF third_drv_open, third_drv_release, LineNext, FileStep
<1>4. ASSUME NEW p \in Procs, third_drv_read(p) \/ Signal(p)
      PROVE  UNCHANGED lineVars
  BY <1>4 DEF third_drv_read, ReadStep, ReadCall, WaitEvent, CopyToUser, ReadReturn, Signal
<1>5. CASE UNCHANGED thirdVars
  BY <1>5 DEF thirdVars
<1> QED BY <1>1, <1>2, <1>3, <1>4, <1>5 DEF ThirdNext

\* third_drv implements the interrupt side of the button drivers, so all that
\* ButtonIrqProofs proves of it holds of third_drv.
THEOREM ThirdImplementsLines == ThirdSpec => LineSpec
<1>1. ThirdInit => LineInit
  BY DEF ThirdInit
<1> QED BY <1>1, ThirdStepIsLineStep, PTL DEF ThirdSpec, LineSpec

-----------------------------------------------------------------------------

\* Before the module is loaded ThirdInv holds.
LEMMA ThirdInitInv == ThirdInit => ThirdInv
BY DEF ThirdInit, LineInit, ThirdInv, ReadStates, ReadersHoldFile, NoLostWakeup, Asleep

\* Every step of third_drv keeps ThirdInv.
LEMMA ThirdNextInv == LineInv /\ ThirdInv /\ [ThirdNext]_thirdVars => ThirdInv'
<1> SUFFICES ASSUME LineInv, ThirdInv, [ThirdNext]_thirdVars PROVE ThirdInv'
  OBVIOUS
<1>0. LineTypeOK
  BY DEF LineInv
<1>1. CASE third_drv_init
  <2>1. UNCHANGED <<file, rd, buf>> /\ (ev_press' = FALSE \/ ev_press' = ev_press)
    BY <1>1 DEF third_drv_init, RegisterChrdev, CreateClass, driverVars, readVars
  <2>2. ev_press' \in BOOLEAN /\ unread' \in BOOLEAN
    BY <1>1 DEF third_drv_init, driverVars, ThirdInv
  <2> QED BY <2>1, <2>2 DEF ThirdInv, ReadersHoldFile, NoLostWakeup, Asleep
<1>2. CASE third_drv_exit
  BY <1>2 DEF third_drv_exit, UnregisterChrdev, DestroyClass, driverVars, ThirdInv,
              ReadersHoldFile, NoLostWakeup, Asleep
<1>3. CASE KeyMoves
  BY <1>3 DEF KeyMoves, PinChange, driverVars, ThirdInv, ReadersHoldFile, NoLostWakeup, Asleep
<1>4. ASSUME NEW k \in Keys, HandlerEntry(k) PROVE ThirdInv'
  BY <1>4 DEF HandlerEntry, IrqEnter, driverVars, ThirdInv, ReadersHoldFile, NoLostWakeup, Asleep
\* The handler sets ev_press, and leaves nobody asleep.
<1>5. CASE HandlerReturn
  <2>1. rd' \in [Procs -> ReadStates] /\ \A p \in Procs : ~Asleep(p)'
    BY <1>5 DEF HandlerReturn, WakeUp, ThirdInv, ReadStates, Asleep
  <2>2. ReadersHoldFile'
    BY <1>5 DEF HandlerReturn, WakeUp, IrqExit, ThirdInv, ReadersHoldFile, Asleep
  <2> QED BY <1>5, <2>1, <2>2 DEF HandlerReturn, ThirdInv, NoLostWakeup
<1>6. ASSUME NEW p \in Procs, third_drv_open(p) PROVE ThirdInv'
  BY <1>0, <1>6 DEF third_drv_open, OpenCall, RequestIrq, OpenReturn, driverVars, LineTypeOK,
                    ThirdInv, ReadersHoldFile, NoLostWakeup, Asleep
\* release is not called while this file's read is in progress.
<1>7. ASSUME NEW p \in Procs, third_drv_release(p) PROVE ThirdInv'
  BY <1>0, <1>7 DEF third_drv_release, ReleaseCall, FreeIrq, ReleaseReturn, driverVars,
                    LineTypeOK, ThirdInv, ReadersHoldFile, NoLostWakeup, Asleep
<1>8. ASSUME NEW p \in Procs, NEW size \in ReadSizes, ReadCall(p, size) PROVE ThirdInv'
  BY <1>8 DEF ReadCall, lineVars, ThirdInv, ReadStates, ReadersHoldFile, NoLostWakeup, Asleep
\* A reader falls asleep only on finding ev_press clear.
<1>9. ASSUME NEW p \in Procs, WaitEvent(p) PROVE ThirdInv'
  BY <1>9 DEF WaitEvent, lineVars, ThirdInv, ReadStates, ReadersHoldFile, NoLostWakeup, Asleep
<1>10. ASSUME NEW p \in Procs, Signal(p) PROVE ThirdInv'
  BY <1>10 DEF Signal, lineVars, ThirdInv, ReadStates, ReadersHoldFile, NoLostWakeup, Asleep
<1>11. ASSUME NEW p \in Procs, CopyToUser(p) PROVE ThirdInv'
  <2>1. key_val \in {NoByte, 0} \cup KeyCodes
    BY <1>0 DEF LineTypeOK
  <2> QED BY <1>11, <2>1 DEF CopyToUser, lineVars, ThirdInv, ReadStates, ReadersHoldFile,
                              NoLostWakeup, Asleep
<1>12. ASSUME NEW p \in Procs, ReadReturn(p) PROVE ThirdInv'
  BY <1>12 DEF ReadReturn, lineVars, ThirdInv, ReadStates, ReadersHoldFile, NoLostWakeup, Asleep
<1>13. CASE UNCHANGED thirdVars
  BY <1>13 DEF thirdVars, lineVars, driverVars, ThirdInv, ReadersHoldFile, NoLostWakeup, Asleep
<1> QED
  BY <1>1, <1>2, <1>3, <1>4, <1>5, <1>6, <1>7, <1>8, <1>9, <1>10, <1>11, <1>12, <1>13
     DEF ThirdNext, third_irq_handle, third_drv_read, ReadStep

\* Every step keeps an announced event's key: key_val goes back to 0 only with
\* ev_press, when the module is loaded.
LEMMA EventStep == LineInv /\ EventHasKey /\ [ThirdNext]_thirdVars => EventHasKey'
<1> SUFFICES ASSUME LineInv, EventHasKey, [ThirdNext]_thirdVars PROVE EventHasKey'
  OBVIOUS
<1>0. LineTypeOK
  BY DEF LineInv
<1>1. CASE third_drv_init \/ third_drv_exit \/ KeyMoves
  BY <1>1 DEF third_drv_init, third_drv_exit, KeyMoves, RegisterChrdev, CreateClass, UnregisterChrdev,
              DestroyClass, PinChange, driverVars, EventHasKey
<1>2. ASSUME NEW k \in Keys, HandlerEntry(k) PROVE EventHasKey'
  BY <1>2 DEF HandlerEntry, IrqEnter, driverVars, EventHasKey
<1>3. CASE HandlerReturn
  <2>1. PICK k : k = Head(running) /\ k \in Keys
    BY <1>0, <1>3 DEF HandlerReturn, IrqExit, LineTypeOK
  <2>2. key_val' = Code(k, sample[k])
    BY <1>3, <2>1 DEF HandlerReturn, IrqExit
  <2>3. Code(k, sample[k]) # 0
    BY <2>1, NKeysAssumption DEF Code, Keys
  <2> QED BY <2>2, <2>3 DEF EventHasKey
<1>4. ASSUME NEW p \in Procs, third_drv_open(p) \/ third_drv_release(p) PROVE EventHasKey'
  BY <1>4 DEF third_drv_open, third_drv_release, OpenCall, RequestIrq, OpenReturn, ReleaseCall, FreeIrq,
              ReleaseReturn, driverVars, EventHasKey
<1>5. ASSUME NEW p \in Procs, third_drv_read(p) \/ Signal(p) PROVE EventHasKey'
  BY <1>5 DEF third_drv_read, ReadStep, ReadCall, WaitEvent, CopyToUser, ReadReturn, Signal, lineVars, EventHasKey
<1>6. CASE UNCHANGED thirdVars
  BY <1>6 DEF thirdVars, lineVars, driverVars, EventHasKey
<1> QED
  BY <1>1, <1>2, <1>3, <1>4, <1>5, <1>6 DEF ThirdNext, third_irq_handle

\* The driver's inductive invariant holds in every behaviour of third_drv.
THEOREM ThirdInvariant == ThirdSpec => [](LineInv /\ ThirdInv)
<1>1. ThirdSpec => []LineInv
  BY ThirdImplementsLines, LineInvariant, PTL
<1> QED BY <1>1, ThirdInitInv, ThirdNextInv, PTL DEF ThirdSpec

\* The variables keep their types.
THEOREM ThirdTypeCorrect == ThirdSpec => []ThirdTypeOK
<1>1. LineInv /\ ThirdInv => ThirdTypeOK
  BY DEF LineInv, ThirdInv, ThirdTypeOK
<1> QED BY ThirdInvariant, <1>1, PTL

\* However handlers and any number of readers interleave, no reader sleeps
\* while ev_press is set.
THEOREM ThirdNoLostWakeup == ThirdSpec => []NoLostWakeup
<1>1. ThirdInv => NoLostWakeup
  BY DEF ThirdInv
<1> QED BY ThirdInvariant, <1>1, PTL

\* An announced event has a key, for any number of readers and keys.
THEOREM ThirdEventHasKey == ThirdSpec => []EventHasKey
<1>1. ThirdInit => EventHasKey
  BY DEF ThirdInit, EventHasKey
<1> QED BY <1>1, EventStep, ThirdInvariant, PTL DEF ThirdSpec

\* The module is in the kernel while a process is in third_drv_read.
THEOREM ThirdReaderKeepsModule == ThirdSpec => []ReaderKeepsModule
<1>1. LineInv /\ ThirdInv => ReaderKeepsModule
  BY DEF LineInv, FilesOK, ThirdInv, ReadersHoldFile, ReaderKeepsModule
<1> QED BY ThirdInvariant, <1>1, PTL

\* third_drv's published value, once settled, tells the key's present level.
THEOREM ThirdLevelIsCurrent == ThirdSpec => []LevelAgrees
BY ThirdImplementsLines, LevelIsCurrent, PTL

(***************************************************************************)
(* forth_drv.                                                              *)
(***************************************************************************)
\* Every step of forth_drv is a step of third_drv or leaves its state alone.
LEMMA ForthStepIsThirdStep == [ForthNext]_forthVars => [ThirdNext]_thirdVars
<1> SUFFICES ASSUME [ForthNext]_forthVars PROVE [ThirdNext]_thirdVars
  OBVIOUS
<1>1. CASE ForthModule \/ forth_irq_handle \/ ForthEnvironment
  BY <1>1 DEF ForthModule, forth_irq_handle, ForthEnvironment, ThirdNext, third_irq_handle
<1>2. ASSUME NEW p \in Procs, forth_drv_open(p) \/ forth_drv_read(p) \/ forth_drv_release(p)
      PROVE  ThirdNext
  BY <1>2 DEF forth_drv_open, forth_drv_read, forth_drv_release, ThirdNext
<1>3. ASSUME NEW p \in Procs, PollCall(p) \/ PollStep(p) \/ PollExpire(p)
      PROVE  UNCHANGED thirdVars
  BY <1>3 DEF PollCall, PollStep, forth_drv_poll, PollWait, PollTest, PollSleep, PollExpire
<1>4. CASE UNCHANGED forthVars
  BY <1>4 DEF forthVars
<1> QED BY <1>1, <1>2, <1>3, <1>4 DEF ForthNext

\* forth_drv, seen without its poll operation, is third_drv: what is proved of
\* third_drv's readers, lines and published value holds of forth_drv.
THEOREM ForthImplementsThird == ForthSpec => ThirdSpec
<1>1. ForthInit => ThirdInit
  BY DEF ForthInit
<1> QED BY <1>1, ForthStepIsThirdStep, PTL DEF ForthSpec, ThirdSpec

-----------------------------------------------------------------------------
PollInv ==
    /\ poll \in [Procs -> PollStates]
    /\ PollerNotStuck

\* Every step of forth_drv keeps PollInv.
LEMMA PollNextInv == PollInv /\ [ForthNext]_forthVars => PollInv'
<1> SUFFICES ASSUME PollInv, [ForthNext]_forthVars PROVE PollInv'
  OBVIOUS
<1>1. CASE ForthModule
  BY <1>1 DEF ForthModule, third_drv_init, third_drv_exit, driverVars, PollInv, PollerNotStuck
\* The handler sets ev_press and sends every poller back to its test.
<1>2. CASE HandlerReturn /\ PollWakeUp /\ UNCHANGED ready
  BY <1>2 DEF PollWakeUp, PollInv, PollerNotStuck, PollStates
<1>3. ASSUME NEW k \in Keys, HandlerEntry(k) /\ UNCHANGED <<poll, ready>> PROVE PollInv'
  BY <1>3 DEF HandlerEntry, driverVars, PollInv, PollerNotStuck
<1>4. CASE ForthEnvironment
  BY <1>4 DEF ForthEnvironment, KeyMoves, Signal, driverVars, PollInv, PollerNotStuck
<1>5. ASSUME NEW p \in Procs, forth_drv_open(p) \/ forth_drv_release(p) PROVE PollInv'
  BY <1>5 DEF forth_drv_open, forth_drv_release, third_drv_open, third_drv_release,
              driverVars, PollInv, PollerNotStuck
\* A read only ever clears ev_press.
<1>6. ASSUME NEW p \in Procs, forth_drv_read(p) PROVE PollInv'
  <2>1. UNCHANGED poll /\ (ev_press' = ev_press \/ ev_press' = FALSE)
    BY <1>6 DEF forth_drv_read, third_drv_read, ReadStep, ReadCall, WaitEvent, CopyToUser,
                ReadReturn
  <2> QED BY <2>1 DEF PollInv, PollerNotStuck
<1>7. ASSUME NEW p \in Procs, PollCall(p) \/ PollWait(p) \/ PollSleep(p) \/ PollExpire(p)
      PROVE  PollInv'
  BY <1>7 DEF PollCall, PollWait, PollSleep, PollExpire, PollAsleep, thirdVars, driverVars,
              PollInv, PollerNotStuck, PollStates
\* A poller goes on to sleep only if its test found ev_press clear.
<1>8. ASSUME NEW p \in Procs, PollTest(p) PROVE PollInv'
  BY <1>8 DEF PollTest, thirdVars, driverVars, PollInv, PollerNotStuck, PollStates
<1>9. CASE UNCHANGED forthVars
  BY <1>9 DEF forthVars, thirdVars, driverVars, PollInv, PollerNotStuck
<1> QED
  BY <1>1, <1>2, <1>3, <1>4, <1>5, <1>6, <1>7, <1>8, <1>9
     DEF ForthNext, forth_irq_handle, PollStep, forth_drv_poll

\* However the handler, pollers and readers interleave, no process sleeps in
\* poll() while ev_press is set.
THEOREM ForthPollerNotStuck == ForthSpec => []PollerNotStuck
<1>1. ForthInit => PollInv
  BY DEF ForthInit, PollInv, PollerNotStuck, PollStates
<1>2. PollInv => PollerNotStuck
  BY DEF PollInv
<1> QED BY <1>1, <1>2, PollNextInv, PTL DEF ForthSpec

\* Nor does one sleep in read().
THEOREM ForthNoLostWakeup == ForthSpec => []NoLostWakeup
BY ForthImplementsThird, ThirdNoLostWakeup, PTL

-----------------------------------------------------------------------------
(* With one process.                                                       *)

\* A poll that said POLLIN saw ev_press set, and the process's own read is the only one
\* to clear it; a file in poll() or with an answer from it is open.
ReadyInv ==
    /\ ready \in [Procs -> BOOLEAN]
    /\ \A p \in Procs : poll[p] # "no" => file[p] = "open"
    /\ \A p \in Procs : ready[p] => ev_press /\ file[p] = "open"

\* Every step of forth_drv with one process keeps ReadyInv.
LEMMA ReadyNextInv ==
    ASSUME \A p, q \in Procs : p = q,
           LineInv, ThirdInv, PollInv, ReadyInv, [ForthNext]_forthVars
    PROVE  ReadyInv'
<1> USE DEF ReadyInv, PollInv
<1>0. /\ LineTypeOK /\ \A p \in Procs : file[p] # "closed" => mod # "out"
  BY DEF LineInv, FilesOK, Loaded
\* insmod clears ev_press, but then no file is open.
<1>1. CASE ForthModule
  BY <1>0, <1>1 DEF ForthModule, third_drv_init, third_drv_exit, RegisterChrdev, CreateClass,
                    UnregisterChrdev, DestroyClass, driverVars, readVars
<1>2. CASE HandlerReturn /\ PollWakeUp /\ UNCHANGED ready
  BY <1>2 DEF HandlerReturn, IrqExit, PollWakeUp
<1>3. ASSUME NEW k \in Keys, HandlerEntry(k) /\ UNCHANGED <<poll, ready>> PROVE ReadyInv'
  BY <1>3 DEF HandlerEntry, IrqEnter, driverVars
<1>4. CASE ForthEnvironment
  <2>1. UNCHANGED <<file, ev_press, poll, ready>>
    BY <1>4 DEF ForthEnvironment, KeyMoves, PinChange, Signal, driverVars, lineVars
  <2> QED BY <2>1
<1>5. ASSUME NEW p \in Procs, forth_drv_open(p) PROVE ReadyInv'
  BY <1>0, <1>5 DEF forth_drv_open, third_drv_open, OpenCall, RequestIrq, OpenReturn, driverVars,
                    LineTypeOK
<1>6. ASSUME NEW p \in Procs, forth_drv_release(p) PROVE ReadyInv'
  <2>1. \A q \in Procs : q = p
    OBVIOUS
  <2> QED BY <1>6, <2>1 DEF forth_drv_release
\* A read ends with ready clear, whatever it did to ev_press.
<1>7. ASSUME NEW p \in Procs, forth_drv_read(p) PROVE ReadyInv'
  <2>1. \A q \in Procs : q = p
    OBVIOUS
  <2>2. UNCHANGED <<file, poll>> /\ (ev_press' = ev_press \/ rd' = [rd EXCEPT ![p] = "idle"])
    BY <1>7 DEF forth_drv_read, third_drv_read, ReadStep, ReadCall, WaitEvent, CopyToUser, ReadReturn,
                lineVars
  <2>3. ready' = [ready EXCEPT ![p] = ready[p] /\ rd'[p] # "idle"]
    BY <1>7 DEF forth_drv_read
  <2>4. ready' \in [Procs -> BOOLEAN]
    BY <2>3
  <2>5. ready'[p] => ev_press' /\ file'[p] = "open"
    BY <2>2, <2>3 DEF ThirdInv
  <2> QED BY <2>1, <2>2, <2>4, <2>5
<1>8. ASSUME NEW p \in Procs, PollCall(p) \/ PollStep(p) \/ PollExpire(p) PROVE ReadyInv'
  <2>1. UNCHANGED <<file, ev_press>> /\ file[p] = "open"
    BY <1>8 DEF PollCall, PollStep, forth_drv_poll, PollWait, PollTest, PollSleep, PollExpire, PollAsleep,
                thirdVars, lineVars, driverVars
  <2>2. \/ ready' = ready \/ ready' = [ready EXCEPT ![p] = FALSE] \/ ready' = [ready EXCEPT ![p] = ev_press]
    BY <1>8 DEF PollCall, PollStep, forth_drv_poll, PollWait, PollTest, PollSleep, PollExpire
  <2>3. \A q \in Procs : q = p
    OBVIOUS
  <2> QED BY <2>1, <2>2, <2>3 DEF ThirdInv
<1>9. CASE UNCHANGED forthVars
  BY <1>9 DEF forthVars, thirdVars, lineVars, driverVars
<1> QED
  BY <1>1, <1>2, <1>3, <1>4, <1>5, <1>6, <1>7, <1>8, <1>9 DEF ForthNext, forth_irq_handle

\* With one process, a read after a poll that said POLLIN never sleeps: nothing between
\* the two clears ev_press (forth_drv_poll, forth_drv_read).
THEOREM ForthReadyReadReturns ==
    ASSUME \A p, q \in Procs : p = q
    PROVE  ForthSpec => []ReadyReadReturns
<1>1. ForthSpec => [](LineInv /\ ThirdInv)
  BY ForthImplementsThird, ThirdInvariant, PTL
<1>2. ForthInit => PollInv /\ ReadyInv
  BY DEF ForthInit, ThirdInit, LineInit, PollInv, PollerNotStuck, PollStates, ReadyInv
<1>3. LineInv /\ ThirdInv /\ PollInv /\ ReadyInv /\ [ForthNext]_forthVars => ReadyInv'
  BY ReadyNextInv
<1>4. ThirdInv /\ ReadyInv => ReadyReadReturns
  BY DEF ThirdInv, NoLostWakeup, ReadyInv, ReadyReadReturns
<1> QED BY <1>1, <1>2, <1>3, <1>4, PollNextInv, PTL DEF ForthSpec
=============================================================================
