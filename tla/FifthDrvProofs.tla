--------------------------- MODULE FifthDrvProofs ---------------------------
(***************************************************************************)
(* Proofs about FifthDrv: it behaves as ButtonIrq says on the interrupt    *)
(* side, no notification is swallowed, and only a file closed with FASYNC  *)
(* set leads to the fault.                                                 *)
(***************************************************************************)
EXTENDS FifthDrv, ButtonIrqProofs

\* Every step of the driver is a step of the interrupt side or leaves it alone.
LEMMA FifthStepIsLineStep == [FifthNext]_fifthVars => [LineNext]_lineVars
<1> SUFFICES ASSUME [FifthNext]_fifthVars PROVE [LineNext]_lineVars
  OBVIOUS
<1>1. CASE fifth_irq_handle \/ KeyMoves
  BY <1>1 DEF fifth_irq_handle, HandlerReturn, HandlerEntry, KeyMoves, LineNext, IrqStep
<1>2. CASE FifthModule
  BY <1>2 DEF FifthModule, LineNext
<1>3. ASSUME NEW p \in Procs, fifth_drv_open(p) \/ fifth_drv_release(p) PROVE LineNext
  BY <1>3 DEF fifth_drv_open, fifth_drv_release, LineNext, FileStep
<1>4. ASSUME NEW p \in Procs,
             \/ fifth_drv_read(p) \/ SetOwner(p) \/ \E on \in BOOLEAN : fifth_drv_fasync(p, on)
             \/ fifth_drv_poll(p) \/ PollExpire(p) \/ TakeSignal(p) \/ SignalReturn(p)
      PROVE  UNCHANGED lineVars
  BY <1>4 DEF fifth_drv_read, SetOwner, fifth_drv_fasync, fifth_drv_poll, PollExpire, TakeSignal,
              SignalReturn
<1>5. CASE UNCHANGED fifthVars
  BY <1>5 DEF fifthVars
<1> QED BY <1>1, <1>2, <1>3, <1>4, <1>5 DEF FifthNext, ProcStep

\* fifth_drv implements the interrupt side of the button drivers, so all that
\* ButtonIrqProofs proves of it holds of fifth_drv.
THEOREM FifthImplementsLines == FifthSpec => LineSpec
<1>1. FifthInit => LineInit
  BY DEF FifthInit
<1> QED BY <1>1, FifthStepIsLineStep, PTL DEF FifthSpec, LineSpec

\* Every installed line of fifth_drv belongs to a file that will free it.
THEOREM FifthLinesAccounted == FifthSpec => []IrqsAccounted
BY FifthImplementsLines, LinesAccounted, PTL

\* No handler of fifth_drv outlives the module.
THEOREM FifthHandlersInModule == FifthSpec => []HandlerNeedsModule
BY FifthImplementsLines, HandlersInModule, PTL

\* fifth_drv's published value, once settled, tells the key's present level.
THEOREM FifthLevelIsCurrent == FifthSpec => []LevelAgrees
BY FifthImplementsLines, LevelIsCurrent, PTL

-----------------------------------------------------------------------------
(* Notification.                                                           *)

\* The sets hold processes, and whoever is behind has its SIGIO or its handler running.
NotifyInv ==
    /\ sh \in [Procs -> {"main", "handler", "back"}]
    /\ fq \subseteq Procs /\ sig \subseteq Procs /\ behind \subseteq Procs
    /\ NotifiedOrRead

\* Every step of fifth_drv keeps NotifyInv.
LEMMA NotifyNextInv ==
    ASSUME NotifyInv, [FifthNext]_fifthVars
    PROVE  NotifyInv'
<1> USE DEF NotifyInv, NotifiedOrRead
<1>1. ASSUME NEW k \in Keys, HandlerEntry(k) PROVE NotifyInv'
  BY <1>1 DEF HandlerEntry
\* The interrupt makes the same processes behind that it signals.
<1>2. CASE HandlerReturn
  BY <1>2 DEF HandlerReturn
<1>3. CASE FifthModule \/ KeyMoves
  BY <1>3 DEF FifthModule, KeyMoves
<1>4. ASSUME NEW p \in Procs, fifth_drv_open(p) PROVE NotifyInv'
  BY <1>4 DEF fifth_drv_open
\* Closing forgets the signal together with the debt.
<1>5. ASSUME NEW p \in Procs, fifth_drv_release(p) PROVE NotifyInv'
  BY <1>5 DEF fifth_drv_release
<1>6. ASSUME NEW p \in Procs, SetOwner(p) \/ fifth_drv_poll(p) \/ PollExpire(p) PROVE NotifyInv'
  BY <1>6 DEF SetOwner, fifth_drv_poll, PollExpire
<1>7. ASSUME NEW p \in Procs, NEW on \in BOOLEAN, fifth_drv_fasync(p, on) PROVE NotifyInv'
  BY <1>7 DEF fifth_drv_fasync
\* The signal is exchanged for a handler that will read.
<1>8. ASSUME NEW p \in Procs, TakeSignal(p) PROVE NotifyInv'
  BY <1>8 DEF TakeSignal
\* The read pays the debt before the handler is marked as done with it.
<1>9. ASSUME NEW p \in Procs, fifth_drv_read(p) PROVE NotifyInv'
  BY <1>9 DEF fifth_drv_read
<1>10. ASSUME NEW p \in Procs, SignalReturn(p) PROVE NotifyInv'
  BY <1>10 DEF SignalReturn
<1>11. CASE UNCHANGED fifthVars
  BY <1>11 DEF fifthVars
<1> QED
  BY <1>1, <1>2, <1>3, <1>4, <1>5, <1>6, <1>7, <1>8, <1>9, <1>10, <1>11
     DEF FifthNext, ProcStep, fifth_irq_handle

\* However interrupts, signal handlers and reads of any number of processes interleave,
\* no notification is swallowed (fifth_irq_handle l. 79 against test.c l. 11-16).
THEOREM FifthNotifiedOrRead == FifthSpec => []NotifiedOrRead
<1>1. FifthInit => NotifyInv
  BY DEF FifthInit, NotifyInv, NotifiedOrRead
<1>2. NotifyInv => NotifiedOrRead
  BY DEF NotifyInv
<1>3. NotifyInv /\ [FifthNext]_fifthVars => NotifyInv'
  BY NotifyNextInv
<1> QED BY <1>1, <1>2, <1>3, PTL DEF FifthSpec

-----------------------------------------------------------------------------
(* The freed entries of fifth_async_queue.                                 *)

\* FASYNC in f_flags and an entry on the queue come and go together, so an entry is left
\* behind only by a file closed with FASYNC set.
QueueInv ==
    /\ {dangling, careless, fault} \subseteq BOOLEAN
    /\ asks \subseteq Procs /\ fq = asks
    /\ dangling => careless
    /\ CarefulNeverFaults

\* Every step of fifth_drv keeps QueueInv.
LEMMA QueueNextInv ==
    ASSUME QueueInv, [FifthNext]_fifthVars
    PROVE  QueueInv'
<1> USE DEF QueueInv, CarefulNeverFaults
<1>1. ASSUME NEW k \in Keys, HandlerEntry(k) PROVE QueueInv'
  BY <1>1 DEF HandlerEntry
\* kill_fasync faults only on a dangling entry.
<1>2. CASE HandlerReturn
  BY <1>2 DEF HandlerReturn
\* The queue and what is known of it go with the module.
<1>3. CASE FifthModule
  BY <1>3 DEF FifthModule
<1>4. CASE KeyMoves
  BY <1>4 DEF KeyMoves
<1>5. ASSUME NEW p \in Procs, fifth_drv_open(p) PROVE QueueInv'
  BY <1>5 DEF fifth_drv_open
<1>6. ASSUME NEW p \in Procs, fifth_drv_release(p) PROVE QueueInv'
  <2>1. CASE UNCHANGED <<fq, dangling, asks, careless, fault>>
    BY <2>1
  <2>2. CASE /\ fq' = fq \ {p} /\ asks' = asks \ {p} /\ dangling' = (dangling \/ p \in fq)
             /\ careless' = (careless \/ p \in asks) /\ fault' = fault
    BY <2>2
  <2> QED BY <1>6, <2>1, <2>2 DEF fifth_drv_release
<1>7. ASSUME NEW p \in Procs, SetOwner(p) \/ fifth_drv_poll(p) \/ PollExpire(p) PROVE QueueInv'
  BY <1>7 DEF SetOwner, fifth_drv_poll, PollExpire
\* fasync_helper and f_flags change together or, when it fails, not at all.
<1>8. ASSUME NEW p \in Procs, NEW on \in BOOLEAN, fifth_drv_fasync(p, on) PROVE QueueInv'
  <2>1. UNCHANGED <<dangling, careless, fault>>
    BY <1>8 DEF fifth_drv_fasync
  <2>2. fq' = asks' /\ asks' \subseteq Procs
    BY <1>8 DEF fifth_drv_fasync
  <2> QED BY <2>1, <2>2
<1>9. ASSUME NEW p \in Procs, TakeSignal(p) \/ fifth_drv_read(p) \/ SignalReturn(p) PROVE QueueInv'
  BY <1>9 DEF TakeSignal, fifth_drv_read, SignalReturn
<1>10. CASE UNCHANGED fifthVars
  BY <1>10 DEF fifthVars
<1> QED
  BY <1>1, <1>2, <1>3, <1>4, <1>5, <1>6, <1>7, <1>8, <1>9, <1>10
     DEF FifthNext, ProcStep, fifth_irq_handle

\* kill_fasync follows a freed entry only if some file was closed with FASYNC set, for any
\* number of processes (l. 79, l. 127-139 against l. 155-163).
THEOREM FifthCarefulNeverFaults == FifthSpec => []CarefulNeverFaults
<1>1. FifthInit => QueueInv
  BY DEF FifthInit, QueueInv, CarefulNeverFaults
<1>2. QueueInv => CarefulNeverFaults
  BY DEF QueueInv
<1>3. QueueInv /\ [FifthNext]_fifthVars => QueueInv'
  BY QueueNextInv
<1> QED BY <1>1, <1>2, <1>3, PTL DEF FifthSpec
=============================================================================
