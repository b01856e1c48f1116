----------------------------- MODULE DmaProofs -----------------------------
(***************************************************************************)
(* Proofs that DmaInv is an inductive invariant of Dma, for any set of     *)
(* processes and any buffer size, and of the safety properties it implies. *)
(***************************************************************************)
EXTENDS Dma, TLAPS

\* Every step keeps the types.
LEMMA TypeStep ==
    ASSUME DmaTypeOK, [DmaNext]_dmaVars
    PROVE  DmaTypeOK'
<1> USE DEF DmaTypeOK, dmaVars, procVars, chanVars, CpuFree, Deliverable, Goto, Lines, Blocks, Channel, NoLine
<1>1. CASE AllocBuffers
    BY <1>1 DEF AllocBuffers
<1>2. CASE AddDevice
    BY <1>2 DEF AddDevice
<1>3. CASE MapRegs
    BY <1>3 DEF MapRegs
<1>4. CASE RequestIrq
    BY <1>4 DEF RequestIrq
<1>5. CASE FreeIrq
    BY <1>5 DEF FreeIrq
<1>6. CASE FreeBuffers
    BY <1>6 DEF FreeBuffers
<1>7. CASE Transfer
    BY <1>7, NBlocksAssumption DEF Transfer
<1>8. CASE s3c_dma_irq
    BY <1>8 DEF s3c_dma_irq
<1>9. ASSUME NEW p \in Procs, Open(p) PROVE DmaTypeOK'
    BY <1>9 DEF Open
<1>10. ASSUME NEW p \in Procs, Close(p) PROVE DmaTypeOK'
    BY <1>10 DEF Close
<1>11. ASSUME NEW p \in Procs, NEW cmd \in {"MEM_CPY_NO_DMA", "MEM_CPY_DMA", "other"}, IoctlCall(p, cmd)
      PROVE  DmaTypeOK'
    BY <1>11 DEF IoctlCall
<1>12. ASSUME NEW p \in Procs, CopyLoop(p) PROVE DmaTypeOK'
    BY <1>12 DEF CopyLoop
<1>13. ASSUME NEW p \in Procs, ClearEvent(p) PROVE DmaTypeOK'
    BY <1>13 DEF ClearEvent
<1>14. ASSUME NEW p \in Procs, StartDma(p) PROVE DmaTypeOK'
  <2>1. chan' \in 0 .. NBlocks
      BY <1>14, NBlocksAssumption DEF StartDma
  <2>2. fault' \in BOOLEAN
      BY <1>14 DEF StartDma
  <2> QED
      BY <1>14, <2>1, <2>2 DEF StartDma
<1>15. ASSUME NEW p \in Procs, WaitEvent(p) PROVE DmaTypeOK'
    BY <1>15 DEF WaitEvent
<1>16. ASSUME NEW p \in Procs, Signal(p) PROVE DmaTypeOK'
    BY <1>16 DEF Signal
<1>17. ASSUME NEW p \in Procs, Resume(p) PROVE DmaTypeOK'
    BY <1>17 DEF Resume
<1>18. ASSUME NEW p \in Procs, Compare(p) PROVE DmaTypeOK'
    BY <1>18 DEF Compare
<1>19. CASE UNCHANGED dmaVars
    BY <1>19
<1> QED
    BY <1>1, <1>2, <1>3, <1>4, <1>5, <1>6, <1>7, <1>8, <1>9, <1>10, <1>11, <1>12, <1>13, <1>14, <1>15, <1>16, <1>17, <1>18, <1>19
       DEF DmaNext, dma_init, dma_exit, dma_ioctl, IoctlStep

\* Every step keeps the lock with the one caller that is awake in dma_ioctl.
LEMMA LockStep ==
    ASSUME DmaTypeOK, LockOK, [DmaNext]_dmaVars
    PROVE  LockOK'
<1> USE DEF DmaTypeOK, LockOK, InIoctl, Sleeping, dmaVars, procVars, chanVars, CpuFree, Deliverable, Goto
<1>1. CASE AllocBuffers
    BY <1>1 DEF AllocBuffers
<1>2. CASE AddDevice
    BY <1>2 DEF AddDevice
<1>3. CASE MapRegs
    BY <1>3 DEF MapRegs
<1>4. CASE RequestIrq
    BY <1>4 DEF RequestIrq
<1>5. CASE FreeIrq
    BY <1>5 DEF FreeIrq
<1>6. CASE FreeBuffers
    BY <1>6 DEF FreeBuffers
<1>7. CASE Transfer
    BY <1>7, NBlocksAssumption DEF Transfer
<1>8. CASE s3c_dma_irq
    BY <1>8 DEF s3c_dma_irq
<1>9. ASSUME NEW p \in Procs, Open(p) PROVE LockOK'
    BY <1>9 DEF Open
<1>10. ASSUME NEW p \in Procs, Close(p) PROVE LockOK'
    BY <1>10 DEF Close
<1>11. ASSUME NEW p \in Procs, NEW cmd \in {"MEM_CPY_NO_DMA", "MEM_CPY_DMA", "other"}, IoctlCall(p, cmd)
      PROVE  LockOK'
    BY <1>11 DEF IoctlCall
<1>12. ASSUME NEW p \in Procs, CopyLoop(p) PROVE LockOK'
    BY <1>12 DEF CopyLoop
<1>13. ASSUME NEW p \in Procs, ClearEvent(p) PROVE LockOK'
    BY <1>13 DEF ClearEvent
<1>14. ASSUME NEW p \in Procs, StartDma(p) PROVE LockOK'
    BY <1>14, NBlocksAssumption DEF StartDma
<1>15. ASSUME NEW p \in Procs, WaitEvent(p) PROVE LockOK'
    BY <1>15 DEF WaitEvent
<1>16. ASSUME NEW p \in Procs, Signal(p) PROVE LockOK'
    BY <1>16 DEF Signal
<1>17. ASSUME NEW p \in Procs, Resume(p) PROVE LockOK'
    BY <1>17 DEF Resume
<1>18. ASSUME NEW p \in Procs, Compare(p) PROVE LockOK'
    BY <1>18 DEF Compare
<1>19. CASE UNCHANGED dmaVars
    BY <1>19
<1> QED
    BY <1>1, <1>2, <1>3, <1>4, <1>5, <1>6, <1>7, <1>8, <1>9, <1>10, <1>11, <1>12, <1>13, <1>14, <1>15, <1>16, <1>17, <1>18, <1>19
       DEF DmaNext, dma_init, dma_exit, dma_ioctl, IoctlStep

\* No step puts a caller to sleep, or leaves it asleep, with ev_dma set.
LEMMA WakeStep ==
    ASSUME DmaTypeOK, DmaNoLostWakeup, [DmaNext]_dmaVars
    PROVE  DmaNoLostWakeup'
<1> USE DEF DmaTypeOK, DmaNoLostWakeup, dmaVars, procVars, chanVars, CpuFree, Deliverable, Goto
<1>1. CASE AllocBuffers
    BY <1>1 DEF AllocBuffers
<1>2. CASE AddDevice
    BY <1>2 DEF AddDevice
<1>3. CASE MapRegs
    BY <1>3 DEF MapRegs
<1>4. CASE RequestIrq
    BY <1>4 DEF RequestIrq
<1>5. CASE FreeIrq
    BY <1>5 DEF FreeIrq
<1>6. CASE FreeBuffers
    BY <1>6 DEF FreeBuffers
<1>7. CASE Transfer
    BY <1>7, NBlocksAssumption DEF Transfer
<1>8. CASE s3c_dma_irq
    BY <1>8 DEF s3c_dma_irq
<1>9. ASSUME NEW p \in Procs, Open(p) PROVE DmaNoLostWakeup'
    BY <1>9 DEF Open
<1>10. ASSUME NEW p \in Procs, Close(p) PROVE DmaNoLostWakeup'
    BY <1>10 DEF Close
<1>11. ASSUME NEW p \in Procs, NEW cmd \in {"MEM_CPY_NO_DMA", "MEM_CPY_DMA", "other"}, IoctlCall(p, cmd)
      PROVE  DmaNoLostWakeup'
    BY <1>11 DEF IoctlCall
<1>12. ASSUME NEW p \in Procs, CopyLoop(p) PROVE DmaNoLostWakeup'
    BY <1>12 DEF CopyLoop
<1>13. ASSUME NEW p \in Procs, ClearEvent(p) PROVE DmaNoLostWakeup'
    BY <1>13 DEF ClearEvent
<1>14. ASSUME NEW p \in Procs, StartDma(p) PROVE DmaNoLostWakeup'
    BY <1>14, NBlocksAssumption DEF StartDma
<1>15. ASSUME NEW p \in Procs, WaitEvent(p) PROVE DmaNoLostWakeup'
    BY <1>15 DEF WaitEvent
<1>16. ASSUME NEW p \in Procs, Signal(p) PROVE DmaNoLostWakeup'
    BY <1>16 DEF Signal
<1>17. ASSUME NEW p \in Procs, Resume(p) PROVE DmaNoLostWakeup'
    BY <1>17 DEF Resume
<1>18. ASSUME NEW p \in Procs, Compare(p) PROVE DmaNoLostWakeup'
    BY <1>18 DEF Compare
<1>19. CASE UNCHANGED dmaVars
    BY <1>19
<1> QED
    BY <1>1, <1>2, <1>3, <1>4, <1>5, <1>6, <1>7, <1>8, <1>9, <1>10, <1>11, <1>12, <1>13, <1>14, <1>15, <1>16, <1>17, <1>18, <1>19
       DEF DmaNext, dma_init, dma_exit, dma_ioctl, IoctlStep

\* Every step keeps the module loaded under an open file.
LEMMA FilesStep ==
    ASSUME DmaTypeOK, FilesHoldModule, [DmaNext]_dmaVars
    PROVE  FilesHoldModule'
<1> USE DEF DmaTypeOK, FilesHoldModule, dmaVars, procVars, chanVars, CpuFree, Deliverable, Goto
<1>1. CASE AllocBuffers
    BY <1>1 DEF AllocBuffers
<1>2. CASE AddDevice
    BY <1>2 DEF AddDevice
<1>3. CASE MapRegs
    BY <1>3 DEF MapRegs
<1>4. CASE RequestIrq
    BY <1>4 DEF RequestIrq
<1>5. CASE FreeIrq
    BY <1>5 DEF FreeIrq
<1>6. CASE FreeBuffers
    BY <1>6 DEF FreeBuffers
<1>7. CASE Transfer
    BY <1>7, NBlocksAssumption DEF Transfer
<1>8. CASE s3c_dma_irq
    BY <1>8 DEF s3c_dma_irq
<1>9. ASSUME NEW p \in Procs, Open(p) PROVE FilesHoldModule'
    BY <1>9 DEF Open
<1>10. ASSUME NEW p \in Procs, Close(p) PROVE FilesHoldModule'
    BY <1>10 DEF Close
<1>11. ASSUME NEW p \in Procs, NEW cmd \in {"MEM_CPY_NO_DMA", "MEM_CPY_DMA", "other"}, IoctlCall(p, cmd)
      PROVE  FilesHoldModule'
    BY <1>11 DEF IoctlCall
<1>12. ASSUME NEW p \in Procs, CopyLoop(p) PROVE FilesHoldModule'
    BY <1>12 DEF CopyLoop
<1>13. ASSUME NEW p \in Procs, ClearEvent(p) PROVE FilesHoldModule'
    BY <1>13 DEF ClearEvent
<1>14. ASSUME NEW p \in Procs, StartDma(p) PROVE FilesHoldModule'
    BY <1>14, NBlocksAssumption DEF StartDma
<1>15. ASSUME NEW p \in Procs, WaitEvent(p) PROVE FilesHoldModule'
    BY <1>15 DEF WaitEvent
<1>16. ASSUME NEW p \in Procs, Signal(p) PROVE FilesHoldModule'
    BY <1>16 DEF Signal
<1>17. ASSUME NEW p \in Procs, Resume(p) PROVE FilesHoldModule'
    BY <1>17 DEF Resume
<1>18. ASSUME NEW p \in Procs, Compare(p) PROVE FilesHoldModule'
    BY <1>18 DEF Compare
<1>19. CASE UNCHANGED dmaVars
    BY <1>19
<1> QED
    BY <1>1, <1>2, <1>3, <1>4, <1>5, <1>6, <1>7, <1>8, <1>9, <1>10, <1>11, <1>12, <1>13, <1>14, <1>15, <1>16, <1>17, <1>18, <1>19
       DEF DmaNext, dma_init, dma_exit, dma_ioctl, IoctlStep

\* Every step keeps an undisturbed transfer with its caller.
LEMMA TransferStep ==
    ASSUME DmaInv, [DmaNext]_dmaVars
    PROVE  TransferOK'
<1> USE DEF DmaInv, DmaTypeOK, TransferOK, OneCaller, TransferWaited, BlocksInOrder, WaiterOK,
           LockOK, FilesHoldModule, InIoctl, Sleeping, Waiting, Blocks, dmaVars, procVars, chanVars, CpuFree, Deliverable, Goto
<1>1. CASE AllocBuffers
    BY <1>1 DEF AllocBuffers
<1>2. CASE AddDevice
    BY <1>2 DEF AddDevice
<1>3. CASE MapRegs
    BY <1>3 DEF MapRegs
<1>4. CASE RequestIrq
    BY <1>4 DEF RequestIrq
<1>5. CASE FreeIrq
    BY <1>5 DEF FreeIrq
<1>6. CASE FreeBuffers
    BY <1>6 DEF FreeBuffers
<1>7. CASE Transfer
  <2>1. ~disturbed' => OneCaller'
      BY <1>7, NBlocksAssumption DEF Transfer
  <2>2. ~disturbed' => TransferWaited'
      BY <1>7, NBlocksAssumption DEF Transfer
  <2>3. ~disturbed' => BlocksInOrder'
      BY <1>7, NBlocksAssumption DEF Transfer
  <2>4. ~disturbed' => WaiterOK'
    <3> SUFFICES ASSUME ~disturbed', NEW q \in Procs
                 PROVE  /\ Waiting(q)' /\ chan' = 0 => dst' = Blocks
                        /\ Waiting(q)' => ~ev_dma'
                        /\ pc'[q] = "start" => ~ev_dma'
                        /\ pc'[q] = "compare" => dst' = Blocks
        OBVIOUS
    <3>1. pc' = pc /\ ev_dma' = ev_dma /\ chan \in Blocks /\ 1 .. chan - 1 \subseteq dst
        BY <1>7 DEF Transfer
    <3>2. chan' = 0 => dst' = Blocks
      <4>1. dst \subseteq 1 .. NBlocks /\ NBlocks \in Nat /\ dst' = dst \cup {chan}
          BY <1>7, NBlocksAssumption DEF Transfer
      <4>2. chan' = 0 => chan = NBlocks
          BY <1>7, <3>1, NBlocksAssumption DEF Transfer
      <4>3. chan = NBlocks => \A i \in 1 .. NBlocks : i \in dst \cup {chan}
          BY <3>1, <4>1
      <4> HIDE DEF DmaInv, TransferOK, Waiting
      <4> QED
          BY <3>1, <4>1, <4>2, <4>3
    <3>3. dst = Blocks => dst' = Blocks
        BY <1>7, <3>1 DEF Transfer
    <3> QED
        BY <1>7, <3>1, <3>2, <3>3 DEF Transfer
  <2> QED
      BY <2>1, <2>2, <2>3, <2>4
<1>8. CASE s3c_dma_irq
    BY <1>8 DEF s3c_dma_irq
<1>9. ASSUME NEW p \in Procs, Open(p) PROVE TransferOK'
    BY <1>9 DEF Open
<1>10. ASSUME NEW p \in Procs, Close(p) PROVE TransferOK'
    BY <1>10 DEF Close
<1>11. ASSUME NEW p \in Procs, NEW cmd \in {"MEM_CPY_NO_DMA", "MEM_CPY_DMA", "other"}, IoctlCall(p, cmd)
      PROVE  TransferOK'
  <2>1. ~disturbed' => OneCaller'
    <3> SUFFICES ASSUME ~disturbed' PROVE OneCaller'
        OBVIOUS
    <3>1. \A q \in Procs : pc[q] \in {"closed", "open"}
      <4>1. \A q \in Procs : ~Sleeping(q)
          BY <1>11 DEF IoctlCall
      <4>2. \A q \in Procs : ~InIoctl(q)
          BY <1>11 DEF IoctlCall
      <4> QED
          BY <4>1, <4>2
    <3> QED
        BY <1>11, <3>1 DEF IoctlCall
  <2>2. ~disturbed' => TransferWaited'
      BY <1>11 DEF IoctlCall
  <2>3. ~disturbed' => BlocksInOrder'
      BY <1>11 DEF IoctlCall
  <2>4. ~disturbed' => WaiterOK'
      BY <1>11 DEF IoctlCall
  <2> QED
      BY <2>1, <2>2, <2>3, <2>4
<1>12. ASSUME NEW p \in Procs, CopyLoop(p) PROVE TransferOK'
    BY <1>12 DEF CopyLoop
<1>13. ASSUME NEW p \in Procs, ClearEvent(p) PROVE TransferOK'
    BY <1>13 DEF ClearEvent
<1>14. ASSUME NEW p \in Procs, StartDma(p) PROVE TransferOK'
  <2>1. ~disturbed' => OneCaller'
      BY <1>14, NBlocksAssumption DEF StartDma
  <2>2. ~disturbed' => TransferWaited'
      BY <1>14, NBlocksAssumption DEF StartDma
  <2>3. ~disturbed' => BlocksInOrder'
      BY <1>14, NBlocksAssumption DEF StartDma
  <2>4. ~disturbed' => WaiterOK'
    <3> SUFFICES ASSUME ~disturbed', NEW q \in Procs PROVE WaiterOK!(q)'
        OBVIOUS
    <3>1. ~disturbed /\ (q = p \/ pc[q] \in {"closed", "open"})
        BY <1>14 DEF StartDma
    <3>2. \A r \in Procs : ~Waiting(r)
        BY <1>14, <3>1 DEF StartDma
    <3>3. ~ev_dma' /\ ~intpend' /\ (chan' = 1 \/ fault')
        BY <1>14, <3>1, <3>2 DEF StartDma
    <3> QED
        BY <1>14, <3>1, <3>3 DEF StartDma
  <2> QED
      BY <2>1, <2>2, <2>3, <2>4
<1>15. ASSUME NEW p \in Procs, WaitEvent(p) PROVE TransferOK'
    BY <1>15 DEF WaitEvent
<1>16. ASSUME NEW p \in Procs, Signal(p) PROVE TransferOK'
    BY <1>16 DEF Signal
<1>17. ASSUME NEW p \in Procs, Resume(p) PROVE TransferOK'
  <2>1. ~disturbed' => OneCaller'
      BY <1>17 DEF Resume
  <2>2. ~disturbed' => TransferWaited'
      BY <1>17 DEF Resume
  <2>3. ~disturbed' => BlocksInOrder'
      BY <1>17 DEF Resume
  <2>4. ~disturbed' => WaiterOK'
    <3> SUFFICES ASSUME ~disturbed', NEW q \in Procs PROVE WaiterOK!(q)'
        OBVIOUS
    <3>1. ~disturbed /\ ~fault
        BY <1>17 DEF Resume
    <3>2. CASE pc[p] = "woken"
        BY <1>17, <3>1, <3>2 DEF Resume
    <3>3. CASE pc[p] = "signalled"
        BY <1>17, <3>1, <3>3 DEF Resume
    <3> QED
        BY <1>17, <3>2, <3>3 DEF Resume
  <2> QED
      BY <2>1, <2>2, <2>3, <2>4
<1>18. ASSUME NEW p \in Procs, Compare(p) PROVE TransferOK'
    BY <1>18 DEF Compare
<1>19. CASE UNCHANGED dmaVars
    BY <1>19
<1> QED
    BY <1>1, <1>2, <1>3, <1>4, <1>5, <1>6, <1>7, <1>8, <1>9, <1>10, <1>11, <1>12, <1>13, <1>14, <1>15, <1>16, <1>17, <1>18, <1>19
       DEF DmaNext, dma_init, dma_exit, dma_ioctl, IoctlStep

\* Every step keeps undisturbed results right.
LEMMA ResultStep ==
    ASSUME DmaInv, [DmaNext]_dmaVars
    PROVE  UndisturbedCopies'
<1> USE DEF DmaInv, DmaTypeOK, UndisturbedCopies, TransferOK, WaiterOK, FilesHoldModule, dmaVars, procVars, chanVars, CpuFree, Deliverable, Goto
<1>1. CASE AllocBuffers
    BY <1>1 DEF AllocBuffers
<1>2. CASE AddDevice
    BY <1>2 DEF AddDevice
<1>3. CASE MapRegs
    BY <1>3 DEF MapRegs
<1>4. CASE RequestIrq
    BY <1>4 DEF RequestIrq
<1>5. CASE FreeIrq
    BY <1>5 DEF FreeIrq
<1>6. CASE FreeBuffers
    BY <1>6 DEF FreeBuffers
<1>7. CASE Transfer
    BY <1>7, NBlocksAssumption DEF Transfer
<1>8. CASE s3c_dma_irq
    BY <1>8 DEF s3c_dma_irq
<1>9. ASSUME NEW p \in Procs, Open(p) PROVE UndisturbedCopies'
    BY <1>9 DEF Open
<1>10. ASSUME NEW p \in Procs, Close(p) PROVE UndisturbedCopies'
    BY <1>10 DEF Close
<1>11. ASSUME NEW p \in Procs, NEW cmd \in {"MEM_CPY_NO_DMA", "MEM_CPY_DMA", "other"}, IoctlCall(p, cmd)
      PROVE  UndisturbedCopies'
    BY <1>11 DEF IoctlCall
<1>12. ASSUME NEW p \in Procs, CopyLoop(p) PROVE UndisturbedCopies'
    BY <1>12 DEF CopyLoop
<1>13. ASSUME NEW p \in Procs, ClearEvent(p) PROVE UndisturbedCopies'
    BY <1>13 DEF ClearEvent
<1>14. ASSUME NEW p \in Procs, StartDma(p) PROVE UndisturbedCopies'
    BY <1>14, NBlocksAssumption DEF StartDma
<1>15. ASSUME NEW p \in Procs, WaitEvent(p) PROVE UndisturbedCopies'
    BY <1>15 DEF WaitEvent
<1>16. ASSUME NEW p \in Procs, Signal(p) PROVE UndisturbedCopies'
    BY <1>16 DEF Signal
<1>17. ASSUME NEW p \in Procs, Resume(p) PROVE UndisturbedCopies'
    BY <1>17 DEF Resume
<1>18. ASSUME NEW p \in Procs, Compare(p) PROVE UndisturbedCopies'
    BY <1>18 DEF Compare
<1>19. CASE UNCHANGED dmaVars
    BY <1>19
<1> QED
    BY <1>1, <1>2, <1>3, <1>4, <1>5, <1>6, <1>7, <1>8, <1>9, <1>10, <1>11, <1>12, <1>13, <1>14, <1>15, <1>16, <1>17, <1>18, <1>19
       DEF DmaNext, dma_init, dma_exit, dma_ioctl, IoctlStep

\* Every step uses the registers only while they are mapped, or before that.
LEMMA FaultStep ==
    ASSUME DmaInv, [DmaNext]_dmaVars
    PROVE  FaultsOnlyEarly'
<1> USE DEF DmaInv, DmaTypeOK, FaultsOnlyEarly, FilesHoldModule, dmaVars, procVars, chanVars, CpuFree, Deliverable, Goto
<1>1. CASE AllocBuffers
    BY <1>1 DEF AllocBuffers
<1>2. CASE AddDevice
    BY <1>2 DEF AddDevice
<1>3. CASE MapRegs
    BY <1>3 DEF MapRegs
<1>4. CASE RequestIrq
    BY <1>4 DEF RequestIrq
<1>5. CASE FreeIrq
    BY <1>5 DEF FreeIrq
<1>6. CASE FreeBuffers
    BY <1>6 DEF FreeBuffers
<1>7. CASE Transfer
    BY <1>7 DEF Transfer
<1>8. CASE s3c_dma_irq
    BY <1>8 DEF s3c_dma_irq
<1>9. ASSUME NEW p \in Procs, Open(p) PROVE FaultsOnlyEarly'
    BY <1>9 DEF Open
<1>10. ASSUME NEW p \in Procs, Close(p) PROVE FaultsOnlyEarly'
    BY <1>10 DEF Close
<1>11. ASSUME NEW p \in Procs, NEW cmd \in {"MEM_CPY_NO_DMA", "MEM_CPY_DMA", "other"}, IoctlCall(p, cmd)
      PROVE  FaultsOnlyEarly'
    BY <1>11 DEF IoctlCall
<1>12. ASSUME NEW p \in Procs, CopyLoop(p) PROVE FaultsOnlyEarly'
    BY <1>12 DEF CopyLoop
<1>13. ASSUME NEW p \in Procs, ClearEvent(p) PROVE FaultsOnlyEarly'
    BY <1>13 DEF ClearEvent
<1>14. ASSUME NEW p \in Procs, StartDma(p) PROVE FaultsOnlyEarly'
    BY <1>14 DEF StartDma, Mapped
<1>15. ASSUME NEW p \in Procs, WaitEvent(p) PROVE FaultsOnlyEarly'
    BY <1>15 DEF WaitEvent
<1>16. ASSUME NEW p \in Procs, Signal(p) PROVE FaultsOnlyEarly'
    BY <1>16 DEF Signal
<1>17. ASSUME NEW p \in Procs, Resume(p) PROVE FaultsOnlyEarly'
    BY <1>17 DEF Resume
<1>18. ASSUME NEW p \in Procs, Compare(p) PROVE FaultsOnlyEarly'
    BY <1>18 DEF Compare
<1>19. CASE UNCHANGED dmaVars
    BY <1>19
<1> QED
    BY <1>1, <1>2, <1>3, <1>4, <1>5, <1>6, <1>7, <1>8, <1>9, <1>10, <1>11, <1>12, <1>13, <1>14, <1>15, <1>16, <1>17, <1>18, <1>19
       DEF DmaNext, dma_init, dma_exit, dma_ioctl, IoctlStep

\* DmaInv is an invariant of the driver: of every interleaving of its callers,
\* the channel, its interrupt, signals, load and unload.
THEOREM DmaInvariant == DmaSpec => []DmaInv
<1>1. DmaInit => DmaInv
  <2> SUFFICES ASSUME DmaInit PROVE DmaInv
      OBVIOUS
  <2>1. DmaTypeOK
    <3>1. chan \in 0 .. NBlocks /\ irq_no \in Lines \cup {NoLine}
        BY NBlocksAssumption DEF DmaInit, NoLine
    <3>2. ev_dma \in BOOLEAN /\ intpend \in BOOLEAN /\ fault \in BOOLEAN /\ disturbed \in BOOLEAN
        BY DEF DmaInit
    <3> QED
        BY <3>1, <3>2 DEF DmaInit, DmaTypeOK
  <2>2. LockOK
      BY DEF DmaInit, LockOK, InIoctl, Sleeping
  <2>3. DmaNoLostWakeup /\ FilesHoldModule /\ UndisturbedCopies /\ FaultsOnlyEarly
      BY DEF DmaInit, DmaNoLostWakeup, FilesHoldModule, UndisturbedCopies, FaultsOnlyEarly
  <2>4. TransferOK
      BY DEF DmaInit, TransferOK, OneCaller, TransferWaited, BlocksInOrder, WaiterOK, Sleeping, Waiting
  <2> QED
      BY <2>1, <2>2, <2>3, <2>4 DEF DmaInv
<1>2. DmaInv /\ [DmaNext]_dmaVars => DmaInv'
    BY TypeStep, LockStep, WakeStep, FilesStep, TransferStep, ResultStep, FaultStep DEF DmaInv
<1> QED
    BY <1>1, <1>2, PTL DEF DmaSpec

\* The type invariant of dma.c's model.
THEOREM DmaTypeCorrect == DmaSpec => []DmaTypeOK
    BY DmaInvariant, PTL DEF DmaInv

\* No caller of dma_ioctl sleeps while ev_dma is set (l. 81, 97, 120-121).
THEOREM DmaWakeupKept == DmaSpec => []DmaNoLostWakeup
    BY DmaInvariant, PTL DEF DmaInv

\* One caller at a time fills the buffers and programs the channel (l. 61-97).
THEOREM DmaOneInIoctl == DmaSpec => []OneInIoctl
<1>1. DmaInv => OneInIoctl
    BY DEF DmaInv, LockOK, OneInIoctl
<1> QED
    BY <1>1, DmaInvariant, PTL

\* An undisturbed DMA copy is complete when ioctl compares the buffers (l. 99).
THEOREM DmaCopies == DmaSpec => []UndisturbedCopies
    BY DmaInvariant, PTL DEF DmaInv

\* An undisturbed transfer ends before its buffers are freed (l. 191-192).
THEOREM DmaBuffersOutlive == DmaSpec => []BuffersOutliveTransfer
<1>1. DmaInv => BuffersOutliveTransfer
    BY DEF DmaInv, TransferOK, TransferWaited, FilesHoldModule, BuffersOutliveTransfer, Waiting, Sleeping, Allocated
<1> QED
    BY <1>1, DmaInvariant, PTL
\* dma_regs is used unmapped only before ioremap (l. 154-159).
THEOREM DmaFaultsOnlyEarly == DmaSpec => []FaultsOnlyEarly
    BY DmaInvariant, PTL DEF DmaInv
=============================================================================
