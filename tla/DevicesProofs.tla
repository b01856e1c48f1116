---------------------------- MODULE DevicesProofs ----------------------------
(***************************************************************************)
(* Proofs about LedPlatform, At24cxx and SmallDrivers, for any set of      *)
(* users, any size of the EEPROM and any bounds on files and frames.       *)
(***************************************************************************)
EXTENDS LedPlatform, At24cxx, SmallDrivers, TLAPS

-----------------------------------------------------------------------------
(* LedPlatform.                                                            *)

Reachable == {"chrdev", "yes", "noclass"}

LedTypeOK ==
    /\ led_drv \in {"out", "in", "going"} /\ led_dev \in {"out", "in", "going"}
    /\ bound \in Reachable \cup {"no", "mapped", "nochrdev"}
    /\ gpio \in BOOLEAN
    /\ con \in {"input", "output"} /\ dat \in {0, 1}
    /\ ledPc \in [LedUsers -> {"out", "opening", "muxing", "open", "dying", "killed"}]
    /\ cutOff \subseteq LedUsers
    /\ lastVal \in {0, 1, Nothing}

\* The registers are mapped exactly while the pair is not unbound.
GpioMapped == gpio = (bound # "no")

\* A process whose device is not there any more has been recorded.
FileHasDevice == \A p \in LedUsers : ledPc[p] # "out" /\ p \notin cutOff => bound \in Reachable

\* Once led_open has come to its end the pin is an output, unless led_open is at work
\* again or was killed half way.
OutputOnceOpen ==
    (lastVal # Nothing \/ \E p \in LedUsers : ledPc[p] \in {"open", "dying"})
    /\ (\A p \in LedUsers : ledPc[p] \notin {"muxing", "killed"})
    => con = "output"

DatIsLast == lastVal # Nothing => dat = 1 - lastVal

LedInv == LedTypeOK /\ GpioMapped /\ FileHasDevice /\ KilledOnlyIfCutOff /\ OutputOnceOpen /\ DatIsLast

\* Loading, unloading, probe and remove: no file changes, and the mapping goes after
\* the device.
LEMMA LedModulesInv ==
    ASSUME LedInv,
           led_drv_init \/ led_drv_exit \/ led_dev_init \/ led_dev_exit \/ led_probe \/ led_remove
    PROVE  LedInv'
<1> USE DEF LedInv, LedTypeOK, Reachable
<1>1. CASE led_drv_init \/ led_drv_exit \/ led_dev_init \/ led_dev_exit
  BY <1>1 DEF led_drv_init, led_drv_exit, led_dev_init, led_dev_exit, GpioMapped, FileHasDevice,
              KilledOnlyIfCutOff, OutputOnceOpen, DatIsLast
<1>2. CASE led_probe
  BY <1>2 DEF led_probe, ProbeMap, ProbeRegister, ProbeNode, GpioMapped, FileHasDevice,
              KilledOnlyIfCutOff, OutputOnceOpen, DatIsLast
<1>3. CASE led_remove
  <2>1. LedTypeOK' /\ GpioMapped' /\ KilledOnlyIfCutOff' /\ OutputOnceOpen' /\ DatIsLast'
    BY <1>3 DEF led_remove, RemoveNode, RemoveUnregister, RemoveUnmap, GpioMapped,
                KilledOnlyIfCutOff, OutputOnceOpen, DatIsLast
  <2>2. FileHasDevice'
    BY <1>3 DEF led_remove, RemoveNode, RemoveUnregister, RemoveUnmap, FileHasDevice
  <2> QED BY <2>1, <2>2
<1> QED BY <1>1, <1>2, <1>3

\* A process opens, writes or closes.
LEMMA LedFilesInv ==
    ASSUME LedInv, NEW p \in LedUsers,
           LedOpenCall(p) \/ led_open(p) \/ led_write(p) \/ LedClose(p)
    PROVE  LedInv'
<1> USE DEF LedInv, LedTypeOK, Reachable, drvVars
<1>0. PICK s \in {"out", "opening", "muxing", "open", "dying", "killed"} :
         ledPc' = [ledPc EXCEPT ![p] = s]
  <2>1. CASE ledPc' = ledPc
    BY <2>1
  <2> QED BY <2>1 DEF LedOpenCall, led_open, ClearMode, SetMode, led_write, LedClose
<1>1. LedTypeOK' /\ GpioMapped' /\ DatIsLast'
  <2>1. CASE LedOpenCall(p)
    BY <1>0, <2>1 DEF LedOpenCall, GpioMapped, DatIsLast
  <2>2. CASE led_open(p)
    BY <1>0, <2>2 DEF led_open, ClearMode, SetMode, GpioMapped, DatIsLast
  <2>3. CASE led_write(p)
    BY <1>0, <2>3 DEF led_write, GpioMapped, DatIsLast
  <2>4. CASE LedClose(p)
    BY <1>0, <2>4 DEF LedClose, GpioMapped, DatIsLast
  <2> QED BY <2>1, <2>2, <2>3, <2>4
<1>2. FileHasDevice' /\ KilledOnlyIfCutOff'
  BY <1>0 DEF LedOpenCall, led_open, ClearMode, SetMode, led_write, LedClose, GpioMapped, FileHasDevice,
              KilledOnlyIfCutOff
<1>3. OutputOnceOpen'
  <2>1. CASE LedOpenCall(p)
    BY <2>1 DEF LedOpenCall, OutputOnceOpen
  <2>2. CASE ClearMode(p)
    BY <2>2 DEF ClearMode, OutputOnceOpen
  <2>3. CASE SetMode(p)
    BY <2>3 DEF SetMode, OutputOnceOpen
  <2>4. CASE led_write(p)
    BY <2>4 DEF led_write, OutputOnceOpen, Nothing
  <2>5. CASE LedClose(p)
    BY <2>5 DEF LedClose, OutputOnceOpen
  <2> QED BY <2>1, <2>2, <2>3, <2>4, <2>5 DEF led_open
<1> QED BY <1>1, <1>2, <1>3

\* LedInv is inductive.
THEOREM LedInvariant == LedSpec => []LedInv
<1>1. LedInit => LedInv
  BY DEF LedInit, LedInv, LedTypeOK, Reachable, GpioMapped, FileHasDevice, KilledOnlyIfCutOff,
         OutputOnceOpen, DatIsLast, Nothing
<1>2. LedInv /\ [LedNext]_ledVars => LedInv'
  <2> SUFFICES ASSUME LedInv, [LedNext]_ledVars PROVE LedInv'
    OBVIOUS
  <2>1. CASE UNCHANGED ledVars
    BY <2>1 DEF ledVars, drvVars, LedInv, LedTypeOK, Reachable, GpioMapped, FileHasDevice, KilledOnlyIfCutOff,
                OutputOnceOpen, DatIsLast
  <2> QED BY <2>1, LedModulesInv, LedFilesInv DEF LedNext
<1> QED BY <1>1, <1>2, PTL DEF LedSpec

\* Only a process whose device was removed under its file is killed, for any number of
\* users of the LED and in any order of loading (led_drv.c, led_dev.c).
THEOREM LedKilledOnlyIfCutOff == LedSpec => []KilledOnlyIfCutOff
<1>1. LedInv => KilledOnlyIfCutOff
  BY DEF LedInv
<1> QED BY LedInvariant, <1>1, PTL

\* The LED shows the last write whenever no led_open is half way.
THEOREM LedLastWriteShown == LedSpec => []LedShowsLastWrite
<1>1. LedInv => LedShowsLastWrite
  BY DEF LedInv, OutputOnceOpen, DatIsLast, LedShowsLastWrite
<1> QED BY LedInvariant, <1>1, PTL

-----------------------------------------------------------------------------
(* SmallDrivers.                                                           *)

Drivers == {"first_drv", "second_drv", "lcd", "s3c_nand", "s3c_nor", "virt_net", "hello"}

\* What the first n calls of the init have taken, of the exit given up.
Taken(n) == {InitOf[sdDriver][i] : i \in 1 .. n}
Given(n) == {ExitOf[sdDriver][i] : i \in 1 .. n}

\* What must not be there before its turn or after it.
Switches == {"dev", "dev2", "controller"}

SmallTypeOK ==
    /\ sdDriver \in Drivers
    /\ sdMod \in {"out", "init", "live", "exit"}
    /\ sdPc \in Nat
    /\ sdFiles \in Nat /\ sdOld \in Nat

\* What is there, between any two calls: at least what has been taken and not
\* given up (except that s3c_nor may keep its mapping), and of the switches no more.
HaveOK ==
    /\ sdMod = "out" => sdHave \cap Switches = {}
    /\ sdMod = "init" => /\ sdPc < Len(InitOf[sdDriver])
                         /\ Taken(sdPc) \subseteq sdHave
                         /\ sdHave \cap Switches \subseteq Taken(sdPc)
    /\ sdMod = "live" => /\ Taken(Len(InitOf[sdDriver])) \subseteq sdHave
                         /\ sdHave \cap Switches \subseteq Taken(Len(InitOf[sdDriver]))
    /\ sdMod = "exit" => /\ sdPc < Len(ExitOf[sdDriver])
                         /\ Taken(Len(InitOf[sdDriver])) \ Given(sdPc) \subseteq sdHave
                         /\ sdHave \cap Switches \subseteq Taken(Len(InitOf[sdDriver])) \ Given(sdPc)

\* Files hold the module, s3c_nor's excepted; nand and nor have none before the load is
\* complete, virt_net none at all.
SmallFilesOK ==
    /\ sdFiles > 0 => sdDriver # "virt_net"
    /\ sdFiles > 0 => \/ sdMod = "live"
                      \/ sdMod = "init" /\ sdDriver \notin {"s3c_nand", "s3c_nor"}
                      \/ sdMod = "exit" /\ sdDriver = "s3c_nor"
    /\ sdOld > 0 => sdDriver = "s3c_nor"

SmallInv == SmallTypeOK /\ HaveOK /\ SmallFilesOK /\ FaultsConfined

\* The calls of each driver, spelled out.
LEMMA CallsOf ==
    /\ InitOf["first_drv"] = <<"dev", "class", "node", "regs">>
    /\ ExitOf["first_drv"] = <<"dev", "node", "class", "regs">>
    /\ InitOf["second_drv"] = <<"dev", "class", "node", "regs">>
    /\ ExitOf["second_drv"] = <<"dev", "node", "class", "regs">>
    /\ InitOf["lcd"] = <<"info", "gpio", "regs", "vram", "controller", "panel", "dev">>
    /\ ExitOf["lcd"] = <<"dev", "controller", "vram", "regs", "gpio", "info">>
    /\ InitOf["s3c_nand"] = <<"chip", "regs", "clock", "mtd", "dev">>
    /\ ExitOf["s3c_nand"] = <<"regs", "dev", "chip", "mtd">>
    /\ InitOf["s3c_nor"] = <<"map", "regs", "mtd", "dev">>
    /\ ExitOf["s3c_nor"] = <<"map", "regs", "dev">>
    /\ InitOf["virt_net"] = <<"netdev", "dev">>
    /\ ExitOf["virt_net"] = <<"dev", "netdev">>
    /\ InitOf["hello"] = <<"region", "dev", "region2", "dev2", "class", "nodes">>
    /\ ExitOf["hello"] = <<"nodes", "class", "dev", "dev2", "region", "region2">>
BY DEF InitOf, ExitOf, first_drv_init, first_drv_exit, second_drv_init, second_drv_exit, lcd_init, lcd_exit,
       s3c_nand_init, s3c_nand_exit, s3c_nor_init, s3c_nor_exit, virt_net_init, virt_net_exit, hello_init, hello_exit

\* The exits leave no switch on that the inits turn on.
LEMMA ExitsComplete ==
    ASSUME NEW d \in Drivers
    PROVE  /\ Len(InitOf[d]) \in Nat \ {0} /\ Len(ExitOf[d]) \in Nat \ {0}
           /\ \A i \in 1 .. Len(InitOf[d]) : InitOf[d][i] \in Switches =>
                  \E j \in 1 .. Len(ExitOf[d]) : ExitOf[d][j] = InitOf[d][i]
<1>1. CASE d = "first_drv"
  BY <1>1, CallsOf DEF Switches
<1>2. CASE d = "second_drv"
  BY <1>2, CallsOf DEF Switches
<1>3. CASE d = "lcd"
  BY <1>3, CallsOf DEF Switches
<1>4. CASE d = "s3c_nand"
  BY <1>4, CallsOf DEF Switches
<1>5. CASE d = "s3c_nor"
  BY <1>5, CallsOf DEF Switches
<1>6. CASE d = "virt_net"
  BY <1>6, CallsOf DEF Switches
<1>7. CASE d = "hello"
  BY <1>7, CallsOf DEF Switches
<1> QED BY <1>1, <1>2, <1>3, <1>4, <1>5, <1>6, <1>7 DEF Drivers

\* A driver whose load is complete has its registers mapped.
LEMMA RegsTaken ==
    ASSUME SmallInv, sdMod = "live", sdDriver \in {"first_drv", "second_drv", "s3c_nand", "s3c_nor"}
    PROVE  "regs" \in sdHave
<1>1. \E i \in 1 .. Len(InitOf[sdDriver]) : InitOf[sdDriver][i] = "regs"
  <2>1. CASE sdDriver \in {"first_drv", "second_drv"}
    <3>1. 4 \in 1 .. Len(InitOf[sdDriver]) /\ InitOf[sdDriver][4] = "regs"
      BY <2>1, CallsOf
    <3> QED BY <3>1
  <2>2. CASE sdDriver = "s3c_nand"
    BY <2>2, CallsOf
  <2>3. CASE sdDriver = "s3c_nor"
    BY <2>3, CallsOf
  <2> QED BY <2>1, <2>2, <2>3
<1> QED BY <1>1 DEF SmallInv, HaveOK, Taken

\* s3c_nand and s3c_nor make the device usable with their last call.
LEMMA UsableLast ==
    ASSUME SmallInv, sdMod = "init", sdDriver \in {"s3c_nand", "s3c_nor"}
    PROVE  "dev" \notin sdHave /\ "dev2" \notin sdHave
<1>1. \A i \in 1 .. Len(InitOf[sdDriver]) - 1 : InitOf[sdDriver][i] \notin {"dev", "dev2"}
  <2>1. CASE sdDriver = "s3c_nand"
    BY <2>1, CallsOf
  <2>2. CASE sdDriver = "s3c_nor"
    BY <2>2, CallsOf
  <2> QED BY <2>1, <2>2
<1>2. Len(InitOf[sdDriver]) \in Nat /\ sdPc \in Nat /\ sdPc < Len(InitOf[sdDriver])
  BY ExitsComplete DEF SmallInv, SmallTypeOK, HaveOK
<1>3. \A i \in 1 .. sdPc : i \in 1 .. Len(InitOf[sdDriver]) - 1
  BY <1>2
<1> QED BY <1>1, <1>3 DEF SmallInv, HaveOK, Taken, Switches

\* A driver that is not loaded cannot be opened.
LEMMA DevGone ==
    ASSUME SmallInv, sdMod = "out"
    PROVE  "dev" \notin sdHave /\ "dev2" \notin sdHave
BY DEF SmallInv, HaveOK, Switches

-----------------------------------------------------------------------------
\* rmmod begins only without files, s3c_nor's and virt_net's excepted.
LEMMA LoadInv ==
    ASSUME SmallInv, Load \/ Unload
    PROVE  SmallInv'
<1> USE DEF SmallInv, SmallTypeOK
<1>0. sdHave' = sdHave /\ sdDriver' = sdDriver /\ sdPc' = 0 /\ sdFiles' = sdFiles /\ sdOld' = sdOld
      /\ sdFault = "no" /\ sdFault' = "no"
  BY DEF Load, Unload, Idles
<1>1. Taken(0)' = {} /\ Given(0)' = {}
  BY DEF Taken, Given
<1>2. Taken(Len(InitOf[sdDriver]))' = Taken(Len(InitOf[sdDriver]))
  BY <1>0 DEF Taken
<1>3. HaveOK'
  BY <1>0, <1>1, <1>2, ExitsComplete DEF HaveOK, Load, Unload
<1>4. SmallFilesOK'
  BY <1>0 DEF SmallFilesOK, Load, Unload, Owned, Drivers
<1> QED BY <1>0, <1>3, <1>4 DEF FaultsConfined, Load, Unload

\* A call of an init function keeps SmallInv.
LEMMA InitCallInv ==
    ASSUME SmallInv, InitCall
    PROVE  SmallInv'
<1> USE DEF SmallInv, SmallTypeOK
<1> DEFINE n == Len(InitOf[sdDriver])
<1>0. /\ n \in Nat \ {0} /\ sdPc \in Nat /\ sdPc < n
      /\ sdDriver' = sdDriver /\ sdPc' = sdPc + 1
      /\ sdHave' = sdHave \cup {InitOf[sdDriver][sdPc + 1]}
      /\ sdMod' = IF sdPc + 1 = n THEN "live" ELSE "init"
      /\ sdFault = "no" /\ sdFault' = "no" /\ sdFiles' = sdFiles /\ sdOld' = sdOld
  BY ExitsComplete DEF InitCall, Idles, HaveOK
<1>1. Taken(sdPc)' = Taken(sdPc) \cup {InitOf[sdDriver][sdPc + 1]}
  <2>1. 1 .. sdPc + 1 = (1 .. sdPc) \cup {sdPc + 1}
    BY <1>0
  <2> QED BY <1>0, <2>1 DEF Taken
<1>2. HaveOK'
  BY <1>0, <1>1 DEF HaveOK, InitCall
<1>3. SmallFilesOK'
  BY <1>0 DEF SmallFilesOK, InitCall
<1> QED BY <1>0, <1>2, <1>3 DEF FaultsConfined

\* An init function that fails keeps SmallInv.
LEMMA InitFailsInv ==
    ASSUME SmallInv, InitFails
    PROVE  SmallInv'
<1> USE DEF SmallInv, SmallTypeOK
<1>0. /\ sdMod = "init" /\ sdMod' = "out" /\ sdPc' = 0 /\ sdDriver' = sdDriver
      /\ sdHave' \subseteq sdHave
      /\ sdFault = "no" /\ sdFault' = "no" /\ sdFiles' = sdFiles /\ sdOld' = sdOld
  BY DEF InitFails, Idles
<1>1. sdDriver \in {"s3c_nor", "virt_net"}
  BY DEF InitFails, FailsAt
<1>2. sdHave \cap Switches = {}
  <2>1. InitOf[sdDriver][sdPc + 1] \in {"mtd", "netdev"}
    BY <1>1 DEF InitFails, FailsAt
  <2>2. \A i \in 1 .. Len(InitOf[sdDriver]) : InitOf[sdDriver][i] \in Switches => i = Len(InitOf[sdDriver])
    <3>1. CASE sdDriver = "s3c_nor"
      BY <3>1, CallsOf DEF Switches
    <3>2. CASE sdDriver = "virt_net"
      BY <3>2, CallsOf DEF Switches
    <3> QED BY <1>1, <3>1, <3>2
  <2>3. \A i \in 1 .. sdPc : i \in 1 .. Len(InitOf[sdDriver]) /\ i # Len(InitOf[sdDriver])
    BY <1>0, ExitsComplete DEF HaveOK
  <2> QED BY <1>0, <2>2, <2>3 DEF HaveOK, Taken
<1>3. HaveOK'
  BY <1>0, <1>2 DEF HaveOK
<1>4. SmallFilesOK'
  BY <1>0, <1>1 DEF SmallFilesOK
<1> QED BY <1>0, <1>3, <1>4 DEF FaultsConfined

\* A call of an exit function keeps SmallInv.
LEMMA ExitCallInv ==
    ASSUME SmallInv, ExitCall
    PROVE  SmallInv'
<1> USE DEF SmallInv, SmallTypeOK
<1> DEFINE n == Len(ExitOf[sdDriver])
           all == Taken(Len(InitOf[sdDriver]))
<1>0. /\ n \in Nat \ {0} /\ sdPc \in Nat /\ sdPc < n /\ sdMod = "exit"
      /\ sdDriver' = sdDriver /\ sdPc' = sdPc + 1
      /\ sdMod' = IF sdPc + 1 = n THEN "out" ELSE "exit"
      /\ sdFault = "no" /\ sdFault' = "no"
      /\ sdFiles' = IF sdPc + 1 = n THEN 0 ELSE sdFiles
      /\ sdOld' = IF sdPc + 1 = n THEN sdOld + sdFiles ELSE sdOld
  BY ExitsComplete DEF ExitCall, Idles, HaveOK
<1>1. /\ Given(sdPc)' = Given(sdPc) \cup {ExitOf[sdDriver][sdPc + 1]}
      /\ Taken(Len(InitOf[sdDriver]))' = all
  <2>1. 1 .. sdPc + 1 = (1 .. sdPc) \cup {sdPc + 1}
    BY <1>0
  <2> QED BY <1>0, <2>1 DEF Taken, Given
<1>2. /\ sdHave' \subseteq sdHave
      /\ sdHave \ {ExitOf[sdDriver][sdPc + 1]} \subseteq sdHave'
      /\ ExitOf[sdDriver][sdPc + 1] \in Switches => ExitOf[sdDriver][sdPc + 1] \notin sdHave'
  BY DEF ExitCall, Lost, Switches
<1>3. CASE sdPc + 1 # n
  <2>1. HaveOK'
    BY <1>0, <1>1, <1>2, <1>3 DEF HaveOK
  <2> QED BY <1>0, <1>3, <2>1 DEF SmallFilesOK, FaultsConfined
<1>4. CASE sdPc + 1 = n
  <2>1. \A r \in all \cap Switches : r \in Given(n)
    BY ExitsComplete DEF Taken, Given
  <2>2. Given(n) = Given(sdPc) \cup {ExitOf[sdDriver][sdPc + 1]}
    BY <1>0, <1>1, <1>4 DEF Given
  <2>3. sdHave' \cap Switches = {}
    BY <1>0, <1>2, <2>1, <2>2 DEF HaveOK
  <2>4. HaveOK'
    BY <1>0, <1>4, <2>3 DEF HaveOK
  <2>5. SmallFilesOK'
    BY <1>0, <1>4 DEF SmallFilesOK
  <2> QED BY <1>0, <1>4, <2>4, <2>5 DEF FaultsConfined
<1> QED BY <1>3, <1>4

\* Opens, closes and operations change nothing that is registered or mapped, and fault
\* only where FaultsConfined says.
LEMMA OperationsInv ==
    ASSUME SmallInv, Open \/ Close \/ Operation \/ OldFile \/ my_hard_start_xmit
    PROVE  SmallInv'
<1> USE DEF SmallInv, SmallTypeOK
<1>0. /\ sdDriver' = sdDriver /\ sdMod' = sdMod /\ sdPc' = sdPc /\ sdHave' = sdHave /\ sdOld' = sdOld
      /\ sdFault = "no"
  BY DEF Open, Close, Operation, OldFile, my_hard_start_xmit, Idles
<1>1. HaveOK'
  BY <1>0 DEF HaveOK, Taken, Given
<1>2. CASE Open
  <2>1. "dev" \in sdHave \/ "dev2" \in sdHave
    BY <1>2 DEF Open
  <2>2. sdMod # "out"
    BY <2>1, DevGone
  <2>3. sdDriver # "virt_net" /\ (sdMod = "init" => sdDriver \notin {"s3c_nand", "s3c_nor"})
    BY <1>2, <2>1, UsableLast DEF Open
  <2>4. sdMod = "exit" => sdDriver \in {"s3c_nor"}
    BY <1>2 DEF Open, Owned, Drivers
  <2>5. SmallFilesOK'
    BY <1>0, <1>2, <2>2, <2>3, <2>4 DEF Open, SmallFilesOK
  <2>6. sdFault' # "no" => sdDriver \in {"first_drv", "second_drv"} /\ sdFault' = sdMod /\ "regs" \notin sdHave
    BY <1>0, <1>2 DEF Open, Touch
  <2>7. FaultsConfined'
    BY <1>0, <2>2, <2>4, <2>6, RegsTaken DEF FaultsConfined
  <2> QED BY <1>0, <1>1, <1>2, <2>5, <2>7 DEF Open
<1>3. CASE Close
  BY <1>0, <1>1, <1>3 DEF Close, SmallFilesOK, FaultsConfined
<1>4. CASE Operation
  <2>1. sdFiles > 0 /\ sdFiles' = sdFiles
    BY <1>4 DEF Operation
  <2>2. sdFault' # "no" => /\ sdDriver \in {"first_drv", "second_drv", "s3c_nand", "s3c_nor"}
                           /\ sdFault' = sdMod /\ "regs" \notin sdHave
    BY <1>0, <1>4 DEF Operation, Touch, first_drv_write, second_drv_read, s3c_lcdfb_setcolreg,
                     s3c2440_select_chip, s3c2440_cmd_ctrl, MapAccess
  <2>3. FaultsConfined'
    BY <1>0, <2>1, <2>2, RegsTaken DEF FaultsConfined, SmallFilesOK
  <2> QED BY <1>0, <1>1, <2>1, <2>3 DEF SmallFilesOK
<1>5. CASE OldFile
  BY <1>0, <1>1, <1>5 DEF OldFile, SmallFilesOK, FaultsConfined
<1>6. CASE my_hard_start_xmit
  BY <1>0, <1>1, <1>6 DEF my_hard_start_xmit, SmallFilesOK, FaultsConfined
<1> QED BY <1>2, <1>3, <1>4, <1>5, <1>6

\* SmallInv is inductive.
THEOREM SmallInvariant == SmallSpec => []SmallInv
<1>1. SmallInit => SmallInv
  <2>1. DOMAIN InitOf = Drivers
    BY DEF InitOf, Drivers
  <2> QED BY <2>1 DEF SmallInit, SmallInv, SmallTypeOK, HaveOK, SmallFilesOK, FaultsConfined
<1>2. SmallInv /\ [SmallNext]_sdVars => SmallInv'
  <2> SUFFICES ASSUME SmallInv, [SmallNext]_sdVars PROVE SmallInv'
    OBVIOUS
  <2>1. CASE UNCHANGED sdVars
    BY <2>1 DEF sdVars, SmallInv, SmallTypeOK, HaveOK, SmallFilesOK, FaultsConfined, Taken, Given
  <2> QED BY <2>1, LoadInv, InitCallInv, InitFailsInv, ExitCallInv, OperationsInv DEF SmallNext
<1> QED BY <1>1, <1>2, PTL DEF SmallSpec

\* The seven small drivers fault only in the windows their code leaves open, for any
\* number of files of this and of earlier loads.
THEOREM SmallFaultsConfined == SmallSpec => []FaultsConfined
<1>1. SmallInv => FaultsConfined
  BY DEF SmallInv
<1> QED BY SmallInvariant, <1>1, PTL

-----------------------------------------------------------------------------
(* At24cxx.                                                                *)

CallRecords == [kind : {"read", "write"}, addr : Addresses, byte : Bytes]

At24TypeOK ==
    /\ at24Pc \in [At24Users -> {"out", "open", "posted", "onBus", "back"}]
    /\ call \in [At24Users -> CallRecords]
    /\ count \in [At24Users -> 0 .. 2]
    /\ data \in [At24Users -> Bytes]
    /\ held \in [At24Users -> SUBSET Bytes]
    /\ ret \in [At24Users -> {"none", "ok", "error"}]
    /\ DOMAIN msgs = At24Users
    /\ eeprom \in [Addresses -> Bytes]
    /\ cursor \in Addresses /\ programming \in BOOLEAN

Calling(p) == at24Pc[p] \in {"posted", "onBus", "back"}

\* The messages left of a call when n of them have been counted.
Left(c, n) ==
    IF c.kind = "read"
    THEN IF n = 0 THEN <<SetAddress(c.addr), GetByte>> ELSE IF n = 1 THEN <<GetByte>> ELSE <<>>
    ELSE IF n = 0 THEN <<PutByte(c.addr, c.byte)>> ELSE <<>>

Complete(p) == count[p] = IF call[p].kind = "read" THEN 2 ELSE 1

\* What a call that succeeds has brought or left.
Brought(p) == IF call[p].kind = "read" THEN data[p] ELSE call[p].byte

\* Between call and return: what the address holds is recorded, the transfer is as far
\* as count says, and the chip's address is the call's after the first message of a read.
CallOK(p) ==
    /\ Calling(p) => /\ eeprom[call[p].addr] \in held[p]
                     /\ msgs[p] = Left(call[p], count[p])
                     /\ ret[p] = "none"
                     /\ call[p].kind = "write" => count[p] < 2
                     /\ Complete(p) => Brought(p) \in held[p]
    /\ at24Pc[p] = "posted" => count[p] = 0
    /\ at24Pc[p] = "onBus" /\ call[p].kind = "read" /\ count[p] = 1 => cursor = call[p].addr
    /\ ret[p] = "ok" => Brought(p) \in held[p]

\* bus_lock: one transfer at a time.
OneOnBus == \A p, q \in At24Users : at24Pc[p] = "onBus" /\ at24Pc[q] = "onBus" => p = q

At24Inv == At24TypeOK /\ OneOnBus /\ \A p \in At24Users : CallOK(p)

\* The record of no call has the type of a call.
LEMMA NoCallType == NoCall \in CallRecords /\ NoCall.byte \in Bytes
<1>1. 0 \in Addresses
  BY NBytesAssumption DEF Addresses
<1>2. (CHOOSE b \in Bytes : TRUE) \in Bytes
  BY BytesAssumption
<1> QED BY <1>1, <1>2 DEF NoCall, CallRecords

\* A step that leaves chip, transfers and other processes' calls alone.
LEMMA OtherCalls ==
    ASSUME At24Inv, NEW p \in At24Users, NEW q \in At24Users, p # q,
           eeprom' = eeprom, cursor' = cursor,
           at24Pc'[q] = at24Pc[q], call'[q] = call[q], msgs'[q] = msgs[q], count'[q] = count[q],
           data'[q] = data[q], held'[q] = held[q], ret'[q] = ret[q]
    PROVE  CallOK(q)'
BY DEF At24Inv, CallOK, Calling, Complete, Brought, Left, SetAddress, GetByte, PutByte

\* Opening, closing and a call that is refused.
LEMMA IdleCallInv ==
    ASSUME At24Inv, NEW p \in At24Users,
           \/ At24Open(p) \/ At24Close(p)
           \/ at24Pc[p] = "open" /\ Refuse(p) /\ UNCHANGED <<modVars, chipVars>>
    PROVE  At24Inv'
<1> USE DEF At24Inv, At24TypeOK
<1>1. At24TypeOK' /\ OneOnBus'
  BY NoCallType DEF At24Open, At24Close, Refuse, Fails, Forget, chipVars, OneOnBus
<1>2. CallOK(p)'
  BY DEF At24Open, At24Close, Refuse, Fails, Forget, chipVars, CallOK, Calling, Complete, Brought
<1>3. ASSUME NEW q \in At24Users, q # p PROVE CallOK(q)'
  <2>1. /\ at24Pc'[q] = at24Pc[q] /\ call'[q] = call[q] /\ msgs'[q] = msgs[q] /\ count'[q] = count[q]
        /\ data'[q] = data[q] /\ held'[q] = held[q] /\ ret'[q] = ret[q]
        /\ eeprom' = eeprom /\ cursor' = cursor
    BY <1>3 DEF At24Open, At24Close, Refuse, Fails, Forget, chipVars
  <2> QED BY <1>3, <2>1, OtherCalls
<1> QED BY <1>1, <1>2, <1>3

\* A call is handed to the I2C core.
LEMMA PostInv ==
    ASSUME At24Inv, NEW p \in At24Users, NEW c \in CallRecords, at24Pc[p] = "open",
           Post(p, c, Left(c, 0)), UNCHANGED chipVars
    PROVE  At24Inv'
<1> USE DEF At24Inv, At24TypeOK
<1>0. PICK junk \in Bytes : data' = [data EXCEPT ![p] = junk]
  BY DEF Post
<1>1. At24TypeOK' /\ OneOnBus'
  BY <1>0 DEF Post, chipVars, OneOnBus, CallRecords
<1>2. CallOK(p)'
  <2>1. /\ at24Pc'[p] = "posted" /\ call'[p] = c /\ msgs'[p] = Left(c, 0) /\ count'[p] = 0
        /\ held'[p] = {eeprom[c.addr]} /\ ret'[p] = "none" /\ eeprom' = eeprom
    BY DEF Post, chipVars
  <2> QED BY <2>1 DEF CallOK, Calling, Complete
<1>3. ASSUME NEW q \in At24Users, q # p PROVE CallOK(q)'
  <2>1. /\ at24Pc'[q] = at24Pc[q] /\ call'[q] = call[q] /\ msgs'[q] = msgs[q] /\ count'[q] = count[q]
        /\ data'[q] = data[q] /\ held'[q] = held[q] /\ ret'[q] = ret[q]
        /\ eeprom' = eeprom /\ cursor' = cursor
    BY <1>0, <1>3 DEF Post, chipVars
  <2> QED BY <1>3, <2>1, OtherCalls
<1> QED BY <1>1, <1>2, <1>3

\* A call returns, with success only if the count is complete.
LEMMA ReturnInv ==
    ASSUME At24Inv, NEW p \in At24Users, ReadReturn(p) \/ WriteReturn(p)
    PROVE  At24Inv'
<1> USE DEF At24Inv, At24TypeOK
<1>0. /\ at24Pc[p] = "back" /\ at24Pc' = [at24Pc EXCEPT ![p] = "open"]
      /\ Fails(p) \/ (Complete(p) /\ Succeeds(p))
      /\ EndTransfer(p) /\ eeprom' = eeprom /\ cursor' = cursor /\ programming' = programming
  BY DEF ReadReturn, WriteReturn, Complete, chipVars
<1>1. At24TypeOK' /\ OneOnBus'
  BY <1>0, NoCallType DEF Fails, Forget, Succeeds, EndTransfer, OneOnBus
<1>2. CallOK(p)'
  <2>1. CASE Fails(p)
    BY <1>0, <2>1 DEF Fails, CallOK, Calling
  <2>2. CASE Complete(p) /\ Succeeds(p)
    <3>1. Brought(p) \in held[p]
      BY <1>0, <2>2 DEF CallOK, Calling
    <3> QED BY <1>0, <2>2, <3>1 DEF Succeeds, CallOK, Calling, Brought
  <2> QED BY <1>0, <2>1, <2>2
<1>3. ASSUME NEW q \in At24Users, q # p PROVE CallOK(q)'
  <2>1. /\ at24Pc'[q] = at24Pc[q] /\ call'[q] = call[q] /\ msgs'[q] = msgs[q] /\ count'[q] = count[q]
        /\ data'[q] = data[q] /\ held'[q] = held[q] /\ ret'[q] = ret[q]
    BY <1>0, <1>3 DEF Fails, Forget, Succeeds, EndTransfer
  <2> QED BY <1>0, <1>3, <2>1, OtherCalls
<1> QED BY <1>1, <1>2, <1>3

\* The bus is taken when it is free, and left at any time.
LEMMA BusInv ==
    ASSUME At24Inv, NEW p \in At24Users, TakeBus(p) \/ LeaveBus(p)
    PROVE  At24Inv'
<1> USE DEF At24Inv, At24TypeOK
<1>1. At24TypeOK' /\ OneOnBus'
  BY DEF TakeBus, LeaveBus, BusFree, chipVars, OneOnBus
<1>2. ASSUME NEW q \in At24Users PROVE CallOK(q)'
  BY <1>2 DEF TakeBus, LeaveBus, chipVars, CallOK, Calling, Complete, Brought, Left, SetAddress, GetByte, PutByte
<1> QED BY <1>1, <1>2

\* The message that comes next, by the kind of the call and the count.
LEMMA NextMessage ==
    ASSUME At24Inv, NEW p \in At24Users, at24Pc[p] = "onBus", msgs[p] # <<>>
    PROVE  \/ /\ call[p].kind = "read" /\ count[p] = 0
              /\ Head(msgs[p]) = SetAddress(call[p].addr) /\ Tail(msgs[p]) = Left(call[p], 1)
           \/ /\ call[p].kind = "read" /\ count[p] = 1 /\ cursor = call[p].addr
              /\ Head(msgs[p]) = GetByte /\ Tail(msgs[p]) = Left(call[p], 2)
           \/ /\ call[p].kind = "write" /\ count[p] = 0
              /\ Head(msgs[p]) = PutByte(call[p].addr, call[p].byte) /\ Tail(msgs[p]) = Left(call[p], 1)
<1>0. /\ msgs[p] = Left(call[p], count[p]) /\ count[p] \in 0 .. 2 /\ call[p].kind \in {"read", "write"}
      /\ call[p].kind = "read" /\ count[p] = 1 => cursor = call[p].addr
  BY DEF At24Inv, At24TypeOK, CallOK, Calling, CallRecords
<1>1. CASE call[p].kind = "read" /\ count[p] = 0
  BY <1>0, <1>1 DEF Left
<1>2. CASE call[p].kind = "read" /\ count[p] = 1
  BY <1>0, <1>2 DEF Left
<1>3. CASE call[p].kind = "write" /\ count[p] = 0
  BY <1>0, <1>3 DEF Left
<1>4. CASE (call[p].kind = "read" /\ count[p] = 2) \/ (call[p].kind = "write" /\ count[p] # 0)
  BY <1>0, <1>4 DEF Left
<1> QED BY <1>0, <1>1, <1>2, <1>3, <1>4

\* One message of the transfer on the bus; only a put changes what an address holds, and
\* then every call under way on it records that.
LEMMA MessageInv ==
    ASSUME At24Inv, NEW p \in At24Users, Message(p)
    PROVE  At24Inv'
<1> USE DEF At24Inv, At24TypeOK
<1> DEFINE a == call[p].addr
           m == Head(msgs[p])
<1>0. /\ at24Pc[p] = "onBus" /\ msgs[p] # <<>> /\ ChipDoes(p, m)
      /\ call' = call /\ ret' = ret /\ a \in Addresses /\ call[p].byte \in Bytes
      /\ \/ /\ count' = [count EXCEPT ![p] = @ + 1] /\ msgs' = [msgs EXCEPT ![p] = Tail(@)]
            /\ at24Pc' = at24Pc
         \/ /\ at24Pc' = [at24Pc EXCEPT ![p] = "back"] /\ count' = count /\ msgs' = msgs
  BY DEF Message, CallRecords
<1>m. /\ \A b \in Addresses : SetAddress(b).kind = "address" /\ SetAddress(b).addr = b
      /\ GetByte.kind = "get"
      /\ \A b \in Addresses, x \in Bytes :
            PutByte(b, x).kind = "put" /\ PutByte(b, x).addr = b /\ PutByte(b, x).byte = x
  BY DEF SetAddress, GetByte, PutByte
<1>n. \A b \in Addresses : (b + 1) % NBytes \in Addresses
  BY NBytesAssumption DEF Addresses
<1>o. ASSUME NEW q \in At24Users, q # p
      PROVE  /\ at24Pc[q] # "onBus" /\ at24Pc'[q] = at24Pc[q]
             /\ count'[q] = count[q] /\ msgs'[q] = msgs[q]
  BY <1>0, <1>o DEF OneOnBus
<1>p. OneOnBus'
  BY <1>0 DEF OneOnBus
<1>q. \/ at24Pc'[p] = "onBus" /\ count'[p] = count[p] + 1 /\ msgs'[p] = Tail(msgs[p])
      \/ at24Pc'[p] = "back" /\ count'[p] = count[p] /\ msgs'[p] = Left(call[p], count[p])
  BY <1>0 DEF CallOK, Calling
<1>r. count[p] \in 0 .. 1 => count' \in [At24Users -> 0 .. 2]
  BY <1>0
<1>s. ret'[p] = "none" /\ eeprom[a] \in held[p] /\ call'[p] = call[p]
  BY <1>0 DEF CallOK, Calling
<1>1. CASE call[p].kind = "read" /\ count[p] = 0 /\ m = SetAddress(a) /\ Tail(msgs[p]) = Left(call[p], 1)
  <2>1. cursor' = a /\ eeprom' = eeprom /\ programming' = programming /\ data' = data /\ held' = held
    BY <1>0, <1>1, <1>m DEF ChipDoes
  <2>2. At24TypeOK'
    BY <1>0, <1>1, <1>r, <2>1
  <2>3. CallOK(p)'
    <3>1. eeprom'[call'[p].addr] \in held'[p] /\ call'[p].kind = "read" /\ cursor' = call'[p].addr
      BY <1>1, <1>s, <2>1
    <3>2. CASE at24Pc'[p] = "onBus" /\ count'[p] = 1 /\ msgs'[p] = Left(call[p], 1)
      BY <1>s, <3>1, <3>2 DEF CallOK, Calling, Complete
    <3>3. CASE at24Pc'[p] = "back" /\ count'[p] = 0 /\ msgs'[p] = Left(call[p], 0)
      BY <1>s, <3>1, <3>3 DEF CallOK, Calling, Complete
    <3>5. 0 + 1 = 1
      OBVIOUS
    <3>6. \/ at24Pc'[p] = "onBus" /\ count'[p] = 1 /\ msgs'[p] = Left(call[p], 1)
          \/ at24Pc'[p] = "back" /\ count'[p] = 0 /\ msgs'[p] = Left(call[p], 0)
      BY <1>1, <1>q, <3>5, Zenon
    <3> QED BY <3>2, <3>3, <3>6, Zenon
  <2>4. ASSUME NEW q \in At24Users, q # p PROVE CallOK(q)'
    BY <1>0, <1>o, <2>1, <2>4 DEF CallOK, Calling, Complete, Brought
  <2> QED BY <1>p, <2>2, <2>3, <2>4
<1>2. CASE /\ call[p].kind = "read" /\ count[p] = 1 /\ cursor = a
           /\ m = GetByte /\ Tail(msgs[p]) = Left(call[p], 2)
  <2>1. /\ cursor' = (cursor + 1) % NBytes /\ eeprom' = eeprom /\ programming' = programming
        /\ data' = [data EXCEPT ![p] = eeprom[a]] /\ held' = held
    BY <1>0, <1>2, <1>m DEF ChipDoes
  <2>2. At24TypeOK'
    <3>1. cursor' \in Addresses /\ eeprom[a] \in Bytes
      BY <1>0, <1>n, <2>1
    <3> QED BY <1>0, <1>2, <1>r, <2>1, <3>1
  <2>3. CallOK(p)'
    <3>1. eeprom'[call'[p].addr] \in held'[p] /\ call'[p].kind = "read" /\ data'[p] \in held'[p]
      BY <1>2, <1>s, <2>1
    <3>2. CASE at24Pc'[p] = "onBus" /\ count'[p] = 2 /\ msgs'[p] = Left(call[p], 2)
      BY <1>s, <3>1, <3>2 DEF CallOK, Calling, Complete, Brought
    <3>3. CASE at24Pc'[p] = "back" /\ count'[p] = 1 /\ msgs'[p] = Left(call[p], 1)
      BY <1>s, <3>1, <3>3 DEF CallOK, Calling, Complete, Brought
    <3>5. 1 + 1 = 2
      OBVIOUS
    <3>6. \/ at24Pc'[p] = "onBus" /\ count'[p] = 2 /\ msgs'[p] = Left(call[p], 2)
          \/ at24Pc'[p] = "back" /\ count'[p] = 1 /\ msgs'[p] = Left(call[p], 1)
      BY <1>2, <1>q, <3>5, Zenon
    <3> QED BY <3>2, <3>3, <3>6, Zenon
  <2>4. ASSUME NEW q \in At24Users, q # p PROVE CallOK(q)'
    BY <1>0, <1>o, <2>1, <2>4 DEF CallOK, Calling, Complete, Brought
  <2> QED BY <1>p, <2>2, <2>3, <2>4
<1>3. CASE /\ call[p].kind = "write" /\ count[p] = 0
           /\ m = PutByte(a, call[p].byte) /\ Tail(msgs[p]) = Left(call[p], 1)
  <2>1. /\ cursor' = (a + 1) % NBytes /\ eeprom' = [eeprom EXCEPT ![a] = call[p].byte]
        /\ programming' = TRUE /\ data' = data
        /\ held' = [q \in At24Users |-> IF Calling(q) /\ call[q].addr = a
                                        THEN held[q] \cup {call[p].byte} ELSE held[q]]
    BY <1>0, <1>3, <1>m DEF ChipDoes, Calling
  <2>2. At24TypeOK'
    BY <1>0, <1>3, <1>n, <1>r, <2>1
  <2>3. \A q \in At24Users : held[q] \subseteq held'[q]
    BY <2>1
  <2>4. \A q \in At24Users : Calling(q) => eeprom'[call[q].addr] \in held'[q]
    <3> SUFFICES ASSUME NEW q \in At24Users, Calling(q) PROVE eeprom'[call[q].addr] \in held'[q]
      OBVIOUS
    <3>1. eeprom[call[q].addr] \in held[q] /\ call[q].addr \in Addresses
      BY DEF CallOK, CallRecords
    <3> QED BY <1>0, <2>1, <2>3, <3>1
  <2>5. CallOK(p)'
    <3>1. call[p].byte \in held'[p] /\ Calling(p)
      BY <1>0, <2>1 DEF Calling
    <3>2. eeprom'[call'[p].addr] \in held'[p] /\ call'[p].kind = "write" /\ call'[p].byte \in held'[p]
      BY <1>3, <1>s, <2>4, <3>1
    <3>3. CASE at24Pc'[p] = "onBus" /\ count'[p] = 1 /\ msgs'[p] = Left(call[p], 1)
      BY <1>s, <3>2, <3>3 DEF CallOK, Calling, Complete, Brought
    <3>4. CASE at24Pc'[p] = "back" /\ count'[p] = 0 /\ msgs'[p] = Left(call[p], 0)
      BY <1>s, <3>2, <3>4 DEF CallOK, Calling, Complete, Brought
    <3>5. 0 + 1 = 1
      OBVIOUS
    <3>6. \/ at24Pc'[p] = "onBus" /\ count'[p] = 1 /\ msgs'[p] = Left(call[p], 1)
          \/ at24Pc'[p] = "back" /\ count'[p] = 0 /\ msgs'[p] = Left(call[p], 0)
      BY <1>3, <1>q, <3>5, Zenon
    <3> QED BY <3>3, <3>4, <3>6, Zenon
  <2>6. ASSUME NEW q \in At24Users, q # p PROVE CallOK(q)'
    BY <1>0, <1>o, <2>1, <2>3, <2>4, <2>6 DEF CallOK, Calling, Complete, Brought
  <2> QED BY <1>p, <2>2, <2>5, <2>6
<1> QED BY <1>0, <1>1, <1>2, <1>3, NextMessage

\* At24Inv is inductive.
THEOREM At24Invariant == At24Spec => []At24Inv
<1>1. At24Init => At24Inv
  <2> SUFFICES ASSUME At24Init PROVE At24Inv
    OBVIOUS
  <2>1. 0 \in Addresses
    BY NBytesAssumption DEF Addresses
  <2>2. At24TypeOK
    <3>1. call \in [At24Users -> CallRecords] /\ data \in [At24Users -> Bytes]
      BY NoCallType DEF At24Init
    <3>2. DOMAIN msgs = At24Users /\ count \in [At24Users -> 0 .. 2]
      BY DEF At24Init
    <3> QED BY <2>1, <3>1, <3>2 DEF At24Init, At24TypeOK
  <2>3. OneOnBus /\ \A p \in At24Users : CallOK(p)
    BY DEF At24Init, OneOnBus, CallOK, Calling
  <2> QED BY <2>2, <2>3 DEF At24Inv
<1>2. At24Inv /\ [At24Next]_at24Vars => At24Inv'
  <2> SUFFICES ASSUME At24Inv, [At24Next]_at24Vars PROVE At24Inv'
    OBVIOUS
  <2>1. CASE at24cxx_init \/ at24cxx_detect \/ at24cxx_exit \/ at24cxx_detach_client \/ UNCHANGED at24Vars
    <3>1. UNCHANGED <<chipVars, callVars>>
      BY <2>1 DEF at24cxx_init, at24cxx_detect, DetectClient, DetectChrdev, DetectClass, at24cxx_exit,
                  at24cxx_detach_client, at24Vars
    <3> QED BY <3>1 DEF chipVars, callVars, At24Inv, At24TypeOK, OneOnBus, CallOK, Calling, Complete, Brought
  <2>2. CASE ProgrammingEnds
    BY <2>2 DEF ProgrammingEnds, callVars, At24Inv, At24TypeOK, OneOnBus, CallOK, Calling, Complete, Brought
  <2>3. ASSUME NEW p \in At24Users, at24cxx_read(p) PROVE At24Inv'
    <3>1. CASE ReadReturn(p)
      BY <3>1, ReturnInv
    <3>2. CASE at24Pc[p] = "open" /\ Refuse(p) /\ UNCHANGED <<modVars, chipVars>>
      BY <3>2, IdleCallInv
    <3>3. ASSUME NEW a \in Addresses, at24Pc[p] = "open", UNCHANGED chipVars,
                 Post(p, [kind |-> "read", addr |-> a, byte |-> NoCall.byte], <<SetAddress(a), GetByte>>)
          PROVE  At24Inv'
      <4> DEFINE c == [kind |-> "read", addr |-> a, byte |-> NoCall.byte]
      <4>1. c \in CallRecords /\ Left(c, 0) = <<SetAddress(a), GetByte>>
        BY NoCallType DEF CallRecords, Left
      <4> QED BY <3>3, <4>1, PostInv
    <3> QED BY <2>3, <3>1, <3>2, <3>3 DEF at24cxx_read, ReadCall
  <2>4. ASSUME NEW p \in At24Users, at24cxx_write(p) PROVE At24Inv'
    <3>1. CASE WriteReturn(p)
      BY <3>1, ReturnInv
    <3>2. CASE at24Pc[p] = "open" /\ Refuse(p) /\ UNCHANGED <<modVars, chipVars>>
      BY <3>2, IdleCallInv
    <3>3. ASSUME NEW a \in Addresses, NEW b \in Bytes, at24Pc[p] = "open", UNCHANGED chipVars,
                 Post(p, [kind |-> "write", addr |-> a, byte |-> b], <<PutByte(a, b)>>)
          PROVE  At24Inv'
      <4> DEFINE c == [kind |-> "write", addr |-> a, byte |-> b]
      <4>1. c \in CallRecords /\ Left(c, 0) = <<PutByte(a, b)>>
        BY DEF CallRecords, Left
      <4> QED BY <3>3, <4>1, PostInv
    <3> QED BY <2>4, <3>1, <3>2, <3>3 DEF at24cxx_write, WriteCall
  <2>5. ASSUME NEW p \in At24Users,
               At24Open(p) \/ At24Close(p) \/ TakeBus(p) \/ Message(p) \/ LeaveBus(p)
        PROVE  At24Inv'
    BY <2>5, IdleCallInv, BusInv, MessageInv
  <2> QED BY <2>1, <2>2, <2>3, <2>4, <2>5 DEF At24Next
<1> QED BY <1>1, <1>2, PTL DEF At24Spec

\* A call that reports success took effect between call and return, for any number of
\* processes and bytes (at24cxx_read, at24cxx_write).
THEOREM At24CallsTakeEffect == At24Spec => []CallsTakeEffect
<1>1. At24Inv => CallsTakeEffect
  BY DEF At24Inv, CallOK, Brought, CallsTakeEffect
<1> QED BY At24Invariant, <1>1, PTL
=============================================================================
