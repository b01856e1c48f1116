---------------------------- MODULE SmallDrivers ----------------------------
(***************************************************************************)
(* The drivers that are little more than their load and unload: first_drv  *)
(* (LEDs), second_drv (polled keys), 10th_lcd, 14th_nand, 15th_nor,        *)
(* 16th_virt_net and 20th_chrdev_another (hello).  One of them, sdDriver,  *)
(* in each behaviour.                                                      *)
(*                                                                         *)
(* Init and exit are sequences of calls that take and give up what the     *)
(* operations need; processes use the device between any two of them.      *)
(* rmmod is refused while a file holds the module, and a module on its way *)
(* out cannot be opened (external: sys_delete_module, try_module_get).     *)
(* An operation that finds its registers or its code gone is a fault.      *)
(* Allocations and registrations whose result the code ignores succeed.    *)
(***************************************************************************)
EXTENDS Integers, Sequences

CONSTANTS MaxFiles,    \* bound: files open at a time
          SendBuffer   \* virt_net: frames a socket may have under way

ASSUME SmallAssumption == {MaxFiles, SendBuffer} \subseteq Nat

VARIABLES sdDriver,    \* the driver's name
          sdMod,       \* "out", "init", "live" or "exit"
          sdPc,        \* calls of the init or exit done
          sdHave,      \* what is registered, mapped, allocated or switched on
          sdFiles,     \* files open, of this load ...
          sdOld,       \* ... and of earlier ones
          sdReg,       \* what the operations have left in the device
          sdFault      \* "no", or sdMod when an operation met the fault

sdVars == <<sdDriver, sdMod, sdPc, sdHave, sdFiles, sdOld, sdReg, sdFault>>

-----------------------------------------------------------------------------
(* What each init takes and each exit gives up, call by call.  "dev" is    *)
(* what makes the device usable.                                           *)

first_drv_init == <<"dev", "class", "node", "regs">>
first_drv_exit == <<"dev", "node", "class", "regs">>

second_drv_init == <<"dev", "class", "node", "regs">>
second_drv_exit == <<"dev", "node", "class", "regs">>

\* "vram" is the buffer screen_base shows to the framebuffer's clients.  The controller
\* (lcdcon1 bit 0) does not fetch from it: lcdsaddr1 and lcdsaddr2 are set to fixed
\* addresses, the lines that use smem_start being commented out.  lcdcon5 bit 3 switches
\* the panel on; exit clears bit 3 of lcdcon1 instead, so the panel stays on.
lcd_init == <<"info", "gpio", "regs", "vram", "controller", "panel", "dev">>

lcd_exit == <<"dev", "controller", "vram", "regs", "gpio", "info">>

\* The clock is never switched off again.
s3c_nand_init == <<"chip", "regs", "clock", "mtd", "dev">>
s3c_nand_exit == <<"regs", "dev", "chip", "mtd">>

\* The mtd_info of do_map_probe is never given back.
s3c_nor_init == <<"map", "regs", "mtd", "dev">>
s3c_nor_exit == <<"map", "regs", "dev">>

virt_net_init == <<"netdev", "dev">>
virt_net_exit == <<"dev", "netdev">>

\* "dev" is the cdev of minors 0 and 1, "dev2" that of minor 3.
hello_init == <<"region", "dev", "region2", "dev2", "class", "nodes">>
hello_exit == <<"nodes", "class", "dev", "dev2", "region", "region2">>

InitOf == [first_drv |-> first_drv_init, second_drv |-> second_drv_init, lcd |-> lcd_init,
           s3c_nand |-> s3c_nand_init, s3c_nor |-> s3c_nor_init,
           virt_net |-> virt_net_init, hello |-> hello_init]
ExitOf == [first_drv |-> first_drv_exit, second_drv |-> second_drv_exit, lcd |-> lcd_exit,
           s3c_nand |-> s3c_nand_exit, s3c_nor |-> s3c_nor_exit,
           virt_net |-> virt_net_exit, hello |-> hello_exit]

\* A load that can fail, and the call it fails at: alloc_netdev and the two map probes.
FailsAt == [s3c_nor |-> "mtd", virt_net |-> "netdev"]

\* Mutant: the file operations without .owner.
Owned_Forgotten == {"lcd", "s3c_nand"}

\* Drivers whose files hold their module: .owner of the file_operations, the fb_ops and
\* the mtd_info; s3c_nor sets none.
Owned == {"first_drv", "second_drv", "lcd", "s3c_nand", "hello"}

-----------------------------------------------------------------------------
Idles == sdFault = "no"

Load ==
    /\ Idles /\ sdMod = "out"
    /\ sdMod' = "init" /\ sdPc' = 0
    /\ UNCHANGED <<sdDriver, sdHave, sdFiles, sdOld, sdReg, sdFault>>

InitCall ==
    /\ Idles /\ sdMod = "init"
    /\ LET calls == InitOf[sdDriver]
       IN  /\ sdHave' = sdHave \cup {calls[sdPc + 1]}
           /\ sdPc' = sdPc + 1
           /\ sdMod' = IF sdPc + 1 = Len(calls) THEN "live" ELSE "init"
    /\ UNCHANGED <<sdDriver, sdFiles, sdOld, sdReg, sdFault>>

\* s3c_nor reads the address to unmap from the map it has just freed, so the mapping
\* may stay.
Lost(r) == {{r}} \cup (IF sdDriver = "s3c_nor" /\ r = "regs" THEN {{}} ELSE {})

\* The failed init gives up what it took.
InitFails ==
    /\ Idles /\ sdMod = "init"
    /\ sdDriver \in DOMAIN FailsAt /\ InitOf[sdDriver][sdPc + 1] = FailsAt[sdDriver]
    /\ sdMod' = "out" /\ sdPc' = 0
    /\ \E lost \in Lost("regs") : sdHave' = sdHave \ ({"map"} \cup lost)
    /\ UNCHANGED <<sdDriver, sdFiles, sdOld, sdReg, sdFault>>

Unload ==
    /\ Idles /\ sdMod = "live" /\ (sdDriver \in Owned => sdFiles = 0)
    /\ sdMod' = "exit" /\ sdPc' = 0
    /\ UNCHANGED <<sdDriver, sdHave, sdFiles, sdOld, sdReg, sdFault>>

\* unregister_netdev closes the interface; a file of a driver that is not its owner's
\* stays behind.
ExitCall ==
    /\ Idles /\ sdMod = "exit"
    /\ LET calls == ExitOf[sdDriver]
           last  == sdPc + 1 = Len(calls)
       IN  /\ \E lost \in Lost(calls[sdPc + 1]) : sdHave' = sdHave \ lost
           /\ sdPc' = sdPc + 1
           /\ sdMod' = IF last THEN "out" ELSE "exit"
           /\ sdOld' = IF last THEN sdOld + sdFiles ELSE sdOld
           /\ sdFiles' = IF last THEN 0 ELSE sdFiles
    /\ UNCHANGED <<sdDriver, sdReg, sdFault>>

-----------------------------------------------------------------------------
(* Operations.                                                             *)

\* An operation that touches the registers: `values' are what it may leave in sdReg.
Touch(values) ==
    IF "regs" \in sdHave THEN sdReg' \in values /\ UNCHANGED sdFault
    ELSE sdFault' = sdMod /\ UNCHANGED sdReg

\* first_drv_open and second_drv_open set the mode of the pins; hello says which of
\* its two open functions ran.
Open ==
    /\ Idles /\ sdDriver # "virt_net" /\ sdFiles + sdOld < MaxFiles
    /\ sdDriver \in Owned => sdMod # "exit"
    /\ \/ "dev" \in sdHave
          /\ IF sdDriver \in {"first_drv", "second_drv"} THEN Touch({sdReg})
             ELSE sdReg' = (IF sdDriver = "hello" THEN "hello_open" ELSE sdReg) /\ UNCHANGED sdFault
       \/ "dev2" \in sdHave /\ sdReg' = "hello2_open" /\ UNCHANGED sdFault
    /\ sdFiles' = sdFiles + 1
    /\ UNCHANGED <<sdDriver, sdMod, sdPc, sdHave, sdOld>>

Close ==
    /\ Idles /\ sdFiles > 0 /\ sdFiles' = sdFiles - 1
    /\ UNCHANGED <<sdDriver, sdMod, sdPc, sdHave, sdOld, sdReg, sdFault>>

\* val = 1 lights the four LEDs; a failed copy_from_user leaves val to the stack.
first_drv_write == sdDriver = "first_drv" /\ Touch({"lit", "dark"})

\* The levels of the six keys, or -EINVAL for another size.
second_drv_read == sdDriver = "second_drv" /\ (Touch({"keys"}) \/ UNCHANGED <<sdReg, sdFault>>)

\* fb_set_cmap and the console set any entry; those above 16 are refused, and 16 is
\* the word after pseudo_palette.
s3c_lcdfb_setcolreg ==
    /\ sdDriver = "lcd"
    /\ \E regno \in {0, 15, 16, 17} :
         sdReg' = IF regno > 16 THEN sdReg ELSE IF regno < 16 THEN "palette" ELSE "beyond"
    /\ UNCHANGED sdFault

\* s3c2440_select_chip, s3c2440_cmd_ctrl and s3c2440_dev_ready.
s3c2440_select_chip == sdDriver = "s3c_nand" /\ Touch({"selected", "deselected"})
s3c2440_cmd_ctrl == sdDriver = "s3c_nand" /\ (Touch({sdReg}) \/ UNCHANGED <<sdReg, sdFault>>)

\* A read or write through the map (simple_map_init).
MapAccess == sdDriver = "s3c_nor" /\ Touch({"array"})

Operation ==
    /\ Idles /\ sdFiles > 0
    /\ \/ first_drv_write \/ second_drv_read \/ s3c_lcdfb_setcolreg
       \/ s3c2440_select_chip \/ s3c2440_cmd_ctrl \/ MapAccess
    /\ UNCHANGED <<sdDriver, sdMod, sdPc, sdHave, sdFiles, sdOld>>

\* A file of an earlier load goes through freed operations.
OldFile ==
    /\ Idles /\ sdOld > 0
    /\ sdFault' = sdMod
    /\ UNCHANGED <<sdDriver, sdMod, sdPc, sdHave, sdFiles, sdOld, sdReg>>

\* The frame is counted (sdReg; tx_bytes is only the last one's length) and never freed,
\* so the socket's send buffer stays charged.
my_hard_start_xmit ==
    /\ Idles /\ sdDriver = "virt_net" /\ "dev" \in sdHave /\ sdReg < SendBuffer
    /\ sdReg' = sdReg + 1
    /\ UNCHANGED <<sdDriver, sdMod, sdPc, sdHave, sdFiles, sdOld, sdFault>>

-----------------------------------------------------------------------------
SmallInit ==
    /\ sdDriver \in DOMAIN InitOf
    /\ sdMod = "out" /\ sdPc = 0 /\ sdHave = {} /\ sdFiles = 0 /\ sdOld = 0
    /\ sdReg = IF sdDriver = "virt_net" THEN 0 ELSE "unset"
    /\ sdFault = "no"

SmallNext ==
    \/ Load \/ InitCall \/ InitFails \/ Unload \/ ExitCall
    \/ Open \/ Close \/ Operation \/ OldFile \/ my_hard_start_xmit

SmallSpec == SmallInit /\ [][SmallNext]_sdVars

-----------------------------------------------------------------------------
\* A driver whose init is complete and whose exit has not begun never faults, whatever
\* files were opened before, between or across loads.  first_drv and second_drv can
\* fault during init, where register_chrdev comes before ioremap; s3c_nor, which does
\* not own its files, once it is unloaded; and the others never, though s3c_nand_exit
\* unmaps the registers before it deletes the partitions.
FaultsConfined ==
    sdFault # "no" => \/ sdDriver \in {"first_drv", "second_drv"} /\ sdFault = "init"
                      \/ sdDriver = "s3c_nor" /\ (sdFault = "exit" \/ sdOld > 0)
=============================================================================
