----------------------------- MODULE MCDevices -----------------------------
(* TLC instance of the drivers that share nothing with each other: each    *)
(* behaviour is one of RamBlock, LedPlatform, At24cxx or SmallDrivers,     *)
(* chosen at the start, while the others stay unloaded.                    *)
EXTENDS RamBlock, LedPlatform, At24cxx, SmallDrivers

VARIABLE device

devicesVars == <<device, rbVars, ledVars, at24Vars, sdVars>>

DevicesInit ==
    /\ device \in {"ramblock", "led", "at24cxx", "small"}
    /\ RamInit /\ LedInit /\ At24Init /\ SmallInit
    /\ device # "led" => con = "input" /\ dat = 0
    /\ device # "at24cxx" => eeprom = [a \in Addresses |-> NoCall.byte]
    /\ device # "small" => sdDriver = "hello"

RamStep ==
    /\ device = "ramblock" /\ RamNext
    /\ UNCHANGED <<device, ledVars, at24Vars, sdVars>>

LedStep ==
    /\ device = "led" /\ LedNext
    /\ UNCHANGED <<device, rbVars, at24Vars, sdVars>>

At24Step ==
    /\ device = "at24cxx" /\ At24Next
    /\ UNCHANGED <<device, rbVars, ledVars, sdVars>>

SmallStep ==
    /\ device = "small" /\ SmallNext
    /\ UNCHANGED <<device, rbVars, ledVars, at24Vars>>

DevicesNext == RamStep \/ LedStep \/ At24Step \/ SmallStep

DevicesSpec == DevicesInit /\ [][DevicesNext]_devicesVars

=============================================================================
