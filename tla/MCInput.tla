------------------------------- MODULE MCInput -------------------------------
(* TLC instance of the three drivers that report to the input core.  They  *)
(* share nothing, so each behaviour is one of them, chosen at the start,   *)
(* while the others stay unloaded and their inputs still.                  *)
EXTENDS Buttons, TouchScreen, UsbMouse

VARIABLE inputDriver

inputVars == <<inputDriver, buttonsVars, touchVars, usbVars>>

InputInit ==
    /\ inputDriver \in {"buttons", "s3c_ts", "usbmouse"}
    /\ ButtonsInit /\ TouchInit /\ UsbInit
    /\ inputDriver # "buttons" => pin = [k \in Keys |-> 1]
    /\ inputDriver # "s3c_ts" => ~pen /\ ~tclevel

ButtonsStep ==
    /\ inputDriver = "buttons" /\ ButtonsNext
    /\ UNCHANGED <<inputDriver, touchVars, usbVars>>

TouchStep ==
    /\ inputDriver = "s3c_ts" /\ TouchNext
    /\ UNCHANGED <<inputDriver, buttonsVars, usbVars>>

UsbStep ==
    /\ inputDriver = "usbmouse" /\ UsbNext
    /\ UNCHANGED <<inputDriver, buttonsVars, touchVars>>

InputNext == ButtonsStep \/ TouchStep \/ UsbStep

\* The actions that are fair are disabled while their driver is unloaded.
InputFairSpec ==
    /\ InputInit /\ [][InputNext]_inputVars
    /\ ButtonsFairness /\ TouchFairness /\ UsbFairness
=============================================================================
