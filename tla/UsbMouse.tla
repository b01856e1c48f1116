------------------------------ MODULE UsbMouse ------------------------------
(***************************************************************************)
(* 12th_usbmouse_as_key/usbmouse_as_key.c: a USB mouse whose buttons are   *)
(* reported as keys.  Probe allocates an input device, a buffer and a URB  *)
(* and submits the URB; each completion reports the buttons that changed   *)
(* and submits the URB again; disconnect kills the URB and frees it all,   *)
(* the input device twice.                                                 *)
(*                                                                         *)
(* The driver keeps one static pointer to each object, whatever the number *)
(* of mice.  Objects are named by the mouse they were allocated for.  The  *)
(* hub thread does one probe or disconnect at a time; completions come at  *)
(* any point of it, and each is one step (interrupt, uniprocessor).        *)
(***************************************************************************)
EXTENDS Integers, FiniteSets

CONSTANTS
    Mice,
    NButtons,   \* bits of usb_buf[1] the driver looks at (3 in the code)
    MaxPlugs    \* bound on how often a mouse is put in

ASSUME NButtonsAssumption == NButtons \in Nat \ {0}
ASSUME MaxPlugsAssumption == MaxPlugs \in Nat

VARIABLES
    usbMod,         \* "out", "in" (registered with the USB core) or "leaving"
    plugged,        \* mice in a port
    plugs,          \* how often a mouse has been put in
    hw,             \* hw[m]: buttons held down
    fresh,          \* mice with a change they have not sent
    drv,            \* drv[m]: how far m's probe or disconnect has come; "crashed" at l. 140
    urb,            \* urb[m]: the URB allocated for m: "none", "idle" or "active"
    buf,            \* buf[m]: usb_buf[1] of m's buffer, Unfilled, or NoBuffer
    usbInput,       \* mice whose input device is registered
    keys,           \* keys[m]: keys that are down in the input core
    uk_input_dev, usb_buf, uk_urb,      \* the static pointers: a mouse, or NULL
    pre_val,        \* the static pre_val
    rejecting,      \* mice whose URB is being killed
    astray,         \* history: an error the driver does not look at, or two mice at once
    stale,          \* history: the mouse in use began with another's pre_val or an unfilled buffer
    usbFault        \* freed or NULL memory was used

busVars == <<plugged, plugs, hw, fresh>>
objVars == <<urb, buf, usbInput, keys>>
ptrVars == <<uk_input_dev, usb_buf, uk_urb>>
usbVars == <<usbMod, busVars, drv, objVars, ptrVars, pre_val, rejecting, astray, stale, usbFault>>

ButtonBits == 1 .. NButtons
NULL == "NULL"

\* No mouse is the null pointer.
ASSUME MiceAssumption == NULL \notin Mice

NoBuffer == {0}
Unfilled == {-1}

\* The hub thread is not in a probe or disconnect.
HubFree == ~usbFault /\ \A m \in Mice : drv[m] \in {"unbound", "refused", "bound"}

-----------------------------------------------------------------------------
(* Mice.                                                                   *)

Plug(m) ==
    /\ ~usbFault
    /\ m \notin plugged
    /\ drv[m] = "unbound"
    /\ plugs < MaxPlugs
    /\ plugs' = plugs + 1
    /\ plugged' = plugged \cup {m}
    /\ hw' \in {[hw EXCEPT ![m] = v] : v \in SUBSET ButtonBits}
    /\ fresh' = IF hw'[m] = {} THEN fresh ELSE fresh \cup {m}
    /\ UNCHANGED <<usbMod, drv, objVars, ptrVars, pre_val, rejecting, astray, stale, usbFault>>

Press(m, b) ==
    /\ ~usbFault
    /\ m \in plugged
    /\ hw' = [hw EXCEPT ![m] = IF b \in @ THEN @ \ {b} ELSE @ \cup {b}]
    /\ fresh' = fresh \cup {m}
    /\ UNCHANGED <<usbMod, plugged, plugs, drv, objVars, ptrVars, pre_val, rejecting, astray, stale, usbFault>>

Unplug(m) ==
    /\ ~usbFault
    /\ m \in plugged
    /\ plugged' = plugged \ {m}
    /\ fresh' = fresh \ {m}
    /\ hw' = [hw EXCEPT ![m] = {}]
    /\ drv' = [drv EXCEPT ![m] = IF @ = "refused" THEN "unbound" ELSE @]
    /\ UNCHANGED <<usbMod, plugs, objVars, ptrVars, pre_val, rejecting, astray, stale, usbFault>>

-----------------------------------------------------------------------------
(* Load and unload.                                                        *)

\* l. 151-159.  insmod gives the module fresh static data.
usbmouse_as_key_init ==
    /\ HubFree
    /\ usbMod = "out"
    /\ usbMod' = "in"
    /\ uk_input_dev' = NULL /\ usb_buf' = NULL /\ uk_urb' = NULL
    /\ pre_val' = {}
    /\ UNCHANGED <<busVars, drv, objVars, rejecting, astray, stale, usbFault>>

\* l. 161-164: usb_deregister disconnects every mouse and then returns.
usbmouse_as_key_exit ==
    /\ HubFree
    /\ \/ usbMod = "in" /\ usbMod' = "leaving"
       \/ usbMod = "leaving" /\ usbMod' = "out" /\ \A m \in Mice : drv[m] # "bound"
    /\ UNCHANGED <<busVars, drv, objVars, ptrVars, pre_val, rejecting, astray, stale, usbFault>>

-----------------------------------------------------------------------------
(* usbmouse_as_key_probe.                                                  *)

\* l. 79-103: allocate and register the input device, or refuse the mouse.
ProbeInput(m) ==
    /\ HubFree
    /\ usbMod = "in"
    /\ m \in plugged
    /\ drv[m] = "unbound"
    /\ astray' = (astray \/ \E q \in Mice : drv[q] = "bound")
    /\ stale' = (pre_val # {})
    /\ \/ /\ drv' = [drv EXCEPT ![m] = "input"]
          /\ uk_input_dev' = m
          /\ usbInput' = usbInput \cup {m}
          /\ keys' = [keys EXCEPT ![m] = {}]
       \/ /\ drv' = [drv EXCEPT ![m] = "refused"]
          /\ uk_input_dev' \in {NULL, m}
          /\ UNCHANGED <<usbInput, keys>>
    /\ UNCHANGED <<usbMod, busVars, urb, buf, usb_buf, uk_urb, pre_val, rejecting, usbFault>>

\* l. 107-113: usb_buffer_alloc, whose failure nobody looks at.
ProbeBuffer(m) ==
    /\ ~usbFault
    /\ drv[m] = "input"
    /\ drv' = [drv EXCEPT ![m] = "buffer"]
    /\ \/ usb_buf' = m /\ buf' = [buf EXCEPT ![m] = Unfilled] /\ astray' = astray
       \/ usb_buf' = NULL /\ buf' = [buf EXCEPT ![m] = NoBuffer] /\ astray' = TRUE
    /\ UNCHANGED <<usbMod, busVars, urb, usbInput, keys, uk_input_dev, uk_urb, pre_val, rejecting, stale, usbFault>>

\* l. 117-127: allocate, fill and submit the URB.  Without a URB the probe fails
\* and leaves the input device and the buffer behind.
ProbeUrb(m) ==
    /\ ~usbFault
    /\ drv[m] = "buffer"
    /\ \/ /\ drv' = [drv EXCEPT ![m] = "refused"]
          /\ uk_urb' = NULL
          /\ UNCHANGED <<urb, astray>>
       \/ /\ drv' = [drv EXCEPT ![m] = "bound"]
          /\ uk_urb' = m
          /\ urb' = [urb EXCEPT ![m] = "active"]
          /\ astray' = astray
       \/ /\ drv' = [drv EXCEPT ![m] = "bound"]
          /\ uk_urb' = m
          /\ urb' = [urb EXCEPT ![m] = "idle"]
          /\ astray' = TRUE
    /\ UNCHANGED <<usbMod, busVars, buf, usbInput, keys, uk_input_dev, usb_buf, pre_val, rejecting, stale, usbFault>>

usbmouse_as_key_probe(m) == ProbeInput(m) \/ ProbeBuffer(m) \/ ProbeUrb(m)

-----------------------------------------------------------------------------
(* usb_mouse_as_key_irq.                                                   *)

\* l. 43-62: report the buttons in which v differs from pre_val.
Report(v) ==
    LET changed == (pre_val \ v) \cup (v \ pre_val)
    IN  keys' = [keys EXCEPT ![uk_input_dev] = (@ \ changed) \cup (v \cap changed)]

\* Mutant: the URB is not submitted again.
Resubmit_Forgotten(m) ==
    /\ urb' = [urb EXCEPT ![m] = "idle"]
    /\ astray' = astray

\* l. 67: usb_submit_urb(uk_urb) from the completion of m's URB.  It is refused
\* for a URB that is being killed or is active, and for want of memory.
Resubmit(m) ==
    \/ /\ uk_urb \in Mice \ rejecting
       /\ urb' = [urb EXCEPT ![m] = "idle", ![uk_urb] = "active"]
       /\ astray' = astray
    \/ /\ urb' = [urb EXCEPT ![m] = "idle"]
       /\ astray' = (astray \/ uk_urb \notin rejecting)

\* The memory the handler will use is there.
Sane ==
    /\ usb_buf \in Mice /\ buf[usb_buf] # NoBuffer
    /\ uk_input_dev \in usbInput
    /\ uk_urb \in Mice /\ urb[uk_urb] # "none"

\* Mutant: pre_val is not updated.
usb_mouse_as_key_irq_KeepPreVal(m, content) ==
    /\ Sane
    /\ \E v \in IF content[usb_buf] = Unfilled THEN SUBSET ButtonBits ELSE {content[usb_buf]} :
          /\ Report(v)
          /\ buf' = [content EXCEPT ![usb_buf] = v]
    /\ stale' = (stale \/ content[usb_buf] = Unfilled)
    /\ Resubmit(m)
    /\ UNCHANGED <<pre_val, usbFault>>

\* The handler, with the buffers as the transfer has left them.  It does not
\* look at the status; a buffer nobody has filled holds anything.
usb_mouse_as_key_irq(m, content) ==
    \/ /\ Sane
       /\ \E v \in IF content[usb_buf] = Unfilled THEN SUBSET ButtonBits ELSE {content[usb_buf]} :
             /\ Report(v)
             /\ pre_val' = v
             /\ buf' = [content EXCEPT ![usb_buf] = v]
       /\ stale' = (stale \/ content[usb_buf] = Unfilled)
       /\ Resubmit(m)
       /\ UNCHANGED usbFault
    \/ /\ ~Sane
       /\ usbFault' = TRUE
       /\ UNCHANGED <<objVars, pre_val, astray, stale>>

\* m's URB completes with what the mouse has to send.
Packet(m) ==
    /\ ~usbFault
    /\ urb[m] = "active"
    /\ m \in fresh
    /\ fresh' = fresh \ {m}
    /\ usb_mouse_as_key_irq(m, [buf EXCEPT ![m] = IF @ = NoBuffer THEN @ ELSE hw[m]])
    /\ UNCHANGED <<usbMod, plugged, plugs, hw, drv, usbInput, ptrVars, rejecting>>

\* m's URB completes with an error: noise on the bus, the mouse is gone, or the
\* URB is being killed.
Error(m) ==
    /\ ~usbFault
    /\ urb[m] = "active"
    /\ usb_mouse_as_key_irq(m, buf)
    /\ UNCHANGED <<usbMod, busVars, drv, usbInput, ptrVars, rejecting>>

-----------------------------------------------------------------------------
(* usbmouse_as_key_disconnect.                                             *)

\* l. 135: usb_kill_urb refuses new submissions of the URB and waits for it ...
KillUrb(m) ==
    /\ HubFree
    /\ drv[m] = "bound"
    /\ m \notin plugged \/ usbMod = "leaving"
    /\ drv' = [drv EXCEPT ![m] = "kill"]
    /\ usbFault' = (uk_urb # NULL /\ urb[uk_urb] = "none")
    /\ rejecting' = {uk_urb} \ {NULL}
    /\ UNCHANGED <<usbMod, busVars, objVars, ptrVars, pre_val, astray, stale>>

\* Mutant: usb_unlink_urb, which does not wait for the URB.
FreeUrb_NoWait(m) ==
    /\ ~usbFault
    /\ drv[m] = "kill"
    /\ drv' = [drv EXCEPT ![m] = "killed"]
    /\ urb' = IF uk_urb = NULL \/ urb[uk_urb] = "active" THEN urb ELSE [urb EXCEPT ![uk_urb] = "none"]
    /\ rejecting' = {}
    /\ UNCHANGED <<usbMod, busVars, buf, usbInput, keys, ptrVars, pre_val, astray, stale, usbFault>>

\* ... and l. 136 frees it.
FreeUrb(m) ==
    /\ ~usbFault
    /\ drv[m] = "kill"
    /\ \A u \in rejecting : urb[u] # "active"
    /\ drv' = [drv EXCEPT ![m] = "killed"]
    /\ urb' = IF uk_urb = NULL THEN urb ELSE [urb EXCEPT ![uk_urb] = "none"]
    /\ rejecting' = {}
    /\ UNCHANGED <<usbMod, busVars, buf, usbInput, keys, ptrVars, pre_val, astray, stale, usbFault>>

\* l. 138.
FreeBuffer(m) ==
    /\ ~usbFault
    /\ drv[m] = "killed"
    /\ drv' = [drv EXCEPT ![m] = "freed"]
    /\ \/ /\ usb_buf # NULL
          /\ usbFault' = (buf[usb_buf] = NoBuffer)
          /\ buf' = [buf EXCEPT ![usb_buf] = NoBuffer]
       \/ usb_buf = NULL /\ UNCHANGED <<buf, usbFault>>
    /\ UNCHANGED <<usbMod, busVars, urb, usbInput, keys, ptrVars, pre_val, rejecting, astray, stale>>

\* l. 139: input_unregister_device takes the device out and drops the last reference
\* to it.
UnregisterKeys(m) ==
    /\ ~usbFault
    /\ drv[m] = "freed"
    /\ drv' = [drv EXCEPT ![m] = "unregistered"]
    /\ usbFault' = (uk_input_dev \notin usbInput)
    /\ usbInput' = usbInput \ {uk_input_dev}
    /\ keys' = IF uk_input_dev \in usbInput THEN [keys EXCEPT ![uk_input_dev] = {}] ELSE keys
    /\ UNCHANGED <<usbMod, busVars, urb, buf, ptrVars, pre_val, rejecting, astray, stale>>

\* l. 140: input_free_device drops a reference to the device that l. 139 has released.
\* The freed memory is used on every disconnect; whether that ends in a fault depends
\* on what the memory holds by then.
FreeKeys(m) ==
    /\ ~usbFault
    /\ drv[m] = "unregistered"
    /\ \/ drv' = [drv EXCEPT ![m] = "unbound"] /\ UNCHANGED usbFault
       \/ drv' = [drv EXCEPT ![m] = "crashed"] /\ usbFault' = TRUE
    /\ UNCHANGED <<usbMod, busVars, objVars, ptrVars, pre_val, rejecting, astray, stale>>

usbmouse_as_key_disconnect(m) ==
    KillUrb(m) \/ FreeUrb(m) \/ FreeBuffer(m) \/ UnregisterKeys(m) \/ FreeKeys(m)

-----------------------------------------------------------------------------
UsbInit ==
    /\ usbMod = "out"
    /\ plugged = {} /\ plugs = 0 /\ fresh = {}
    /\ hw = [m \in Mice |-> {}]
    /\ drv = [m \in Mice |-> "unbound"]
    /\ urb = [m \in Mice |-> "none"]
    /\ buf = [m \in Mice |-> NoBuffer]
    /\ usbInput = {}
    /\ keys = [m \in Mice |-> {}]
    /\ uk_input_dev = NULL /\ usb_buf = NULL /\ uk_urb = NULL
    /\ pre_val = {}
    /\ rejecting = {}
    /\ astray = FALSE /\ stale = FALSE /\ usbFault = FALSE

UsbNext ==
    \/ usbmouse_as_key_init \/ usbmouse_as_key_exit
    \/ \E m \in Mice :
          \/ Plug(m) \/ Unplug(m) \/ \E b \in ButtonBits : Press(m, b)
          \/ Packet(m) \/ Error(m)
          \/ usbmouse_as_key_probe(m) \/ usbmouse_as_key_disconnect(m)

UsbSpec == UsbInit /\ [][UsbNext]_usbVars

\* A mouse with something to send, and a submitted URB to send it by, sends it.
UsbFairness == \A m \in Mice : WF_usbVars(Packet(m))

UsbFairSpec == UsbSpec /\ UsbFairness

-----------------------------------------------------------------------------
(* Properties.                                                             *)

\* Mice come and go, one at a time, while completions race with disconnect
\* and with rmmod: a submitted URB always has its buffer and its input device,
\* a mouse that is not bound has none (l. 67 against l. 135-139), and the only use of
\* freed memory that faults is the second release of the input device, l. 140, which
\* every disconnect makes.
MouseFaultsConfined ==
    ~astray => /\ usbFault => \E m \in Mice : drv[m] = "crashed"
               /\ \A m \in Mice :
                    /\ urb[m] = "active" => buf[m] # NoBuffer /\ m \in usbInput
                    /\ urb[m] # "none" => drv[m] \in {"bound", "kill"}

\* The keys the input core holds down are those of the last packet (l. 43-64),
\* unless the mouse before this one left a button in pre_val.
KeysFollowPackets ==
    (~astray /\ ~stale) => \A m \in Mice : drv[m] = "bound" => keys[m] = pre_val

\* A change of a bound mouse's buttons is reported, unless the mouse goes first:
\* every completion submits the URB for the next (l. 67).
ButtonsReported ==
    \A m \in Mice : (drv[m] = "bound" /\ m \in fresh)
                        ~> (keys[m] = hw[m] \/ drv[m] # "bound" \/ m \notin plugged \/ astray \/ stale)
=============================================================================
