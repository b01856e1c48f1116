---------------------------- MODULE LedPlatform ----------------------------
(***************************************************************************)
(* 9th_bus_drv_dev: led_drv.c registers a platform driver, led_dev.c the   *)
(* platform device of the same name.  The bus (external) binds them when   *)
(* both are there, whichever came first: led_probe maps the registers and  *)
(* makes the character device, led_remove undoes it when either module     *)
(* goes.  An open file keeps led_drv loaded (led_fops.owner), not led_dev. *)
(*                                                                         *)
(* Probe and remove run inside the init or exit of one of the modules, one *)
(* at a time (the device's semaphore); led_open runs under the big kernel  *)
(* lock.  A process that touches the registers when they are not mapped is *)
(* killed by the kernel: in led_write its file is then closed, in led_open *)
(* there is none yet and the reference to the module stays for good.       *)
(***************************************************************************)
EXTENDS Naturals

CONSTANT LedUsers   \* processes

VARIABLES
    led_drv,        \* "out", "in" or "going"
    led_dev,        \* the same for the device's module
    bound,          \* how far led_probe or led_remove has come
    gpio,           \* the mapping behind gpio_con and gpio_dat is there
    con, dat,       \* hardware: the pin's mode and its data bit
    ledPc,          \* each process: "out", "opening", "muxing", "open", "dying" or "killed"
    cutOff,         \* history: processes whose device was removed under their file
    lastVal         \* history: what the last write asked for, or Nothing

drvVars == <<led_drv, led_dev, bound, gpio>>
ledVars == <<drvVars, con, dat, ledPc, cutOff, lastVal>>

Nothing == 2

\* The bus owes the pair a probe or a remove, or is in one.
Busy == \/ bound \notin {"no", "yes"}
        \/ bound = "no" /\ led_drv = "in" /\ led_dev = "in"
        \/ bound = "yes" /\ "going" \in {led_drv, led_dev}

-----------------------------------------------------------------------------
(* The two modules.                                                        *)

led_drv_init ==
    /\ led_drv = "out" /\ led_drv' = "in"
    /\ UNCHANGED <<led_dev, bound, gpio, con, dat, ledPc, cutOff, lastVal>>

led_dev_init ==
    /\ led_dev = "out" /\ led_dev' = "in"
    /\ UNCHANGED <<led_drv, bound, gpio, con, dat, ledPc, cutOff, lastVal>>

\* rmmod led_drv is refused while a file is open.
led_drv_exit ==
    /\ \/ /\ led_drv = "in" /\ led_drv' = "going"
          /\ ~Busy
          /\ \A p \in LedUsers : ledPc[p] = "out"
       \/ led_drv = "going" /\ bound = "no" /\ led_drv' = "out"
    /\ UNCHANGED <<led_dev, bound, gpio, con, dat, ledPc, cutOff, lastVal>>

led_dev_exit ==
    /\ \/ led_dev = "in" /\ ~Busy /\ led_dev' = "going"
       \/ led_dev = "going" /\ bound = "no" /\ led_dev' = "out"
    /\ UNCHANGED <<led_drv, bound, gpio, con, dat, ledPc, cutOff, lastVal>>

-----------------------------------------------------------------------------
(* led_probe and led_remove, up to each call another process can see.      *)

\* Mutant: the registers mapped last.
ProbeMap_Late ==
    /\ \/ bound = "no" /\ led_drv = "in" /\ led_dev = "in" /\ bound' = "mapped" /\ UNCHANGED gpio
       \/ bound = "yes" /\ ~gpio /\ gpio' = TRUE /\ UNCHANGED bound
    /\ UNCHANGED <<led_drv, led_dev, con, dat, ledPc, cutOff, lastVal>>

\* ioremap, and the pin from the second resource.
ProbeMap ==
    /\ bound = "no" /\ led_drv = "in" /\ led_dev = "in"
    /\ bound' = "mapped" /\ gpio' = TRUE
    /\ UNCHANGED <<led_drv, led_dev, con, dat, ledPc, cutOff, lastVal>>

\* register_chrdev.
ProbeRegister ==
    /\ bound = "mapped" /\ bound' = "chrdev"
    /\ UNCHANGED <<led_drv, led_dev, gpio, con, dat, ledPc, cutOff, lastVal>>

\* class_create and class_device_create.
ProbeNode ==
    /\ bound = "chrdev" /\ bound' = "yes"
    /\ UNCHANGED <<led_drv, led_dev, gpio, con, dat, ledPc, cutOff, lastVal>>

led_probe == ProbeMap \/ ProbeRegister \/ ProbeNode

\* class_device_destroy and class_destroy.
RemoveNode ==
    /\ bound = "yes" /\ "going" \in {led_drv, led_dev}
    /\ bound' = "noclass"
    /\ UNCHANGED <<led_drv, led_dev, gpio, con, dat, ledPc, cutOff, lastVal>>

\* unregister_chrdev: no more opens; files that are open stay.
RemoveUnregister ==
    /\ bound = "noclass" /\ bound' = "nochrdev"
    /\ cutOff' = cutOff \cup {p \in LedUsers : ledPc[p] # "out"}
    /\ UNCHANGED <<led_drv, led_dev, gpio, con, dat, ledPc, lastVal>>

RemoveUnmap ==
    /\ bound = "nochrdev" /\ bound' = "no" /\ gpio' = FALSE
    /\ UNCHANGED <<led_drv, led_dev, con, dat, ledPc, cutOff, lastVal>>

led_remove == RemoveNode \/ RemoveUnregister \/ RemoveUnmap

-----------------------------------------------------------------------------
(* Files.                                                                  *)

\* chrdev_open finds led_fops and takes the module.
LedOpenCall(p) ==
    /\ ledPc[p] = "out"
    /\ bound \in {"chrdev", "yes", "noclass"} /\ led_drv = "in"
    /\ ledPc' = [ledPc EXCEPT ![p] = "opening"]
    /\ UNCHANGED <<drvVars, con, dat, cutOff, lastVal>>

\* *gpio_con &= ~(0x3<<(pin*2)): the pin is an input for a moment.
ClearMode(p) ==
    /\ ledPc[p] = "opening"
    /\ \A q \in LedUsers : ledPc[q] # "muxing"
    /\ \/ gpio /\ con' = "input" /\ ledPc' = [ledPc EXCEPT ![p] = "muxing"]
       \/ ~gpio /\ ledPc' = [ledPc EXCEPT ![p] = "killed"] /\ UNCHANGED con
    /\ UNCHANGED <<drvVars, dat, cutOff, lastVal>>

\* Mutant: the pin made an output by the first opener only.
SetMode_FirstOnly(p) ==
    /\ ledPc[p] = "muxing"
    /\ ledPc' = [ledPc EXCEPT ![p] = IF gpio THEN "open" ELSE "killed"]
    /\ con' = IF gpio /\ \A q \in LedUsers \ {p} : ledPc[q] # "open" THEN "output" ELSE con
    /\ UNCHANGED <<drvVars, dat, cutOff, lastVal>>

\* *gpio_con |= (0x1<<(pin*2)).
SetMode(p) ==
    /\ ledPc[p] = "muxing"
    /\ \/ gpio /\ con' = "output" /\ ledPc' = [ledPc EXCEPT ![p] = "open"]
       \/ ~gpio /\ ledPc' = [ledPc EXCEPT ![p] = "killed"] /\ UNCHANGED con
    /\ UNCHANGED <<drvVars, dat, cutOff, lastVal>>

led_open(p) == ClearMode(p) \/ SetMode(p)

\* The result of copy_from_user is not looked at: without a good buffer val is
\* what was on the stack, so every value stands for that case too.  1 clears
\* the bit, which lights the LED.
led_write(p) ==
    /\ ledPc[p] = "open"
    /\ \/ /\ gpio
          /\ \E val \in {0, 1} : dat' = 1 - val /\ lastVal' = val
          /\ UNCHANGED ledPc
       \/ /\ ~gpio
          /\ ledPc' = [ledPc EXCEPT ![p] = "dying"]
          /\ UNCHANGED <<dat, lastVal>>
    /\ UNCHANGED <<drvVars, con, cutOff>>

\* led_fops has no release; close only gives the module back.
LedClose(p) ==
    /\ ledPc[p] \in {"open", "dying"}
    /\ ledPc' = [ledPc EXCEPT ![p] = "out"]
    /\ cutOff' = cutOff \ {p}
    /\ UNCHANGED <<drvVars, con, dat, lastVal>>

-----------------------------------------------------------------------------
LedInit ==
    /\ led_drv = "out" /\ led_dev = "out" /\ bound = "no" /\ gpio = FALSE
    /\ con \in {"input", "output"} /\ dat \in {0, 1}
    /\ ledPc = [p \in LedUsers |-> "out"]
    /\ cutOff = {}
    /\ lastVal = Nothing

LedNext ==
    \/ led_drv_init \/ led_drv_exit \/ led_dev_init \/ led_dev_exit
    \/ led_probe \/ led_remove
    \/ \E p \in LedUsers : LedOpenCall(p) \/ led_open(p) \/ led_write(p) \/ LedClose(p)

LedSpec == LedInit /\ [][LedNext]_ledVars

-----------------------------------------------------------------------------
\* A process is killed in led_open or led_write only when the device was
\* removed while it had it open: probe registers the device after the mapping
\* and remove unregisters it before, whichever module comes or goes.
KilledOnlyIfCutOff == \A p \in LedUsers : ledPc[p] \in {"dying", "killed"} => p \in cutOff

\* The LED shows the last write, except while a process is in the middle of
\* led_open or was killed there.
LedShowsLastWrite ==
    /\ lastVal # Nothing
    /\ \A p \in LedUsers : ledPc[p] \notin {"muxing", "killed"}
    => con = "output" /\ dat = 1 - lastVal
=============================================================================
