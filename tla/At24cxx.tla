------------------------------ MODULE At24cxx ------------------------------
(***************************************************************************)
(* 19th_i2c_drv/at24cxx.c: an AT24Cxx EEPROM as a character device.  A     *)
(* read sends the address and reads a byte, in one i2c_transfer of two     *)
(* messages; a write sends address and byte in one message.  The I2C core  *)
(* (external) runs one transfer at a time and says how many messages went  *)
(* through; the chip (external) keeps an address of its own between        *)
(* messages and answers nothing while it is programming a byte.            *)
(***************************************************************************)
EXTENDS Naturals, Sequences

CONSTANTS
    At24Users,      \* processes
    NBytes,         \* size of the EEPROM
    Bytes           \* values of a byte

ASSUME NBytesAssumption == NBytes \in Nat \ {0}
ASSUME BytesAssumption == Bytes # {}

VARIABLES
    at24Mod,        \* how far init, detect and exit have come
    at24Client,     \* at24cxx_client is attached to the adapter
    at24Chrdev,     \* the character device is registered
    at24Pc,         \* each process: "out", "open", "posted", "onBus" or "back"
    call,           \* each process's call: its kind, address and byte
    msgs,           \* what is left of its transfer
    count,          \* messages that went through
    data,           \* the local variable data of read, and what read delivered
    ret,            \* what the last call returned
    eeprom, cursor, programming,    \* the chip
    held            \* history: what the call's address held since it began

modVars == <<at24Mod, at24Client, at24Chrdev>>
chipVars == <<eeprom, cursor, programming>>
callVars == <<at24Pc, call, msgs, count, data, ret, held>>
at24Vars == <<modVars, chipVars, callVars>>

Addresses == 0 .. NBytes - 1

NoCall == [kind |-> "read", addr |-> 0, byte |-> CHOOSE b \in Bytes : TRUE]

SetAddress(a) == [kind |-> "address", addr |-> a]
GetByte == [kind |-> "get"]
PutByte(a, b) == [kind |-> "put", addr |-> a, byte |-> b]

BusFree == \A p \in At24Users : at24Pc[p] # "onBus"

-----------------------------------------------------------------------------
(* Load and unload.                                                        *)

at24cxx_init ==
    /\ at24Mod = "out"
    /\ at24Mod' = "probing"
    /\ UNCHANGED <<at24Client, at24Chrdev, chipVars, callVars>>

\* i2c_probe calls detect when the chip answers.  kzalloc and i2c_attach_client
\* may fail: the driver stays loaded without a device.
DetectClient ==
    /\ at24Mod = "probing"
    /\ \/ at24Mod' = "client" /\ at24Client' = TRUE
       \/ at24Mod' = "idle" /\ UNCHANGED at24Client
    /\ UNCHANGED <<at24Chrdev, chipVars, callVars>>

\* A failed register_chrdev is only printed.
DetectChrdev ==
    /\ at24Mod = "client"
    /\ at24Mod' = "chrdev"
    /\ at24Chrdev' \in BOOLEAN
    /\ UNCHANGED <<at24Client, chipVars, callVars>>

\* A failed class_create ends detect; client and character device stay.
DetectClass ==
    /\ at24Mod = "chrdev"
    /\ at24Mod' \in {"in", "noclass"}
    /\ UNCHANGED <<at24Client, at24Chrdev, chipVars, callVars>>

at24cxx_detect == DetectClient \/ DetectChrdev \/ DetectClass

\* rmmod: i2c_del_driver calls detach_client if there is a client; without a
\* class its first call crashes and the module stays half unloaded.
at24cxx_exit ==
    /\ at24Mod \in {"idle", "in", "noclass"}
    /\ \A p \in At24Users : at24Pc[p] = "out"
    /\ at24Mod' = CASE at24Mod = "idle" -> "out"
                    [] at24Mod = "in" -> "detaching"
                    [] at24Mod = "noclass" -> "crashed"
    /\ UNCHANGED <<at24Client, at24Chrdev, chipVars, callVars>>

\* class_destroy, unregister_chrdev, i2c_detach_client.  i2c_del_driver goes on
\* when this fails, and at24cxx_client goes with the module either way.
at24cxx_detach_client ==
    /\ at24Mod = "detaching"
    /\ at24Mod' = "out" /\ at24Chrdev' = FALSE /\ at24Client' = FALSE
    /\ UNCHANGED <<chipVars, callVars>>

-----------------------------------------------------------------------------
(* Files and calls.                                                        *)

\* What a failed call leaves behind, or any call after close, is of no use.
Forget(p) ==
    /\ call' = [call EXCEPT ![p] = NoCall]
    /\ data' = [data EXCEPT ![p] = NoCall.byte]
    /\ held' = [held EXCEPT ![p] = {}]

At24Open(p) ==
    /\ at24Pc[p] = "out"
    /\ at24Chrdev /\ at24Mod \notin {"detaching", "crashed"}
    /\ at24Pc' = [at24Pc EXCEPT ![p] = "open"]
    /\ UNCHANGED <<modVars, chipVars, call, msgs, count, data, ret, held>>

At24Close(p) ==
    /\ at24Pc[p] = "open"
    /\ at24Pc' = [at24Pc EXCEPT ![p] = "out"]
    /\ ret' = [ret EXCEPT ![p] = "none"]
    /\ Forget(p)
    /\ UNCHANGED <<modVars, chipVars, msgs, count>>

\* i2c_transfer of the messages ms, for a call c; data is not initialised.
Post(p, c, ms) ==
    /\ at24Pc' = [at24Pc EXCEPT ![p] = "posted"]
    /\ call' = [call EXCEPT ![p] = c]
    /\ msgs' = [msgs EXCEPT ![p] = ms]
    /\ count' = [count EXCEPT ![p] = 0]
    /\ \E junk \in Bytes : data' = [data EXCEPT ![p] = junk]
    /\ held' = [held EXCEPT ![p] = {eeprom[c.addr]}]
    /\ ret' = [ret EXCEPT ![p] = "none"]

\* -EINVAL, -EIO or -1.
Fails(p) == ret' = [ret EXCEPT ![p] = "error"] /\ Forget(p)

Succeeds(p) == ret' = [ret EXCEPT ![p] = "ok"] /\ UNCHANGED <<call, data, held>>

\* A wrong size, or a buffer that cannot be read.
Refuse(p) == Fails(p) /\ UNCHANGED <<at24Pc, msgs, count>>

ReadCall(p) ==
    /\ at24Pc[p] = "open"
    /\ \/ Refuse(p)
       \/ \E a \in Addresses :
            Post(p, [kind |-> "read", addr |-> a, byte |-> NoCall.byte], <<SetAddress(a), GetByte>>)
    /\ UNCHANGED <<modVars, chipVars>>

WriteCall(p) ==
    /\ at24Pc[p] = "open"
    /\ \/ Refuse(p)
       \/ \E a \in Addresses, b \in Bytes :
            Post(p, [kind |-> "write", addr |-> a, byte |-> b], <<PutByte(a, b)>>)
    /\ UNCHANGED <<modVars, chipVars>>

EndTransfer(p) ==
    /\ msgs' = [msgs EXCEPT ![p] = <<>>]
    /\ count' = [count EXCEPT ![p] = 0]

\* Mutant: any number of messages taken for success.
ReadReturn_AnyCount(p) ==
    /\ at24Pc[p] = "back" /\ call[p].kind = "read"
    /\ at24Pc' = [at24Pc EXCEPT ![p] = "open"]
    /\ Succeeds(p)
    /\ EndTransfer(p)
    /\ UNCHANGED <<modVars, chipVars>>

\* Both messages went through and copy_to_user works, or else an error.
ReadReturn(p) ==
    /\ at24Pc[p] = "back" /\ call[p].kind = "read"
    /\ at24Pc' = [at24Pc EXCEPT ![p] = "open"]
    /\ Fails(p) \/ (count[p] = 2 /\ Succeeds(p))
    /\ EndTransfer(p)
    /\ UNCHANGED <<modVars, chipVars>>

WriteReturn(p) ==
    /\ at24Pc[p] = "back" /\ call[p].kind = "write"
    /\ at24Pc' = [at24Pc EXCEPT ![p] = "open"]
    /\ IF count[p] = 1 THEN Succeeds(p) ELSE Fails(p)
    /\ EndTransfer(p)
    /\ UNCHANGED <<modVars, chipVars>>

at24cxx_read(p) == ReadCall(p) \/ ReadReturn(p)
at24cxx_write(p) == WriteCall(p) \/ WriteReturn(p)

-----------------------------------------------------------------------------
(* The I2C core and the chip.                                              *)

\* The adapter's bus_lock.
TakeBus(p) ==
    /\ at24Pc[p] = "posted" /\ BusFree
    /\ at24Pc' = [at24Pc EXCEPT ![p] = "onBus"]
    /\ UNCHANGED <<modVars, chipVars, call, msgs, count, data, ret, held>>

\* The chip takes message m of process p.
ChipDoes(p, m) ==
    \/ /\ m.kind = "address"
       /\ cursor' = m.addr
       /\ UNCHANGED <<eeprom, programming, data, held>>
    \/ /\ m.kind = "get"
       /\ data' = [data EXCEPT ![p] = eeprom[cursor]]
       /\ cursor' = (cursor + 1) % NBytes
       /\ UNCHANGED <<eeprom, programming, held>>
    \/ /\ m.kind = "put"
       /\ eeprom' = [eeprom EXCEPT ![m.addr] = m.byte]
       /\ cursor' = (m.addr + 1) % NBytes
       /\ programming' = TRUE
       /\ held' = [q \in At24Users |->
                     IF at24Pc[q] \in {"posted", "onBus", "back"} /\ call[q].addr = m.addr
                     THEN held[q] \cup {m.byte} ELSE held[q]]
       /\ UNCHANGED data

\* A message goes through, and is counted unless the adapter times out after it.
Message(p) ==
    /\ at24Pc[p] = "onBus" /\ msgs[p] # <<>> /\ ~programming
    /\ ChipDoes(p, Head(msgs[p]))
    /\ \/ /\ count' = [count EXCEPT ![p] = @ + 1]
          /\ msgs' = [msgs EXCEPT ![p] = Tail(@)]
          /\ UNCHANGED at24Pc
       \/ /\ at24Pc' = [at24Pc EXCEPT ![p] = "back"]
          /\ UNCHANGED <<count, msgs>>
    /\ UNCHANGED <<modVars, call, ret>>

\* All messages are through; or the chip does not answer, because it is
\* programming or for another reason.
LeaveBus(p) ==
    /\ at24Pc[p] = "onBus"
    /\ at24Pc' = [at24Pc EXCEPT ![p] = "back"]
    /\ UNCHANGED <<modVars, chipVars, call, msgs, count, data, ret, held>>

ProgrammingEnds ==
    /\ programming
    /\ programming' = FALSE
    /\ UNCHANGED <<modVars, eeprom, cursor, callVars>>

-----------------------------------------------------------------------------
At24Init ==
    /\ at24Mod = "out" /\ at24Client = FALSE /\ at24Chrdev = FALSE
    /\ at24Pc = [p \in At24Users |-> "out"]
    /\ call = [p \in At24Users |-> NoCall]
    /\ data = [p \in At24Users |-> NoCall.byte]
    /\ eeprom \in [Addresses -> Bytes]
    /\ msgs = [p \in At24Users |-> <<>>]
    /\ count = [p \in At24Users |-> 0]
    /\ ret = [p \in At24Users |-> "none"]
    /\ held = [p \in At24Users |-> {}]
    /\ cursor = 0 /\ programming = FALSE

At24Next ==
    \/ at24cxx_init \/ at24cxx_detect \/ at24cxx_exit \/ at24cxx_detach_client
    \/ ProgrammingEnds
    \/ \E p \in At24Users :
         \/ At24Open(p) \/ At24Close(p)
         \/ at24cxx_read(p) \/ at24cxx_write(p)
         \/ TakeBus(p) \/ Message(p) \/ LeaveBus(p)

At24Spec == At24Init /\ [][At24Next]_at24Vars

-----------------------------------------------------------------------------
\* A call that reports success had its effect between call and return: a read
\* brought a byte its address held in that time, a write's byte was there.
\* Other processes' transfers, a chip that is busy, transfers that stop after
\* the first message and an uninitialised data do not change that.
CallsTakeEffect ==
    \A p \in At24Users :
        ret[p] = "ok" => (IF call[p].kind = "read" THEN data[p] ELSE call[p].byte) \in held[p]

=============================================================================
