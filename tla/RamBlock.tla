------------------------------ MODULE RamBlock ------------------------------
(***************************************************************************)
(* 13th_ramblock/ramblock.c: a RAM disk.  The block layer (external) queues*)
(* requests and calls do_ramblock_request with the queue lock held; the    *)
(* function takes requests off the queue one after another, copies each    *)
(* one's current segment, and lets end_request move the request on, until  *)
(* the queue is empty.  A request has as many segments as the block layer  *)
(* makes of it.                                                            *)
(***************************************************************************)
EXTENDS Naturals

CONSTANTS
    DiskClients,    \* processes and kernel threads that have requests
    NSectors,       \* RAMBLOCK_SIZE / 512
    Data, Zero      \* contents of a sector; what kzalloc leaves in it

ASSUME NSectorsAssumption == NSectors \in Nat \ {0}
ASSUME ZeroAssumption == Zero \in Data

VARIABLES
    rbMod,          \* how far init and exit have come
    ramblock_buf,   \* the disk's memory, or NoMemory
    rbPc,           \* each client: "out", "open", "queued" or "started"
    rq,             \* each client's request, as it stands
    mem,            \* each client's memory
    rbPlugged,      \* the block layer is going to call the request function
    ramblock_lock   \* the request function is running, with the queue locked

rbVars == <<rbMod, ramblock_buf, rbPc, rq, mem, rbPlugged, ramblock_lock>>

Sectors == 0 .. NSectors - 1
NoMemory == [s \in {} |-> Zero]
Cleared == [s \in Sectors |-> Zero]

\* req->sector, req->buffer and the sectors that are left.
Requests == {r \in [dir: {"READ", "WRITE"}, sector: 0 .. NSectors,
                    nr: 0 .. NSectors, buffer: 0 .. NSectors] :
               r.sector + r.nr <= NSectors /\ r.buffer + r.nr <= NSectors}
NoRequest == [dir |-> "READ", sector |-> 0, nr |-> 0, buffer |-> 0]

Queued == {c \in DiskClients : rbPc[c] = "queued"}
Started == {c \in DiskClients : rbPc[c] = "started"}

-----------------------------------------------------------------------------
(* Load and unload.                                                        *)

\* register_blkdev, alloc_disk, blk_init_queue, set_capacity.
SetUpDisk ==
    /\ rbMod = "out"
    /\ rbMod' = "queue"
    /\ UNCHANGED <<ramblock_buf, rbPc, rq, mem, rbPlugged, ramblock_lock>>

\* Mutant: add_disk before the memory is there.
AllocMemory_Late ==
    /\ \/ rbMod = "queue" /\ rbMod' = "in" /\ UNCHANGED ramblock_buf
       \/ rbMod = "in" /\ ramblock_buf = NoMemory /\ ramblock_buf' = Cleared /\ UNCHANGED rbMod
    /\ UNCHANGED <<rbPc, rq, mem, rbPlugged, ramblock_lock>>

\* kzalloc; without memory init gives up and the disk is never added.
AllocMemory ==
    /\ rbMod = "queue"
    /\ \/ rbMod' = "memory" /\ ramblock_buf' = Cleared
       \/ rbMod' = "out" /\ UNCHANGED ramblock_buf
    /\ UNCHANGED <<rbPc, rq, mem, rbPlugged, ramblock_lock>>

\* add_disk: from here on there are requests.
AddDisk ==
    /\ rbMod = "memory"
    /\ rbMod' = "in"
    /\ UNCHANGED <<ramblock_buf, rbPc, rq, mem, rbPlugged, ramblock_lock>>

ramblock_init == SetUpDisk \/ AllocMemory \/ AddDisk

\* unregister_blkdev and del_gendisk; ramblock_fops.owner keeps the module in
\* while the disk is open.
DelDisk ==
    /\ rbMod = "in"
    /\ \A c \in DiskClients : rbPc[c] = "out"
    /\ rbMod' = "leaving"
    /\ UNCHANGED <<ramblock_buf, rbPc, rq, mem, rbPlugged, ramblock_lock>>

\* blk_cleanup_queue and kfree.
FreeMemory ==
    /\ rbMod = "leaving"
    /\ rbMod' = "out"
    /\ ramblock_buf' = NoMemory
    /\ UNCHANGED <<rbPc, rq, mem, rbPlugged, ramblock_lock>>

ramblock_exit == DelDisk \/ FreeMemory

-----------------------------------------------------------------------------
(* The block layer.                                                        *)

OpenDisk(c) ==
    /\ rbMod = "in"
    /\ rbPc[c] = "out"
    /\ rbPc' = [rbPc EXCEPT ![c] = "open"]
    /\ UNCHANGED <<rbMod, ramblock_buf, rq, mem, rbPlugged, ramblock_lock>>

CloseDisk(c) ==
    /\ rbPc[c] = "open"
    /\ rbPc' = [rbPc EXCEPT ![c] = "out"]
    /\ UNCHANGED <<rbMod, ramblock_buf, rq, mem, rbPlugged, ramblock_lock>>

\* __make_request: under the queue lock, the request joins the queue, and an
\* empty queue is plugged, to be unplugged a little later.
MakeRequest(c) ==
    /\ rbPc[c] = "open"
    /\ ~ramblock_lock
    /\ rbPc' = [rbPc EXCEPT ![c] = "queued"]
    /\ \E r \in Requests :
         /\ r.nr > 0
         /\ r.buffer = 0
         /\ rq' = [rq EXCEPT ![c] = r]
    /\ \E m \in [Sectors -> Data] : mem' = [mem EXCEPT ![c] = m]
    /\ rbPlugged' = (rbPlugged \/ Queued = {})
    /\ UNCHANGED <<rbMod, ramblock_buf, ramblock_lock>>

-----------------------------------------------------------------------------
(* do_ramblock_request.                                                    *)

\* __generic_unplug_device calls it with the lock held.
Unplug ==
    /\ rbPlugged
    /\ ~ramblock_lock
    /\ rbPlugged' = FALSE
    /\ ramblock_lock' = TRUE
    /\ UNCHANGED <<rbMod, ramblock_buf, rbPc, rq, mem>>

\* elv_next_request: the request that was started, or else any other.
NextRequest(c) ==
    /\ ramblock_lock
    /\ Started = {}
    /\ rbPc[c] = "queued"
    /\ rbPc' = [rbPc EXCEPT ![c] = "started"]
    /\ UNCHANGED <<rbMod, ramblock_buf, rq, mem, rbPlugged, ramblock_lock>>

\* memcpy from d at sector from to e at sector to, len sectors.
Memcpy(e, to, d, from, len) ==
    [i \in Sectors |-> IF to <= i /\ i < to + len THEN d[from + (i - to)] ELSE e[i]]

\* What end_request does to a request of which a segment of len sectors is done.
MoveOn(r, len) == [r EXCEPT !.sector = @ + len, !.nr = @ - len, !.buffer = @ + len]

\* The request moves on by its current segment, and is complete with the last.
EndRequest(c, len) ==
    /\ rq' = [rq EXCEPT ![c] =
                IF len = rq[c].nr THEN NoRequest ELSE MoveOn(rq[c], len)]
    /\ rbPc' = [rbPc EXCEPT ![c] = IF len = rq[c].nr THEN "open" ELSE "started"]

\* Mutant: the data taken from the start of the client's memory for every segment.
Transfer_SameBuffer(c, len) ==
    /\ \/ /\ rq[c].dir = "READ"
          /\ mem' = [mem EXCEPT ![c] = Memcpy(@, 0, ramblock_buf, rq[c].sector, len)]
          /\ UNCHANGED ramblock_buf
       \/ /\ rq[c].dir = "WRITE"
          /\ ramblock_buf' = Memcpy(ramblock_buf, rq[c].sector, mem[c], 0, len)
          /\ UNCHANGED mem
    /\ EndRequest(c, len)

\* One turn of the loop: len is current_nr_sectors.
Transfer(c, len) ==
    /\ \/ /\ rq[c].dir = "READ"
          /\ mem' = [mem EXCEPT ![c] = Memcpy(@, rq[c].buffer, ramblock_buf, rq[c].sector, len)]
          /\ UNCHANGED ramblock_buf
       \/ /\ rq[c].dir = "WRITE"
          /\ ramblock_buf' = Memcpy(ramblock_buf, rq[c].sector, mem[c], rq[c].buffer, len)
          /\ UNCHANGED mem
    /\ EndRequest(c, len)

CopySegment(c) ==
    /\ rbPc[c] = "started"
    /\ \E len \in 1 .. NSectors : len <= rq[c].nr /\ Transfer(c, len)
    /\ UNCHANGED <<rbMod, rbPlugged, ramblock_lock>>

\* Mutant: if instead of while: one request for each call.
RequestFnReturn_OneOnly ==
    /\ ramblock_lock
    /\ Started = {}
    /\ ramblock_lock' = FALSE
    /\ UNCHANGED <<rbMod, ramblock_buf, rbPc, rq, mem, rbPlugged>>

\* elv_next_request finds nothing: the function returns.
RequestFnReturn ==
    /\ ramblock_lock
    /\ Started = {} /\ Queued = {}
    /\ ramblock_lock' = FALSE
    /\ UNCHANGED <<rbMod, ramblock_buf, rbPc, rq, mem, rbPlugged>>

do_ramblock_request ==
    \/ Unplug
    \/ \E c \in DiskClients : NextRequest(c) \/ CopySegment(c)
    \/ RequestFnReturn

-----------------------------------------------------------------------------
RamInit ==
    /\ rbMod = "out"
    /\ ramblock_buf = NoMemory
    /\ rbPc = [c \in DiskClients |-> "out"]
    /\ rq = [c \in DiskClients |-> NoRequest]
    /\ mem = [c \in DiskClients |-> Cleared]
    /\ rbPlugged = FALSE
    /\ ramblock_lock = FALSE

RamNext ==
    \/ ramblock_init
    \/ ramblock_exit
    \/ do_ramblock_request
    \/ \E c \in DiskClients : OpenDisk(c) \/ CloseDisk(c) \/ MakeRequest(c)

RamSpec == RamInit /\ [][RamNext]_rbVars

-----------------------------------------------------------------------------
RamTypeOK ==
    /\ rbMod \in {"out", "queue", "memory", "in", "leaving"}
    /\ ramblock_buf \in [Sectors -> Data] \cup {NoMemory}
    /\ rbPc \in [DiskClients -> {"out", "open", "queued", "started"}]
    /\ rq \in [DiskClients -> Requests]
    /\ mem \in [DiskClients -> [Sectors -> Data]]
    /\ rbPlugged \in BOOLEAN
    /\ ramblock_lock \in BOOLEAN

\* There is a request only while the disk's memory is there: init adds the
\* disk last, and exit frees the memory after the last close.
RequestHasMemory ==
    (\E c \in DiskClients : rbPc[c] # "out") => rbMod = "in" /\ ramblock_buf # NoMemory

\* A request in the queue will be seen: the request function is running, or the
\* block layer is going to call it (which it does only once for each time the
\* queue was empty).
RequestNotForgotten ==
    Queued \cup Started # {} => rbPlugged \/ ramblock_lock

\* The request function works on one request at a time, with the queue locked,
\* and the memory is there from kzalloc to kfree.  With RamTypeOK and the two
\* properties above this is inductive.
OneStarted ==
    /\ \A c, d \in DiskClients : rbPc[c] = "started" /\ rbPc[d] = "started" => c = d
    /\ Started # {} => ramblock_lock
    /\ rbMod \in {"memory", "in", "leaving"} <=> ramblock_buf # NoMemory

RamInv == RamTypeOK /\ RequestHasMemory /\ RequestNotForgotten /\ OneStarted

-----------------------------------------------------------------------------
(* The disk as its clients see it: a started request has already happened, *)
(* the part that is still to be copied included.                           *)

InWrite(pc, q, c, s) ==
    /\ pc[c] = "started" /\ q[c].dir = "WRITE"
    /\ q[c].sector <= s /\ s < q[c].sector + q[c].nr

DiskSeen(b, pc, q, m) ==
    [s \in Sectors |->
        IF \E c \in DiskClients : InWrite(pc, q, c, s)
        THEN LET c == CHOOSE c \in DiskClients : InWrite(pc, q, c, s)
             IN  m[c][q[c].buffer + (s - q[c].sector)]
        ELSE IF b = NoMemory THEN Zero ELSE b[s]]

MemSeen(b, pc, q, m) ==
    [c \in DiskClients |->
        IF pc[c] = "started" /\ q[c].dir = "READ"
        THEN Memcpy(m[c], q[c].buffer, b, q[c].sector, q[c].nr)
        ELSE m[c]]

AskedSeen(pc) ==
    [c \in DiskClients |-> IF pc[c] = "queued" THEN "asked"
                           ELSE IF pc[c] = "started" THEN "served" ELSE "idle"]

RangeSeen(pc, q) == [c \in DiskClients |-> IF pc[c] = "queued" THEN q[c] ELSE NoRequest]

AD == INSTANCE AtomicDisk WITH
        disk <- DiskSeen(ramblock_buf, rbPc, rq, mem),
        mem <- MemSeen(ramblock_buf, rbPc, rq, mem),
        asked <- AskedSeen(rbPc),
        range <- RangeSeen(rbPc, rq)

\* Segment by segment, with other requests in the queue and through load and
\* unload, do_ramblock_request does what a disk does that serves each request
\* at one moment: a read brings what was last written to each of its sectors.
ImplementsAtomicDisk == AD!DiskSpec
=============================================================================
