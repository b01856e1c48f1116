--------------------------- MODULE RamBlockProofs ---------------------------
(***************************************************************************)
(* Theorems about RamBlock, for any number of clients and any disk size:   *)
(* the inductive invariant, and that the request loop implements a disk    *)
(* that serves each request at one moment.                                 *)
(***************************************************************************)
EXTENDS RamBlock, TLAPS

\* The disk's memory, once it is there, is told from NoMemory.
LEMMA MemoryThere == \A b \in [Sectors -> Data] : b # NoMemory
<1>1. ASSUME NEW b \in [Sectors -> Data], b = NoMemory PROVE FALSE
  <2>1. DOMAIN b = Sectors
    OBVIOUS
  <2>2. DOMAIN b = {}
    BY <1>1 DEF NoMemory
  <2>3. 0 \in Sectors
    BY NSectorsAssumption DEF Sectors
  <2> QED
    BY <2>1, <2>2, <2>3
<1> QED
  BY <1>1

\* memcpy within bounds keeps the type of what it writes to.
LEMMA MemcpyType ==
  ASSUME NEW e \in [Sectors -> Data], NEW d \in [Sectors -> Data],
         NEW to \in Nat, NEW from \in Nat, NEW len \in Nat, from + len <= NSectors
  PROVE  Memcpy(e, to, d, from, len) \in [Sectors -> Data]
<1>1. ASSUME NEW i \in Sectors, to <= i, i < to + len
      PROVE  from + (i - to) \in Sectors
  BY <1>1, NSectorsAssumption DEF Sectors
<1> QED
  BY <1>1 DEF Memcpy

\* A request moved on by a segment is a request, within disk and memory.
LEMMA MovedRequest ==
  ASSUME NEW r \in Requests, NEW len \in 1 .. NSectors, len <= r.nr
  PROVE  /\ MoveOn(r, len) \in Requests
         /\ MoveOn(r, len).dir = r.dir
         /\ MoveOn(r, len).sector = r.sector + len
         /\ MoveOn(r, len).nr = r.nr - len
         /\ MoveOn(r, len).buffer = r.buffer + len
<1> DEFINE m == MoveOn(r, len)
<1>1. r \in [dir: {"READ", "WRITE"}, sector: 0 .. NSectors,
             nr: 0 .. NSectors, buffer: 0 .. NSectors]
  BY DEF Requests
<1>2. /\ r.sector + r.nr <= NSectors /\ r.buffer + r.nr <= NSectors
      /\ r.sector \in 0 .. NSectors /\ r.nr \in 0 .. NSectors /\ r.buffer \in 0 .. NSectors
  BY <1>1 DEF Requests
<1>3. /\ r.sector + len \in 0 .. NSectors /\ r.nr - len \in 0 .. NSectors
      /\ r.buffer + len \in 0 .. NSectors
      /\ (r.sector + len) + (r.nr - len) <= NSectors
      /\ (r.buffer + len) + (r.nr - len) <= NSectors
  BY <1>2, NSectorsAssumption
<1>4. m \in [dir: {"READ", "WRITE"}, sector: 0 .. NSectors,
             nr: 0 .. NSectors, buffer: 0 .. NSectors]
  BY <1>1, <1>3 DEF MoveOn
<1>5. /\ m.dir = r.dir /\ m.sector = r.sector + len
      /\ m.nr = r.nr - len /\ m.buffer = r.buffer + len
  BY <1>1 DEF MoveOn
<1> QED
  BY <1>3, <1>4, <1>5 DEF Requests

\* The record of no request has the type of a request.
LEMMA NoRequestType == NoRequest \in Requests
  BY NSectorsAssumption DEF NoRequest, Requests

\* A segment keeps the types of both memories and of the request.
LEMMA TransferType ==
  ASSUME RamInv, NEW c \in DiskClients, CopySegment(c)
  PROVE  /\ ramblock_buf' \in [Sectors -> Data]
         /\ mem' \in [DiskClients -> [Sectors -> Data]]
         /\ rq' \in [DiskClients -> Requests]
         /\ ramblock_buf \in [Sectors -> Data]
<1>1. PICK len \in 1 .. NSectors : len <= rq[c].nr /\ Transfer(c, len)
  BY DEF CopySegment
<1>2. rbPc[c] = "started"
  BY DEF CopySegment
<1>3. ramblock_buf \in [Sectors -> Data]
  BY <1>2 DEF RamInv, RamTypeOK, RequestHasMemory
<1>4. rq[c] \in Requests /\ mem[c] \in [Sectors -> Data]
  BY DEF RamInv, RamTypeOK
<1>5. /\ rq[c].sector \in Nat /\ rq[c].buffer \in Nat /\ rq[c].nr \in Nat /\ len \in Nat
      /\ rq[c].sector + len <= NSectors /\ rq[c].buffer + len <= NSectors
  BY <1>1, <1>4, NSectorsAssumption DEF Requests
<1>6. /\ Memcpy(mem[c], rq[c].buffer, ramblock_buf, rq[c].sector, len) \in [Sectors -> Data]
      /\ Memcpy(ramblock_buf, rq[c].sector, mem[c], rq[c].buffer, len) \in [Sectors -> Data]
  BY <1>3, <1>4, <1>5, MemcpyType
<1>7. /\ ramblock_buf' \in [Sectors -> Data]
      /\ mem' \in [DiskClients -> [Sectors -> Data]]
  BY <1>1, <1>3, <1>6 DEF Transfer, RamInv, RamTypeOK
<1>8. rq' \in [DiskClients -> Requests]
  <2> DEFINE r == IF len = rq[c].nr THEN NoRequest
                  ELSE MoveOn(rq[c], len)
  <2>1. r \in Requests
    BY <1>1, <1>4, MovedRequest, NoRequestType
  <2>2. rq' = [rq EXCEPT ![c] = r]
    BY <1>1 DEF Transfer, EndRequest
  <2> QED
    BY <2>1, <2>2 DEF RamInv, RamTypeOK
<1> QED
  BY <1>3, <1>7, <1>8

\* RamInv holds before the module is loaded and is kept by every step.
LEMMA RamInvInit == RamInit => RamInv
<1> SUFFICES ASSUME RamInit PROVE RamInv
  OBVIOUS
<1>1. RamTypeOK
  BY NoRequestType, ZeroAssumption DEF RamInit, RamTypeOK, Cleared
<1>2. RequestHasMemory /\ RequestNotForgotten /\ OneStarted
  BY DEF RamInit, RequestHasMemory, RequestNotForgotten, OneStarted, Queued, Started
<1> QED
  BY <1>1, <1>2 DEF RamInv

\* Every step of the RAM disk keeps RamInv.
LEMMA RamInvStep == RamInv /\ [RamNext]_rbVars => RamInv'
<1> SUFFICES ASSUME RamInv, [RamNext]_rbVars PROVE RamInv'
  OBVIOUS
<1> USE DEF RamInv, RamTypeOK, RequestHasMemory, RequestNotForgotten, OneStarted,
            Queued, Started
<1>1. CASE UNCHANGED rbVars
  BY <1>1 DEF rbVars
<1>2. CASE ramblock_init
  <2>1. CASE SetUpDisk
    BY <2>1 DEF SetUpDisk
  <2>2. CASE AllocMemory
    <3>1. Cleared \in [Sectors -> Data] /\ Cleared # NoMemory
      BY MemoryThere, ZeroAssumption DEF Cleared
    <3> QED
      BY <2>2, <3>1 DEF AllocMemory
  <2>3. CASE AddDisk
    BY <2>3 DEF AddDisk
  <2> QED
    BY <1>2, <2>1, <2>2, <2>3 DEF ramblock_init
<1>3. CASE ramblock_exit
  BY <1>3 DEF ramblock_exit, DelDisk, FreeMemory
<1>4. CASE do_ramblock_request
  <2>1. CASE Unplug
    BY <2>1 DEF Unplug
  <2>2. ASSUME NEW c \in DiskClients, NextRequest(c) PROVE RamInv'
    BY <2>2 DEF NextRequest
  <2>3. ASSUME NEW c \in DiskClients, CopySegment(c) PROVE RamInv'
    <3>1. PICK len \in 1 .. NSectors : len <= rq[c].nr /\ Transfer(c, len)
      BY <2>3 DEF CopySegment
    <3>2. /\ rbPc[c] = "started"
          /\ UNCHANGED <<rbMod, rbPlugged, ramblock_lock>>
          /\ rbPc' = [rbPc EXCEPT ![c] = IF len = rq[c].nr THEN "open" ELSE "started"]
      BY <2>3, <3>1 DEF CopySegment, Transfer, EndRequest
    <3>3. /\ ramblock_buf \in [Sectors -> Data] /\ ramblock_buf' \in [Sectors -> Data]
          /\ mem' \in [DiskClients -> [Sectors -> Data]]
          /\ rq' \in [DiskClients -> Requests]
      BY <2>3, TransferType
    <3>4. ramblock_buf' # NoMemory
      BY <3>3, MemoryThere
    <3>5. ramblock_lock
      BY <3>2
    <3>6. RamTypeOK'
      BY <3>2, <3>3
    <3>7. rbMod = "in"
      BY <3>2
    <3> QED
      BY <3>2, <3>4, <3>5, <3>6, <3>7
  <2>4. CASE RequestFnReturn
    BY <2>4 DEF RequestFnReturn
  <2> QED
    BY <1>4, <2>1, <2>2, <2>3, <2>4 DEF do_ramblock_request
<1>5. ASSUME NEW c \in DiskClients, OpenDisk(c) PROVE RamInv'
  BY <1>5 DEF OpenDisk
<1>6. ASSUME NEW c \in DiskClients, CloseDisk(c) PROVE RamInv'
  BY <1>6 DEF CloseDisk
<1>7. ASSUME NEW c \in DiskClients, MakeRequest(c) PROVE RamInv'
  <2>1. RamTypeOK'
    BY <1>7 DEF MakeRequest
  <2>2. RequestNotForgotten'
    BY <1>7 DEF MakeRequest
  <2> QED
    BY <1>7, <2>1, <2>2 DEF MakeRequest
<1> QED
  BY <1>1, <1>2, <1>3, <1>4, <1>5, <1>6, <1>7 DEF RamNext

\* RamInv is inductive: in every behaviour of the RAM disk the request function
\* works on one request at a time under the lock, and the memory is there.
THEOREM RamInvariant == RamSpec => []RamInv
  BY RamInvInit, RamInvStep, PTL DEF RamSpec

\* No request meets a disk without memory, through any load, failed load, open,
\* close and unload.
THEOREM RamRequestHasMemory == RamSpec => []RequestHasMemory
<1>1. RamInv => RequestHasMemory
  BY DEF RamInv
<1> QED
  BY <1>1, RamInvariant, PTL

\* No request stays in the queue with nobody to call the request function.
THEOREM RamNotForgotten == RamSpec => []RequestNotForgotten
<1>1. RamInv => RequestNotForgotten
  BY DEF RamInv
<1> QED
  BY <1>1, RamInvariant, PTL

-----------------------------------------------------------------------------
(* RamBlock implements AtomicDisk.                                         *)

\* Between requests the clients see the memory as it is.
LEMMA SeenAtRest ==
  ASSUME NEW b, NEW pc, NEW q, NEW m \in [DiskClients -> [Sectors -> Data]],
         \A c \in DiskClients : pc[c] # "started"
  PROVE  /\ DiskSeen(b, pc, q, m) = [s \in Sectors |-> IF b = NoMemory THEN Zero ELSE b[s]]
         /\ MemSeen(b, pc, q, m) = m
<1>1. \A s \in Sectors, c \in DiskClients : ~InWrite(pc, q, c, s)
  BY DEF InWrite
<1>2. DiskSeen(b, pc, q, m) = [s \in Sectors |-> IF b = NoMemory THEN Zero ELSE b[s]]
  BY <1>1 DEF DiskSeen
<1>3. MemSeen(b, pc, q, m) = m
  BY DEF MemSeen
<1> QED
  BY <1>2, <1>3

\* Within a request they see it as it will be when the request is done.
LEMMA SeenInWrite ==
  ASSUME NEW b, NEW pc, NEW q, NEW m \in [DiskClients -> [Sectors -> Data]],
         NEW c \in DiskClients, pc[c] = "started",
         \A d \in DiskClients : pc[d] = "started" => d = c,
         b # NoMemory, q[c].dir = "WRITE"
  PROVE  /\ DiskSeen(b, pc, q, m) = Memcpy(b, q[c].sector, m[c], q[c].buffer, q[c].nr)
         /\ MemSeen(b, pc, q, m) = m
<1>1. \A s \in Sectors, d \in DiskClients : InWrite(pc, q, d, s) => d = c
  BY DEF InWrite
<1>2. ASSUME NEW s \in Sectors, InWrite(pc, q, c, s)
      PROVE  (CHOOSE d \in DiskClients : InWrite(pc, q, d, s)) = c
  BY <1>1, <1>2
<1>3. \A s \in Sectors : InWrite(pc, q, c, s)
                            <=> q[c].sector <= s /\ s < q[c].sector + q[c].nr
  BY DEF InWrite
<1>4. \A s \in Sectors : (\E d \in DiskClients : InWrite(pc, q, d, s)) <=> InWrite(pc, q, c, s)
  BY <1>1
<1>5. DiskSeen(b, pc, q, m) = Memcpy(b, q[c].sector, m[c], q[c].buffer, q[c].nr)
  BY <1>2, <1>3, <1>4 DEF DiskSeen, Memcpy
<1>6. MemSeen(b, pc, q, m) = m
  BY DEF MemSeen
<1> QED
  BY <1>5, <1>6

\* While a read is served the disk seen is the memory, and the reader seems to have it all.
LEMMA SeenInRead ==
  ASSUME NEW b, NEW pc, NEW q, NEW m \in [DiskClients -> [Sectors -> Data]],
         NEW c \in DiskClients, pc[c] = "started",
         \A d \in DiskClients : pc[d] = "started" => d = c,
         b # NoMemory, q[c].dir = "READ"
  PROVE  /\ DiskSeen(b, pc, q, m) = [s \in Sectors |-> b[s]]
         /\ MemSeen(b, pc, q, m) =
              [m EXCEPT ![c] = Memcpy(m[c], q[c].buffer, b, q[c].sector, q[c].nr)]
<1>1. \A s \in Sectors, d \in DiskClients : ~InWrite(pc, q, d, s)
  BY DEF InWrite
<1>2. DiskSeen(b, pc, q, m) = [s \in Sectors |-> b[s]]
  BY <1>1 DEF DiskSeen
<1>3. MemSeen(b, pc, q, m) =
        [m EXCEPT ![c] = Memcpy(m[c], q[c].buffer, b, q[c].sector, q[c].nr)]
  BY DEF MemSeen
<1> QED
  BY <1>2, <1>3

\* Copying a first part and then the rest is copying the whole.
LEMMA MemcpySplit ==
  ASSUME NEW e \in [Sectors -> Data], NEW d \in [Sectors -> Data],
         NEW to \in Nat, NEW from \in Nat, NEW n \in Nat, NEW len \in Nat,
         len <= n, from + n <= NSectors
  PROVE  Memcpy(Memcpy(e, to, d, from, len), to + len, d, from + len, n - len)
           = Memcpy(e, to, d, from, n)
<1> DEFINE f == Memcpy(e, to, d, from, len)
<1>1. ASSUME NEW i \in Sectors
      PROVE  (IF to + len <= i /\ i < to + len + (n - len)
              THEN d[from + len + (i - (to + len))] ELSE f[i])
              = (IF to <= i /\ i < to + n THEN d[from + (i - to)] ELSE e[i])
  <2>1. i \in Nat
    BY NSectorsAssumption DEF Sectors
  <2>2. f[i] = IF to <= i /\ i < to + len THEN d[from + (i - to)] ELSE e[i]
    BY DEF Memcpy
  <2>3. from + len + (i - (to + len)) = from + (i - to) /\ to + len + (n - len) = to + n
    BY <2>1
  <2> QED
    BY <2>1, <2>2, <2>3
<1> QED
  BY <1>1 DEF Memcpy

\* An unloaded RAM disk is a disk nothing was asked of.
LEMMA AtomicInit == RamInit => AD!DiskInit
<1> SUFFICES ASSUME RamInit PROVE AD!DiskInit
  OBVIOUS
<1>1. mem \in [DiskClients -> [Sectors -> Data]]
  BY ZeroAssumption DEF RamInit, Cleared
<1>2. \A c \in DiskClients : rbPc[c] # "started" /\ rbPc[c] # "queued"
  BY DEF RamInit
<1>3. /\ DiskSeen(ramblock_buf, rbPc, rq, mem) = [s \in Sectors |-> Zero]
      /\ MemSeen(ramblock_buf, rbPc, rq, mem) = mem
  BY <1>1, <1>2, SeenAtRest DEF RamInit
<1>4. /\ AskedSeen(rbPc) = [c \in DiskClients |-> "idle"]
      /\ RangeSeen(rbPc, rq) = [c \in DiskClients |-> NoRequest]
  BY <1>2 DEF AskedSeen, RangeSeen
<1> QED
  BY <1>1, <1>3, <1>4 DEF AD!DiskInit, AD!Sectors, AD!NoRequest, Sectors, NoRequest

\* The steps that clients do not see.
LEMMA AtomicStutter ==
  ASSUME RamInv, RamInv',
         rbPc' = rbPc, rq' = rq, mem' = mem,
         \/ ramblock_buf' = ramblock_buf
         \/ Started = {} /\ ramblock_buf = NoMemory /\ ramblock_buf' = Cleared
  PROVE  UNCHANGED AD!diskVars
<1>1. CASE ramblock_buf' = ramblock_buf
  BY <1>1 DEF AD!diskVars
<1>2. CASE Started = {} /\ ramblock_buf = NoMemory /\ ramblock_buf' = Cleared
  <2>1. \A c \in DiskClients : rbPc[c] # "started"
    BY <1>2 DEF Started
  <2>2. mem \in [DiskClients -> [Sectors -> Data]]
    BY DEF RamInv, RamTypeOK
  <2>3. /\ DiskSeen(ramblock_buf, rbPc, rq, mem) = [s \in Sectors |-> Zero]
        /\ MemSeen(ramblock_buf, rbPc, rq, mem) = mem
    BY <1>2, <2>1, <2>2, SeenAtRest
  <2>4. Cleared # NoMemory
    BY MemoryThere, ZeroAssumption DEF Cleared
  <2>5. /\ DiskSeen(Cleared, rbPc, rq, mem) = [s \in Sectors |-> Cleared[s]]
        /\ MemSeen(Cleared, rbPc, rq, mem) = mem
    BY <2>1, <2>2, <2>4, SeenAtRest
  <2>6. [s \in Sectors |-> Cleared[s]] = [s \in Sectors |-> Zero]
    BY DEF Cleared
  <2> QED
    BY <1>2, <2>3, <2>5, <2>6 DEF AD!diskVars
<1> QED
  BY <1>1, <1>2

\* A request joins the queue: it is asked.
LEMMA AtomicAsk ==
  ASSUME RamInv, RamInv', NEW c \in DiskClients, MakeRequest(c)
  PROVE  AD!Ask(c)
<1>1. \A d \in DiskClients : rbPc[d] # "started"
  BY DEF RamInv, OneStarted, MakeRequest, Started
<1>2. rbPc \in [DiskClients -> {"out", "open", "queued", "started"}] /\ rq \in [DiskClients -> Requests]
      /\ mem \in [DiskClients -> [Sectors -> Data]] /\ mem' \in [DiskClients -> [Sectors -> Data]]
  BY DEF RamInv, RamTypeOK
<1>3. /\ rbPc[c] = "open" /\ rbPc' = [rbPc EXCEPT ![c] = "queued"]
      /\ \A d \in DiskClients : rbPc'[d] # "started"
  BY <1>1, <1>2 DEF MakeRequest
<1>4. AskedSeen(rbPc)[c] = "idle" /\ AskedSeen(rbPc') = [AskedSeen(rbPc) EXCEPT ![c] = "asked"]
  BY <1>2, <1>3 DEF AskedSeen
<1>5. PICK r \in Requests : rq' = [rq EXCEPT ![c] = r]
  BY DEF MakeRequest
<1>6. RangeSeen(rbPc', rq') = [RangeSeen(rbPc, rq) EXCEPT ![c] = r]
  BY <1>2, <1>3, <1>5 DEF RangeSeen
<1>7. PICK m \in [Sectors -> Data] : mem' = [mem EXCEPT ![c] = m]
  BY DEF MakeRequest
<1> DEFINE rest == [s \in Sectors |-> IF ramblock_buf = NoMemory THEN Zero ELSE ramblock_buf[s]]
<1>8. /\ MemSeen(ramblock_buf, rbPc, rq, mem) = mem
      /\ DiskSeen(ramblock_buf, rbPc, rq, mem) = rest
  BY <1>1, <1>2, SeenAtRest
<1>11. /\ MemSeen(ramblock_buf, rbPc', rq', mem') = mem'
       /\ DiskSeen(ramblock_buf, rbPc', rq', mem') = rest
  <2>1. \A d \in DiskClients : rbPc'[d] # "started"
    BY <1>3
  <2>2. mem' \in [DiskClients -> [Sectors -> Data]]
    BY <1>2
  <2> QED
    BY <2>1, <2>2, SeenAtRest
<1>9. ramblock_buf' = ramblock_buf
  BY DEF MakeRequest
<1>10. r \in AD!Requests /\ m \in [AD!Sectors -> Data]
  BY DEF AD!Requests, Requests, AD!Sectors, Sectors
<1> QED
  BY <1>4, <1>6, <1>7, <1>8, <1>9, <1>10, <1>11 DEF AD!Ask

\* A request is started: it takes effect.
LEMMA AtomicServe ==
  ASSUME RamInv, RamInv', NEW c \in DiskClients, NextRequest(c)
  PROVE  AD!Serve(c)
<1>1. /\ rbPc[c] = "queued" /\ rbPc' = [rbPc EXCEPT ![c] = "started"]
      /\ UNCHANGED <<ramblock_buf, rq, mem>>
      /\ \A d \in DiskClients : rbPc[d] # "started"
  BY DEF NextRequest, Started
<1>2. /\ rbPc \in [DiskClients -> {"out", "open", "queued", "started"}] /\ rq \in [DiskClients -> Requests]
      /\ mem \in [DiskClients -> [Sectors -> Data]]
  BY DEF RamInv, RamTypeOK
<1>3. ramblock_buf \in [Sectors -> Data] /\ ramblock_buf # NoMemory
  BY <1>1 DEF RamInv, RamTypeOK, RequestHasMemory
<1>4. rbPc'[c] = "started" /\ \A d \in DiskClients : rbPc'[d] = "started" => d = c
  BY <1>1, <1>2
<1>5. /\ AskedSeen(rbPc)[c] = "asked"
      /\ AskedSeen(rbPc') = [AskedSeen(rbPc) EXCEPT ![c] = "served"]
  BY <1>1, <1>2 DEF AskedSeen
<1>6. /\ RangeSeen(rbPc, rq)[c] = rq[c]
      /\ RangeSeen(rbPc', rq) = [RangeSeen(rbPc, rq) EXCEPT ![c] = NoRequest]
  BY <1>1, <1>2 DEF RangeSeen
<1>7. /\ DiskSeen(ramblock_buf, rbPc, rq, mem) = ramblock_buf
      /\ MemSeen(ramblock_buf, rbPc, rq, mem) = mem
  <2>1. [s \in Sectors |-> IF ramblock_buf = NoMemory THEN Zero ELSE ramblock_buf[s]] = ramblock_buf
    BY <1>3
  <2> QED
    BY <1>1, <1>2, <2>1, SeenAtRest
<1>8. NoRequest = AD!NoRequest
  BY DEF NoRequest, AD!NoRequest
<1>9. rq[c].dir \in {"READ", "WRITE"}
  BY <1>2 DEF Requests
<1>10. CASE rq[c].dir = "WRITE"
  <2>1. /\ DiskSeen(ramblock_buf, rbPc', rq, mem)
             = Memcpy(ramblock_buf, rq[c].sector, mem[c], rq[c].buffer, rq[c].nr)
        /\ MemSeen(ramblock_buf, rbPc', rq, mem) = mem
    BY <1>2, <1>3, <1>4, <1>10, SeenInWrite
  <2>2. Memcpy(ramblock_buf, rq[c].sector, mem[c], rq[c].buffer, rq[c].nr)
          = AD!Written(ramblock_buf, rq[c], mem[c])
    BY DEF Memcpy, AD!Written, AD!Covers, AD!Sectors, Sectors
  <2> QED
    BY <1>1, <1>5, <1>6, <1>7, <1>8, <1>10, <2>1, <2>2 DEF AD!Serve
<1>11. CASE rq[c].dir = "READ"
  <2>1. /\ DiskSeen(ramblock_buf, rbPc', rq, mem) = [s \in Sectors |-> ramblock_buf[s]]
        /\ MemSeen(ramblock_buf, rbPc', rq, mem) =
             [mem EXCEPT ![c] = Memcpy(mem[c], rq[c].buffer, ramblock_buf, rq[c].sector, rq[c].nr)]
    BY <1>2, <1>3, <1>4, <1>11, SeenInRead
  <2>2. Memcpy(mem[c], rq[c].buffer, ramblock_buf, rq[c].sector, rq[c].nr)
          = AD!Fetched(ramblock_buf, rq[c], mem[c])
    BY DEF Memcpy, AD!Fetched, AD!InBuffer, AD!Sectors, Sectors
  <2>3. [s \in Sectors |-> ramblock_buf[s]] = ramblock_buf
    BY <1>3
  <2> QED
    BY <1>1, <1>5, <1>6, <1>7, <1>8, <1>11, <2>1, <2>2, <2>3 DEF AD!Serve
<1> QED
  BY <1>9, <1>10, <1>11

\* A segment is copied: nothing that has not been seen, and the last one
\* finishes the request.
LEMMA AtomicSegment ==
  ASSUME RamInv, RamInv', NEW c \in DiskClients, CopySegment(c)
  PROVE  AD!Finish(c) \/ UNCHANGED AD!diskVars
<1>1. PICK len \in 1 .. NSectors : len <= rq[c].nr /\ Transfer(c, len)
  BY DEF CopySegment
<1> DEFINE r == rq[c]
           b == ramblock_buf
<1>2. /\ rbPc[c] = "started"
      /\ \A d \in DiskClients : rbPc[d] = "started" => d = c
  BY DEF CopySegment, RamInv, OneStarted
<1>3. /\ rbPc \in [DiskClients -> {"out", "open", "queued", "started"}] /\ rq \in [DiskClients -> Requests]
      /\ mem \in [DiskClients -> [Sectors -> Data]] /\ mem' \in [DiskClients -> [Sectors -> Data]]
  BY DEF RamInv, RamTypeOK
<1>4. b \in [Sectors -> Data] /\ b' \in [Sectors -> Data] /\ b # NoMemory /\ b' # NoMemory
  BY TransferType, MemoryThere
<1>5. /\ r.sector \in Nat /\ r.buffer \in Nat /\ r.nr \in Nat /\ len \in Nat
      /\ r.sector + r.nr <= NSectors /\ r.buffer + r.nr <= NSectors
      /\ r.dir \in {"READ", "WRITE"} /\ r \in Requests
  <2>1. r \in Requests
    BY <1>3
  <2> QED
    BY <2>1, NSectorsAssumption DEF Requests
<1>6. /\ rq' = [rq EXCEPT ![c] = IF len = r.nr THEN NoRequest ELSE MoveOn(r, len)]
      /\ rbPc' = [rbPc EXCEPT ![c] = IF len = r.nr THEN "open" ELSE "started"]
  BY <1>1 DEF Transfer, EndRequest
<1>7. RangeSeen(rbPc', rq') = RangeSeen(rbPc, rq)
  BY <1>2, <1>3, <1>6 DEF RangeSeen
<1>8. r.dir = "READ" => /\ b' = b
                       /\ mem' = [mem EXCEPT ![c] = Memcpy(mem[c], r.buffer, b, r.sector, len)]
  BY <1>1 DEF Transfer
<1>9. r.dir = "WRITE" => /\ b' = Memcpy(b, r.sector, mem[c], r.buffer, len)
                        /\ mem' = mem
  BY <1>1 DEF Transfer
<1>10. /\ r.dir = "WRITE" =>
             /\ DiskSeen(b, rbPc, rq, mem) = Memcpy(b, r.sector, mem[c], r.buffer, r.nr)
             /\ MemSeen(b, rbPc, rq, mem) = mem
       /\ r.dir = "READ" =>
             /\ DiskSeen(b, rbPc, rq, mem) = b
             /\ MemSeen(b, rbPc, rq, mem) =
                  [mem EXCEPT ![c] = Memcpy(mem[c], r.buffer, b, r.sector, r.nr)]
  <2>1. [s \in Sectors |-> b[s]] = b
    BY <1>4
  <2> QED
    <3>1. CASE r.dir = "WRITE"
      <4>1. /\ DiskSeen(b, rbPc, rq, mem) = Memcpy(b, r.sector, mem[c], r.buffer, r.nr)
            /\ MemSeen(b, rbPc, rq, mem) = mem
        <5>1. mem \in [DiskClients -> [Sectors -> Data]] /\ b # NoMemory
          BY <1>3, <1>4
        <5> QED
          BY <1>2, <3>1, <5>1, SeenInWrite
      <4> QED
        BY <3>1, <4>1
    <3>2. CASE r.dir = "READ"
      BY <1>2, <1>3, <1>4, <2>1, <3>2, SeenInRead
    <3> QED
      BY <1>5, <3>1, <3>2
<1>11. CASE len = r.nr
  <2>1. \A d \in DiskClients : rbPc'[d] # "started"
    BY <1>2, <1>3, <1>6, <1>11
  <2>2. /\ DiskSeen(b', rbPc', rq', mem') = b'
        /\ MemSeen(b', rbPc', rq', mem') = mem'
    <3>1. [s \in Sectors |-> IF b' = NoMemory THEN Zero ELSE b'[s]] = b'
      BY <1>4
    <3> QED
      BY <1>3, <2>1, <3>1, SeenAtRest
  <2>3. /\ DiskSeen(b', rbPc', rq', mem') = DiskSeen(b, rbPc, rq, mem)
        /\ MemSeen(b', rbPc', rq', mem') = MemSeen(b, rbPc, rq, mem)
    BY <1>5, <1>8, <1>9, <1>10, <1>11, <2>2
  <2>4. /\ AskedSeen(rbPc)[c] = "served"
        /\ AskedSeen(rbPc') = [AskedSeen(rbPc) EXCEPT ![c] = "idle"]
    BY <1>2, <1>3, <1>6, <1>11 DEF AskedSeen
  <2> QED
    BY <1>7, <2>3, <2>4 DEF AD!Finish
<1>12. CASE len # r.nr
  <2>1. /\ rbPc' = rbPc /\ rq'[c] = MoveOn(r, len)
    BY <1>2, <1>3, <1>6, <1>12
  <2>2. /\ rq'[c].dir = r.dir /\ rq'[c].sector = r.sector + len
        /\ rq'[c].nr = r.nr - len /\ rq'[c].buffer = r.buffer + len
    BY <1>1, <1>5, <2>1, MovedRequest
  <2>5. /\ rbPc'[c] = "started"
        /\ \A d \in DiskClients : rbPc'[d] = "started" => d = c
        /\ b' # NoMemory
        /\ mem' \in [DiskClients -> [Sectors -> Data]]
    BY <1>2, <1>3, <1>4, <2>1
  <2>6. /\ r.sector \in Nat /\ r.buffer \in Nat /\ r.nr \in Nat /\ len \in Nat /\ len <= r.nr
        /\ r.sector + r.nr <= NSectors /\ r.buffer + r.nr <= NSectors
        /\ b \in [Sectors -> Data] /\ mem[c] \in [Sectors -> Data]
    BY <1>1, <1>3, <1>4, <1>5
  <2>3. CASE r.dir = "WRITE"
    <3>1. /\ DiskSeen(b', rbPc', rq', mem')
               = Memcpy(b', r.sector + len, mem'[c], r.buffer + len, r.nr - len)
          /\ MemSeen(b', rbPc', rq', mem') = mem'
      BY <2>2, <2>3, <2>5, SeenInWrite
    <3>3. Memcpy(Memcpy(b, r.sector, mem[c], r.buffer, len),
                 r.sector + len, mem[c], r.buffer + len, r.nr - len)
            = Memcpy(b, r.sector, mem[c], r.buffer, r.nr)
      BY <2>6, MemcpySplit
    <3> QED
      BY <1>7, <1>9, <1>10, <2>1, <2>3, <3>1, <3>3 DEF AD!diskVars
  <2>4. CASE r.dir = "READ"
    <3>1. /\ DiskSeen(b', rbPc', rq', mem') = [s \in Sectors |-> b'[s]]
          /\ MemSeen(b', rbPc', rq', mem') =
               [mem' EXCEPT ![c] =
                  Memcpy(mem'[c], r.buffer + len, b', r.sector + len, r.nr - len)]
      BY <2>2, <2>4, <2>5, SeenInRead
    <3>3. Memcpy(Memcpy(mem[c], r.buffer, b, r.sector, len),
                 r.buffer + len, b, r.sector + len, r.nr - len)
            = Memcpy(mem[c], r.buffer, b, r.sector, r.nr)
      BY <2>6, MemcpySplit, SMTT(30)
    <3>4. mem'[c] = Memcpy(mem[c], r.buffer, b, r.sector, len)
      BY <1>3, <1>8, <2>4
    <3>5. MemSeen(b', rbPc', rq', mem') = MemSeen(b, rbPc, rq, mem)
      BY <1>3, <1>8, <1>10, <2>4, <3>1, <3>3, <3>4
    <3>6. DiskSeen(b', rbPc', rq', mem') = DiskSeen(b, rbPc, rq, mem)
      BY <1>4, <1>8, <1>10, <2>4, <3>1
    <3> QED
      BY <1>7, <2>1, <3>5, <3>6 DEF AD!diskVars
  <2> QED
    BY <1>5, <2>3, <2>4
<1> QED
  BY <1>11, <1>12

\* Every step of the RAM disk is a step of AtomicDisk or none.
LEMMA AtomicStep ==
  ASSUME RamInv, RamInv', [RamNext]_rbVars
  PROVE  [AD!DiskNext]_(AD!diskVars)
<1>1. CASE UNCHANGED rbVars
  BY <1>1, AtomicStutter DEF rbVars
<1>2. CASE SetUpDisk \/ AddDisk \/ DelDisk \/ Unplug \/ RequestFnReturn
  <2>1. UNCHANGED <<ramblock_buf, rbPc, rq, mem>>
    BY <1>2 DEF SetUpDisk, AddDisk, DelDisk, Unplug, RequestFnReturn
  <2> QED
    BY <2>1, AtomicStutter
<1>3. CASE AllocMemory
  <2>1. Started = {} /\ ramblock_buf = NoMemory
    BY <1>3 DEF AllocMemory, RamInv, RequestHasMemory, OneStarted, Started
  <2>2. UNCHANGED <<rbPc, rq, mem>> /\ (ramblock_buf' = Cleared \/ ramblock_buf' = ramblock_buf)
    BY <1>3 DEF AllocMemory
  <2> QED
    BY <2>1, <2>2, AtomicStutter
<1>4. CASE FreeMemory
  <2>1. \A c \in DiskClients : rbPc[c] = "out"
    BY <1>4 DEF FreeMemory, RamInv, RequestHasMemory
  <2>2. mem \in [DiskClients -> [Sectors -> Data]]
    BY DEF RamInv, RamTypeOK
  <2>3. UNCHANGED <<rbPc, rq, mem>> /\ ramblock_buf' = NoMemory
    BY <1>4 DEF FreeMemory
  <2>4. /\ DiskSeen(NoMemory, rbPc, rq, mem) = [s \in Sectors |-> Zero]
        /\ MemSeen(NoMemory, rbPc, rq, mem) = mem
        /\ MemSeen(ramblock_buf, rbPc, rq, mem) = mem
    BY <2>1, <2>2, SeenAtRest
  <2>5. \A c \in DiskClients : AskedSeen(rbPc)[c] = "idle"
    BY <2>1 DEF AskedSeen
  <2>6. AD!Clear
    BY <2>3, <2>4, <2>5 DEF AD!Clear, AD!Sectors, Sectors
  <2> QED
    BY <2>6 DEF AD!DiskNext
<1>5. ASSUME NEW c \in DiskClients, OpenDisk(c) \/ CloseDisk(c)
      PROVE  UNCHANGED AD!diskVars
  <2>1. /\ rbPc \in [DiskClients -> {"out", "open", "queued", "started"}]
        /\ mem \in [DiskClients -> [Sectors -> Data]]
    BY DEF RamInv, RamTypeOK
  <2>2. rbPc[c] \in {"out", "open"} /\ UNCHANGED <<ramblock_buf, rq, mem>>
    BY <1>5 DEF OpenDisk, CloseDisk
  <2>3. PICK v \in {"out", "open"} : rbPc' = [rbPc EXCEPT ![c] = v]
    BY <1>5 DEF OpenDisk, CloseDisk
  <2>4. AskedSeen(rbPc') = AskedSeen(rbPc) /\ RangeSeen(rbPc', rq) = RangeSeen(rbPc, rq)
    BY <2>1, <2>2, <2>3 DEF AskedSeen, RangeSeen
  <2>5. MemSeen(ramblock_buf, rbPc', rq, mem) = MemSeen(ramblock_buf, rbPc, rq, mem)
    BY <2>1, <2>2, <2>3 DEF MemSeen
  <2>6. \A s \in Sectors, d \in DiskClients :
           InWrite(rbPc', rq, d, s) = InWrite(rbPc, rq, d, s)
    BY <2>1, <2>2, <2>3 DEF InWrite
  <2>7. DiskSeen(ramblock_buf, rbPc', rq, mem) = DiskSeen(ramblock_buf, rbPc, rq, mem)
    BY <2>6 DEF DiskSeen
  <2> QED
    BY <2>2, <2>4, <2>5, <2>7 DEF AD!diskVars
<1>6. ASSUME NEW c \in DiskClients, MakeRequest(c) PROVE AD!DiskNext
  BY <1>6, AtomicAsk DEF AD!DiskNext
<1>7. ASSUME NEW c \in DiskClients, NextRequest(c) PROVE AD!DiskNext
  BY <1>7, AtomicServe DEF AD!DiskNext
<1>8. ASSUME NEW c \in DiskClients, CopySegment(c) PROVE [AD!DiskNext]_(AD!diskVars)
  BY <1>8, AtomicSegment DEF AD!DiskNext
<1> QED
  BY <1>1, <1>2, <1>3, <1>4, <1>5, <1>6, <1>7, <1>8
  DEF RamNext, ramblock_init, ramblock_exit, do_ramblock_request

\* The RAM disk implements the atomic disk: segment by segment, do_ramblock_request
\* gives every client what a disk gives that serves a request at one moment.
THEOREM RamImplementsAtomicDisk == RamSpec => ImplementsAtomicDisk
<1>1. RamInv /\ RamInv' /\ [RamNext]_rbVars => [AD!DiskNext]_(AD!diskVars)
  BY AtomicStep
<1> QED
  BY <1>1, AtomicInit, RamInvariant, PTL DEF RamSpec, ImplementsAtomicDisk, AD!DiskSpec
=============================================================================
