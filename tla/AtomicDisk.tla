----------------------------- MODULE AtomicDisk -----------------------------
(***************************************************************************)
(* What a block device promises its clients: a request is asked, takes     *)
(* effect on all its sectors at one moment, and is then finished.          *)
(* RamBlock implements it.                                                 *)
(***************************************************************************)
EXTENDS Naturals

CONSTANTS DiskClients,  \* processes and kernel threads with requests
          NSectors,     \* capacity in sectors
          Data, Zero    \* contents of a sector; a cleared one

VARIABLES disk,     \* what each sector holds
          asked,    \* each client: "idle", "asked" or "served"
          range,    \* each client's request, while it is asked
          mem       \* each client's memory

diskVars == <<disk, asked, range, mem>>

Sectors == 0 .. NSectors - 1

\* A request: its direction, first sector and length; buffer is where in the
\* client's memory the sector's data is.
Requests == {r \in [dir: {"READ", "WRITE"}, sector: 0 .. NSectors,
                    nr: 0 .. NSectors, buffer: 0 .. NSectors] :
               r.sector + r.nr <= NSectors /\ r.buffer + r.nr <= NSectors}

NoRequest == [dir |-> "READ", sector |-> 0, nr |-> 0, buffer |-> 0]

Covers(r, s) == r.sector <= s /\ s < r.sector + r.nr

InBuffer(r, i) == r.buffer <= i /\ i < r.buffer + r.nr

\* The disk d after a write of r from memory m, and memory m after a read.
Written(d, r, m) ==
  [s \in Sectors |-> IF Covers(r, s) THEN m[r.buffer + (s - r.sector)] ELSE d[s]]

Fetched(d, r, m) ==
  [i \in Sectors |-> IF InBuffer(r, i) THEN d[r.sector + (i - r.buffer)] ELSE m[i]]

DiskInit ==
  /\ disk = [s \in Sectors |-> Zero]
  /\ asked = [c \in DiskClients |-> "idle"]
  /\ range = [c \in DiskClients |-> NoRequest]
  /\ mem \in [DiskClients -> [Sectors -> Data]]

\* The client fills its memory as it likes and asks.
Ask(c) ==
  /\ asked[c] = "idle"
  /\ asked' = [asked EXCEPT ![c] = "asked"]
  /\ \E r \in Requests : range' = [range EXCEPT ![c] = r]
  /\ \E m \in [Sectors -> Data] : mem' = [mem EXCEPT ![c] = m]
  /\ UNCHANGED disk

Serve(c) ==
  /\ asked[c] = "asked"
  /\ asked' = [asked EXCEPT ![c] = "served"]
  /\ range' = [range EXCEPT ![c] = NoRequest]
  /\ \/ /\ range[c].dir = "WRITE"
        /\ disk' = Written(disk, range[c], mem[c])
        /\ UNCHANGED mem
     \/ /\ range[c].dir = "READ"
        /\ mem' = [mem EXCEPT ![c] = Fetched(disk, range[c], mem[c])]
        /\ UNCHANGED disk

Finish(c) ==
  /\ asked[c] = "served"
  /\ asked' = [asked EXCEPT ![c] = "idle"]
  /\ UNCHANGED <<disk, range, mem>>

\* A RAM disk forgets what it holds when it is taken away.
Clear ==
  /\ \A c \in DiskClients : asked[c] = "idle"
  /\ disk' = [s \in Sectors |-> Zero]
  /\ UNCHANGED <<asked, range, mem>>

DiskNext == Clear \/ \E c \in DiskClients : Ask(c) \/ Serve(c) \/ Finish(c)

DiskSpec == DiskInit /\ [][DiskNext]_diskVars
=============================================================================
