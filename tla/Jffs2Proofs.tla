---------------------------- MODULE Jffs2Proofs ----------------------------
(***************************************************************************)
(* Proofs about Jffs2.  On NAND, whatever is written, collected, erased    *)
(* and cut off, a mount shows the directory that was in core, an entry     *)
(* never survives the inode it names, and the directories a power cut may  *)
(* leave are those DurableDir allows.  On both media nothing but waste     *)
(* (padding, skipped ends of blocks, failed writes) eats into the space    *)
(* held back for the collector, every reservation finds it there, and      *)
(* while it is there a block is found.                                     *)
(***************************************************************************)
EXTENDS Jffs2, FiniteSetTheorems, WellFoundedInduction, TLAPS

Lists == {"free", "next", "closed", "gc", "erase_pending", "erasable",
          "erasable_pending_wbuf", "erase_complete"}
Calls == {"none", "create", "link", "unlink", "rename"}
Nodes == {Dead} \cup [type : {"inode"}, ino : Inos]
         \cup [type : {"dirent"}, name : Names, ino : Inos \cup {0}, version : 0..MaxVer]
Logs == [Blocks -> Seq(Nodes)]

(***************************************************************************)
(* Nodes and places of a log.                                              *)
(***************************************************************************)

\* What the fields of a node of each kind are.
LEMMA NodeKinds ==
    ASSUME NEW x \in Nodes
    PROVE  /\ x.type \in {"dead", "inode", "dirent"}
           /\ x = Dead <=> x.type = "dead"
           /\ x.type = "inode" => x.ino \in Inos /\ x = Inode(x.ino)
           /\ x.type = "dirent" => /\ x.name \in Names /\ x.ino \in Inos \cup {0}
                                   /\ x.version \in 0..MaxVer
<1>1. CASE x = Dead
  BY <1>1 DEF Dead
<1>2. CASE x \in [type : {"inode"}, ino : Inos]
  BY <1>2 DEF Dead, Inode
<1>3. CASE x \in [type : {"dirent"}, name : Names, ino : Inos \cup {0}, version : 0..MaxVer]
  BY <1>3 DEF Dead
<1> QED BY <1>1, <1>2, <1>3 DEF Nodes

\* An entry is a node, whatever version it is given.
LEMMA EntryIsNode ==
    ASSUME NEW n \in Names, NEW i \in Inos \cup {0}, NEW v \in 0..MaxVer
    PROVE  /\ Dirent(n, i, v) \in Nodes /\ Dirent(n, i, v).type = "dirent"
           /\ Dirent(n, i, v).name = n /\ Dirent(n, i, v).ino = i /\ Dirent(n, i, v).version = v
BY DEF Dirent, Nodes

\* An inode node is a node.
LEMMA InodeIsNode ==
    ASSUME NEW i \in Inos
    PROVE  Inode(i) \in Nodes /\ Inode(i).type = "inode" /\ Inode(i).ino = i
BY DEF Inode, Nodes

\* An entry given another version.
LEMMA Reversioned ==
    ASSUME NEW x \in Nodes, x.type = "dirent", NEW v \in 0..MaxVer
    PROVE  [x EXCEPT !.version = v] = Dirent(x.name, x.ino, v)
<1>1. x \in [type : {"dirent"}, name : Names, ino : Inos \cup {0}, version : 0..MaxVer]
  BY DEF Nodes, Dead
<1> QED BY <1>1 DEF Dirent

\* What it is to be a place of a log.
LEMMA PlaceFacts ==
    ASSUME NEW L \in Logs
    PROVE  /\ \A p \in Places(L) : /\ p[1] \in Blocks /\ p[2] \in 1..Len(L[p[1]]) /\ p = <<p[1], p[2]>>
                                   /\ At(L, p) \in Nodes
           /\ \A b \in Blocks, k \in Nat : k \in 1..Len(L[b]) => <<b, k>> \in Places(L)
<1>1. \A b \in Blocks : L[b] \in Seq(Nodes) /\ DOMAIN L[b] = 1..Len(L[b])
  BY DEF Logs
<1>2. ASSUME NEW p \in Places(L)
      PROVE  /\ p[1] \in Blocks /\ p[2] \in 1..Len(L[p[1]]) /\ p = <<p[1], p[2]>>
             /\ At(L, p) \in Nodes
  <2>1. PICK b \in Blocks : p \in {<<b, k>> : k \in DOMAIN L[b]}
    BY DEF Places
  <2>2. PICK k \in DOMAIN L[b] : p = <<b, k>>
    BY <2>1
  <2>3. L[b][k] \in Nodes
    BY <1>1, <2>2
  <2> QED BY <1>1, <2>2, <2>3 DEF At
<1>3. ASSUME NEW b \in Blocks, NEW k \in Nat, k \in 1..Len(L[b])
      PROVE  <<b, k>> \in Places(L)
  BY <1>1, <1>3 DEF Places
<1> QED BY <1>2, <1>3

\* A block has no used nodes when its nodes are dead or obsolete.
LEMMA UsedFacts ==
    ASSUME NEW L \in Logs, NEW b \in Blocks, NEW o
    PROVE  /\ Used(L, b, o) = {} <=> \A p \in Places(L) : p[1] = b /\ p \notin o => At(L, p) = Dead
           /\ \A p \in Places(L) : p[1] = b /\ p \notin o /\ At(L, p) # Dead => p[2] \in Used(L, b, o)
<1>1. DOMAIN L[b] = 1..Len(L[b]) /\ Len(L[b]) \in Nat
  BY DEF Logs
<1>2. ASSUME NEW p \in Places(L), p[1] = b, p \notin o, At(L, p) # Dead
      PROVE  p[2] \in Used(L, b, o)
  BY <1>1, <1>2, PlaceFacts DEF Used, At
<1>3. ASSUME NEW k \in Used(L, b, o)
      PROVE  \E p \in Places(L) : p[1] = b /\ p \notin o /\ At(L, p) # Dead
  <2>1. <<b, k>> \in Places(L)
    BY <1>1, <1>3, PlaceFacts DEF Used
  <2>2. At(L, <<b, k>>) = L[b][k]
    BY DEF At
  <2> QED BY <1>3, <2>1, <2>2 DEF Used
<1> QED BY <1>2, <1>3

\* A node x appended to block b, and its place.
Add(L, b, x) == [L EXCEPT ![b] = Append(@, x)]
Slot(L, b) == <<b, Len(L[b]) + 1>>

\* The log with x appended to block b.
LEMMA Appended ==
    ASSUME NEW L \in Logs, NEW b \in Blocks, NEW x \in Nodes
    PROVE  /\ Add(L, b, x) \in Logs
           /\ Places(Add(L, b, x)) = Places(L) \cup {Slot(L, b)} /\ Slot(L, b) \notin Places(L)
           /\ At(Add(L, b, x), Slot(L, b)) = x
           /\ \A p \in Places(L) : At(Add(L, b, x), p) = At(L, p)
           /\ Len(Add(L, b, x)[b]) = Len(L[b]) + 1
           /\ \A c \in Blocks \ {b} : Add(L, b, x)[c] = L[c]
<1> DEFINE M == Add(L, b, x)
           np == Slot(L, b)
<1>1. L[b] \in Seq(Nodes) /\ Len(L[b]) \in Nat /\ np = <<b, Len(L[b]) + 1>>
  BY DEF Logs, Slot
<1>2. M \in Logs /\ M[b] = Append(L[b], x) /\ \A c \in Blocks \ {b} : M[c] = L[c]
  BY <1>1 DEF Logs, Add
<1>3. Len(M[b]) = Len(L[b]) + 1 /\ M[b][Len(L[b]) + 1] = x
      /\ \A k \in 1..Len(L[b]) : M[b][k] = L[b][k]
  BY <1>1, <1>2
<1> HIDE DEF M, np
<1>4. np \in Places(M) /\ np \notin Places(L) /\ At(M, np) = x
  BY <1>1, <1>2, <1>3, PlaceFacts DEF At
<1>5. ASSUME NEW p \in Places(L) PROVE p \in Places(M) /\ At(M, p) = At(L, p)
  <2>1. p[1] \in Blocks /\ p[2] \in 1..Len(L[p[1]]) /\ p = <<p[1], p[2]>>
    BY PlaceFacts
  <2>2. p[2] \in 1..Len(M[p[1]]) /\ M[p[1]][p[2]] = L[p[1]][p[2]]
    BY <1>1, <1>2, <1>3, <2>1
  <2> QED BY <1>2, <2>1, <2>2, PlaceFacts DEF At
<1>6. ASSUME NEW p \in Places(M), p # np PROVE p \in Places(L)
  <2>1. p[1] \in Blocks /\ p[2] \in 1..Len(M[p[1]]) /\ p = <<p[1], p[2]>>
    BY <1>2, PlaceFacts
  <2>2. p[2] \in 1..Len(L[p[1]])
    BY <1>1, <1>2, <1>3, <1>6, <2>1
  <2> QED BY <2>1, <2>2, PlaceFacts
<1>7. Places(M) = Places(L) \cup {np}
  BY <1>4, <1>5, <1>6
<1> QED BY <1>2, <1>3, <1>4, <1>5, <1>7 DEF M, np

\* A sequence with n slots of padding behind it.
LEMMA PaddedSeq ==
    ASSUME NEW S, NEW s \in Seq(S), NEW n \in Nat, NEW t, t = s \o [k \in 1..n |-> Dead]
    PROVE  /\ t \in Seq(S \cup {Dead}) /\ Len(t) = Len(s) + n
           /\ \A k \in 1..Len(s) : t[k] = s[k]
           /\ \A k \in (Len(s) + 1)..(Len(s) + n) : t[k] = Dead
<1> DEFINE z == [k \in 1..n |-> Dead]
<1>1. z \in [1..n -> S \cup {Dead}] /\ \A k \in 1..n : z[k] = Dead
  OBVIOUS
<1> HIDE DEF z
<1>2. z \in Seq(S \cup {Dead}) /\ Len(z) = n /\ s \in Seq(S \cup {Dead})
  BY <1>1
<1>3. t = s \o z
  BY DEF z
<1>4. t \in Seq(S \cup {Dead}) /\ Len(t) = Len(s) + n
  BY <1>2, <1>3
<1>5. \A k \in 1..Len(s) : t[k] = s[k]
  BY <1>2, <1>3
<1>6. ASSUME NEW k \in (Len(s) + 1)..(Len(s) + n) PROVE t[k] = Dead
  <2>1. Len(s) \in Nat /\ k - Len(s) \in 1..n
    OBVIOUS
  <2>2. t[k] = z[k - Len(s)]
    BY <1>2, <1>3, <2>1
  <2> QED BY <1>1, <2>1, <2>2
<1> QED BY <1>4, <1>5, <1>6

\* The log with n slots of padding in block b.
Pad(L, b, n) == [L EXCEPT ![b] = @ \o [k \in 1..n |-> Dead]]

\* F holds what L has at the places P, and dead nodes.
Holds(F, L, P) ==
    /\ F \in Logs /\ P \subseteq Places(F) /\ \A p \in P : At(F, p) = At(L, p)
    /\ \A p \in Places(F) \ P : At(F, p) = Dead

\* Padding adds dead nodes and nothing else.
LEMMA PaddedLog ==
    ASSUME NEW L \in Logs, NEW b \in Blocks, NEW n \in Nat
    PROVE  Holds(Pad(L, b, n), L, Places(L))
<1>0. PICK M : M = Pad(L, b, n)
  OBVIOUS
<1>1. L[b] \in Seq(Nodes) /\ Len(L[b]) \in Nat /\ Nodes \cup {Dead} = Nodes
  BY DEF Logs, Nodes
<1>2. M[b] = L[b] \o [k \in 1..n |-> Dead] /\ M = [c \in Blocks |-> M[c]]
      /\ \A c \in Blocks \ {b} : M[c] = L[c]
  BY <1>0 DEF Logs, Pad
<1>3. /\ M[b] \in Seq(Nodes) /\ Len(M[b]) = Len(L[b]) + n
      /\ \A k \in 1..Len(L[b]) : M[b][k] = L[b][k]
      /\ \A k \in (Len(L[b]) + 1)..(Len(L[b]) + n) : M[b][k] = Dead
  <2>1. PICK s \in Seq(Nodes) : s = L[b]
    BY <1>1
  <2>2. PICK t : t = M[b]
    OBVIOUS
  <2>3. t = s \o [k \in 1..n |-> Dead]
    BY <1>2, <2>1, <2>2
  <2>4. /\ t \in Seq(Nodes \cup {Dead}) /\ Len(t) = Len(s) + n
        /\ \A k \in 1..Len(s) : t[k] = s[k]
        /\ \A k \in (Len(s) + 1)..(Len(s) + n) : t[k] = Dead
    BY ONLY <2>3, s \in Seq(Nodes), n \in Nat, PaddedSeq
  <2> QED BY <1>1, <2>1, <2>2, <2>4
<1>4. M \in Logs
  BY <1>2, <1>3 DEF Logs
<1>5. ASSUME NEW p \in Places(L) PROVE p \in Places(M) /\ At(M, p) = At(L, p)
  <2>1. p[1] \in Blocks /\ p[2] \in 1..Len(L[p[1]]) /\ p = <<p[1], p[2]>>
    BY PlaceFacts
  <2>2. CASE p[1] = b
    <3>1. p[2] \in 1..Len(M[b]) /\ M[b][p[2]] = L[b][p[2]]
      BY <1>1, <1>3, <2>1, <2>2
    <3> QED BY <1>4, <2>1, <2>2, <3>1, PlaceFacts DEF At
  <2>3. CASE p[1] # b
    <3>1. M[p[1]] = L[p[1]]
      BY <1>2, <2>1, <2>3
    <3> QED BY <1>4, <2>1, <3>1, PlaceFacts DEF At
  <2> QED BY <2>2, <2>3
<1>6. ASSUME NEW p \in Places(M) \ Places(L) PROVE At(M, p) = Dead
  <2>1. p[1] \in Blocks /\ p[2] \in 1..Len(M[p[1]]) /\ p = <<p[1], p[2]>>
    BY <1>4, PlaceFacts
  <2>2. p[2] \notin 1..Len(L[p[1]])
    BY <2>1, PlaceFacts
  <2>3. p[1] = b
    BY <1>2, <2>1, <2>2
  <2>4. p[2] \in (Len(L[b]) + 1)..(Len(L[b]) + n)
    BY <1>1, <1>3, <2>1, <2>2, <2>3
  <2> QED BY <1>3, <2>3, <2>4 DEF At
<1> QED BY <1>0, <1>4, <1>5, <1>6 DEF Holds

(***************************************************************************)
(* The inductive invariant, in terms of a log L, obsolete nodes o, lists l *)
(* and w nodes in the write buffer.                                        *)
(***************************************************************************)

\* p is the newest of its name among the places P of L.
NewestIn(L, P, p) ==
    \A q \in P \cap Dirents(L, At(L, p).name) : At(L, q).version <= At(L, p).version

\* Of the nodes of L at the places P, the newest entry of a name has an inode node.
Good(L, P) ==
    \A p \in P \cap Of(L, "dirent") :
        NewestIn(L, P, p) /\ At(L, p).ino # 0 => InodeNodes(L, At(L, p).ino) \cap P # {}

\* p is the entry of a file that the nodes of L at the places P show, and P and Q show
\* the same ones.
Shows(L, P, p) == p \in P /\ NewestIn(L, P, p) /\ At(L, p).ino # 0
Alike(L, P, Q) == \A p \in Of(L, "dirent") : Shows(L, P, p) <=> Shows(L, Q, p)

\* No two entries have the same version.
Distinct(L) ==
    \A p, q \in Of(L, "dirent") : At(L, p).version = At(L, q).version => p = q

\* An entry that counts is the newest of its name and has an inode; if none counts, every
\* entry of the name shares its block with a newer deletion entry, and goes with it.
EntriesOK(L, o, v) ==
    /\ \A p \in Of(L, "dirent") : At(L, p).version <= v
    /\ \A p \in Of(L, "dirent") \ o : NewestIn(L, Places(L), p)
    /\ \A n \in Names : Dirents(L, n) \subseteq o =>
          \A q \in Dirents(L, n) : At(L, q).ino # 0 =>
              \E p \in Dirents(L, n) : /\ p[1] = q[1] /\ At(L, p).ino = 0
                                       /\ At(L, p).version > At(L, q).version
    /\ \A p \in Of(L, "dirent") \ o : At(L, p).ino # 0 => InodeNodes(L, At(L, p).ino) \ o # {}

\* Blocks that are filed as empty, erasable or erased have no used nodes.
Blank(L, o, l) == \A b \in Blocks : l[b] \in Lists \ {"next", "closed", "gc"} => Used(L, b, o) = {}

\* The lists a block is on agree with its nodes and with the write buffer.
BlocksOK(L, o, l, w) ==
    /\ l \in [Blocks -> Lists]
    /\ Blank(L, o, l)
    /\ \A b, c \in Blocks : l[b] = "next" /\ l[c] = "next" => b = c
    /\ w > 0 => \E b \in Blocks : l[b] = "next"
    /\ \A b \in Blocks : l[b] = "next" => w <= Len(L[b])

\* Blocks that may be erased before the write buffer gets to the flash.
Doomed(L, o, l) ==
    {b \in Blocks : Used(L, b, o) = {} /\ l[b] \notin {"next", "erasable_pending_wbuf"}}

\* The places left without the blocks S, and when in addition only j nodes of the write
\* buffer get to the flash.
Whole(L, S) == {p \in Places(L) : p[1] \notin S}
Cut(L, l, w, j, S) == {p \in Whole(L, S) : l[p[1]] = "next" => p[2] <= Len(L[p[1]]) - w + j}

\* Wherever the write buffer is cut off and whichever of these blocks are erased, entries
\* have inodes, and they are the same as if none had been erased.
FlashOK(L, o, l, w) ==
    \A j \in 0..w : \A S \in SUBSET Doomed(L, o, l) :
        Good(L, Cut(L, l, w, j, S)) /\ Alike(L, Cut(L, l, w, j, S), Cut(L, l, w, j, {}))

\* The directory in core, and the names of an inode in a directory D.
DirOf(L, o) == [n \in Names |->
    IF Dirents(L, n) \ o = {} THEN 0 ELSE At(L, CHOOSE p \in Dirents(L, n) \ o : TRUE).ino]
NamesOf(D, i) == {n \in Names : D[n] = i}

\* Half-way through a rename the file has a name that nlink does not count.
Extra(r, i) == IF r.call = "rename" /\ Len(r.todo) = 1 /\ r.ino = i THEN 1 ELSE 0

\* nlink counts at least the names of an inode.
LinksOK(D, r, nl, h) ==
    \A i \in Inos : /\ Cardinality(NamesOf(D, i)) <= nl[i] + Extra(r, i)
                    /\ i > h => nl[i] = 0

\* Where the operation r is, given the directory D and the inodes I that have a node.
OpOK(D, I, r, nl) ==
    \/ r = NoOp
    \/ /\ r.ino \in Inos /\ nl[r.ino] > 0 /\ r.ver = 0
       /\ \E n \in Names :
           \/ /\ r.call = "create" /\ r.todo = <<Inode(r.ino), Dirent(n, r.ino, 0)>>
              /\ Cardinality(NamesOf(D, r.ino)) < nl[r.ino]
           \/ /\ r.call = "create" /\ r.todo = <<Dirent(n, r.ino, 0)>> /\ r.ino \in I
              /\ Cardinality(NamesOf(D, r.ino)) < nl[r.ino]
           \/ r.call = "link" /\ r.todo = <<Dirent(n, r.ino, 0)>> /\ r.ino \in I
           \/ r.call = "unlink" /\ r.todo = <<Dirent(n, 0, 0)>> /\ D[n] = r.ino
           \/ r.call = "rename" /\ r.todo = <<Dirent(n, 0, 0)>> /\ D[n] = r.ino
           \/ /\ r.call = "rename" /\ D[n] = r.ino
              /\ \E m \in Names : D[m] # r.ino /\ r.todo = <<Dirent(m, r.ino, 0), Dirent(n, 0, 0)>>

Ops == [call : Calls, todo : Seq(Nodes), ino : Inos \cup {0}, held : BOOLEAN, ver : Nat, retried : BOOLEAN]

Living(L, o) == {i \in Inos : InodeNodes(L, i) \ o # {}}

NandType ==
    /\ log \in Logs /\ obs \subseteq Places(log) /\ clearing = {}
    /\ wbuf \in Nat /\ hv \in 0..MaxVer /\ hino \in Nat \ {0}
    /\ nlink \in [Inos -> Nat]
    /\ op \in Ops

UpOK ==
    /\ EntriesOK(log, obs, hv) /\ BlocksOK(log, obs, list, wbuf) /\ FlashOK(log, obs, list, wbuf)
    /\ OpOK(DirOf(log, obs), Living(log, obs), op, nlink) /\ LinksOK(DirOf(log, obs), op, nlink, hino)

\* What holds of JFFS2 on NAND at every moment.
NandInv ==
    medium = "nand" =>
        /\ NandType /\ Distinct(log)
        /\ fsState = "up" => UpOK
        /\ fsState # "up" => wbuf = 0 /\ Good(log, Places(log))

(***************************************************************************)
(* What the invariant says of a log.                                       *)
(***************************************************************************)

\* The fields of the entries and inode nodes of a log.
LEMMA EntryFacts ==
    ASSUME NEW L \in Logs
    PROVE  /\ \A p \in Of(L, "dirent") :
                /\ p \in Places(L) /\ At(L, p).type = "dirent" /\ At(L, p) # Dead
                /\ At(L, p).name \in Names /\ At(L, p).ino \in Inos \cup {0}
                /\ At(L, p).version \in 0..MaxVer /\ At(L, p).version \in Nat
                /\ p \in Dirents(L, At(L, p).name)
           /\ \A n : \A p \in Dirents(L, n) : p \in Of(L, "dirent") /\ At(L, p).name = n
           /\ \A i : \A p \in InodeNodes(L, i) :
                /\ p \in Places(L) /\ At(L, p).type = "inode" /\ At(L, p) # Dead
                /\ At(L, p).ino = i /\ i \in Inos
<1>1. ASSUME NEW p \in Of(L, "dirent")
      PROVE  /\ p \in Places(L) /\ At(L, p).type = "dirent" /\ At(L, p) # Dead
             /\ At(L, p).name \in Names /\ At(L, p).ino \in Inos \cup {0}
             /\ At(L, p).version \in 0..MaxVer /\ At(L, p).version \in Nat
             /\ p \in Dirents(L, At(L, p).name)
  <2>1. p \in Places(L) /\ At(L, p).type = "dirent" /\ At(L, p) \in Nodes
    BY PlaceFacts DEF Of
  <2>2. MaxVer \in Nat
    BY Jffs2Assumption
  <2> QED BY <2>1, <2>2, NodeKinds DEF Dirents
<1>2. ASSUME NEW i, NEW p \in InodeNodes(L, i)
      PROVE  /\ p \in Places(L) /\ At(L, p).type = "inode" /\ At(L, p) # Dead
             /\ At(L, p).ino = i /\ i \in Inos
  <2>1. p \in Places(L) /\ At(L, p).type = "inode" /\ At(L, p) \in Nodes /\ At(L, p).ino = i
    BY PlaceFacts DEF Of, InodeNodes
  <2> QED BY <2>1, NodeKinds
<1>3. \A n : \A p \in Dirents(L, n) : p \in Of(L, "dirent") /\ At(L, p).name = n
  BY DEF Dirents
<1> QED BY <1>1, <1>2, <1>3

\* At most one entry of a name counts.
LEMMA OneEntry ==
    ASSUME NEW L \in Logs, NEW o, NEW v, EntriesOK(L, o, v), Distinct(L),
           NEW n, NEW p \in Dirents(L, n) \ o, NEW q \in Dirents(L, n) \ o
    PROVE  p = q
<1>1. p \in Of(L, "dirent") /\ q \in Of(L, "dirent") /\ At(L, p).name = n /\ At(L, q).name = n
      /\ p \in Places(L) /\ q \in Places(L) /\ At(L, p).version \in Nat /\ At(L, q).version \in Nat
  BY EntryFacts
<1>2. At(L, q).version <= At(L, p).version /\ At(L, p).version <= At(L, q).version
  BY <1>1 DEF EntriesOK, NewestIn
<1>3. At(L, q).version = At(L, p).version
  BY <1>1, <1>2
<1> QED BY <1>1, <1>3 DEF Distinct

\* The directory in core holds what the entries say that count.
LEMMA DirFacts ==
    ASSUME NEW L \in Logs, NEW o, NEW v, EntriesOK(L, o, v), Distinct(L)
    PROVE  /\ DirOf(L, o) \in [Names -> Inos \cup {0}]
           /\ \A n \in Names : Dirents(L, n) \subseteq o => DirOf(L, o)[n] = 0
           /\ \A n \in Names : \A p \in Dirents(L, n) \ o : DirOf(L, o)[n] = At(L, p).ino
           /\ \A n \in Names : DirOf(L, o)[n] # 0 =>
                 \E p \in Dirents(L, n) \ o : DirOf(L, o)[n] = At(L, p).ino
<1>1. ASSUME NEW n \in Names, NEW p \in Dirents(L, n) \ o
      PROVE  DirOf(L, o)[n] = At(L, p).ino /\ At(L, p).ino \in Inos \cup {0}
  <2>1. (CHOOSE q \in Dirents(L, n) \ o : TRUE) \in Dirents(L, n) \ o
    BY <1>1
  <2>2. (CHOOSE q \in Dirents(L, n) \ o : TRUE) = p
    BY <2>1, OneEntry
  <2>3. DirOf(L, o)[n] = At(L, p).ino
    BY <1>1, <2>2 DEF DirOf
  <2> QED BY <2>3, EntryFacts
<1>2. ASSUME NEW n \in Names, Dirents(L, n) \subseteq o
      PROVE  DirOf(L, o)[n] = 0
  BY <1>2 DEF DirOf
<1>3. \A n \in Names : DirOf(L, o)[n] \in Inos \cup {0}
  <2> TAKE n \in Names
  <2>1. CASE Dirents(L, n) \subseteq o
    BY <1>2, <2>1
  <2>2. CASE ~(Dirents(L, n) \subseteq o)
    BY <1>1, <2>2
  <2> QED BY <2>1, <2>2
<1>4. DirOf(L, o) \in [Names -> Inos \cup {0}]
  <2>1. DirOf(L, o) = [n \in Names |-> DirOf(L, o)[n]]
    BY DEF DirOf
  <2> QED BY <1>3, <2>1
<1>5. ASSUME NEW n \in Names, DirOf(L, o)[n] # 0
      PROVE  \E p \in Dirents(L, n) \ o : DirOf(L, o)[n] = At(L, p).ino
  BY <1>1, <1>2, <1>5
<1> QED BY <1>1, <1>2, <1>4, <1>5

\* Without blocks that have no used nodes, every entry that is then newest has its inode.
LEMMA WholeGood ==
    ASSUME NEW L \in Logs, NEW o, NEW v, EntriesOK(L, o, v), Distinct(L),
           NEW S, \A b \in S \cap Blocks : Used(L, b, o) = {}
    PROVE  Good(L, Whole(L, S))
<1> DEFINE P == Whole(L, S)
<1>0. ASSUME NEW q \in Places(L), q \notin o, At(L, q) # Dead
      PROVE  q \in P
  BY <1>0, PlaceFacts, UsedFacts DEF Whole
<1>1. SUFFICES ASSUME NEW p \in P \cap Of(L, "dirent"), NewestIn(L, P, p), At(L, p).ino # 0
               PROVE  InodeNodes(L, At(L, p).ino) \cap P # {}
  BY DEF Good
<1> DEFINE n == At(L, p).name
<1>2. n \in Names /\ p \in Places(L) /\ At(L, p).version \in Nat /\ p \in Dirents(L, n)
  BY EntryFacts
<1>3. CASE Dirents(L, n) \subseteq o
  <2>1. PICK r \in Dirents(L, n) : r[1] = p[1] /\ At(L, r).version > At(L, p).version
    BY <1>1, <1>2, <1>3 DEF EntriesOK
  <2>2. r \in P /\ At(L, r).version \in Nat
    BY <2>1, EntryFacts DEF Whole
  <2>3. At(L, r).version <= At(L, p).version
    BY <1>1, <2>1, <2>2 DEF NewestIn
  <2> QED BY <1>2, <2>1, <2>2, <2>3
<1>4. CASE ~(Dirents(L, n) \subseteq o)
  <2>1. PICK q \in Dirents(L, n) : q \notin o
    BY <1>4
  <2>2. q \in Of(L, "dirent") /\ At(L, q).name = n /\ q \in P /\ At(L, q).version \in Nat
    BY <1>0, <2>1, EntryFacts
  <2>3. At(L, q).version <= At(L, p).version
    BY <1>1, <2>1, <2>2 DEF NewestIn
  <2>4. At(L, p).version <= At(L, q).version
    BY <1>2, <2>1, <2>2 DEF EntriesOK, NewestIn
  <2>5. At(L, p).version = At(L, q).version
    BY <1>2, <2>2, <2>3, <2>4
  <2>6. p = q
    BY <1>1, <2>2, <2>5 DEF Distinct
  <2>7. PICK r \in InodeNodes(L, At(L, p).ino) : r \notin o
    BY <1>1, <2>1, <2>2, <2>6 DEF EntriesOK
  <2>8. r \in P
    BY <1>0, <2>7, EntryFacts
  <2> QED BY <2>7, <2>8
<1> QED BY <1>3, <1>4

\* Nor does erasing such blocks change which entries are shown.
LEMMA WholeAlike ==
    ASSUME NEW L \in Logs, NEW o, NEW v, EntriesOK(L, o, v), Distinct(L),
           NEW S, \A b \in S \cap Blocks : Used(L, b, o) = {}
    PROVE  Alike(L, Whole(L, S), Whole(L, {}))
<1>0. ASSUME NEW q \in Places(L), q \notin o, At(L, q) # Dead
      PROVE  q \in Whole(L, S) /\ q \in Whole(L, {})
  BY <1>0, PlaceFacts, UsedFacts DEF Whole
<1>1. ASSUME NEW T, T \in {S, {}}, NEW p \in Of(L, "dirent"), Shows(L, Whole(L, T), p)
      PROVE  p \notin o
  <2> DEFINE n == At(L, p).name
             P == Whole(L, T)
  <2>1. n \in Names /\ p \in Places(L) /\ At(L, p).version \in Nat /\ p \in Dirents(L, n)
    BY EntryFacts
  <2>2. p \in P /\ NewestIn(L, P, p) /\ At(L, p).ino # 0
    BY <1>1 DEF Shows
  <2>3. CASE Dirents(L, n) \subseteq o
    <3>1. PICK r \in Dirents(L, n) : r[1] = p[1] /\ At(L, r).version > At(L, p).version
      BY <2>1, <2>2, <2>3 DEF EntriesOK
    <3>2. r \in P /\ At(L, r).version \in Nat
      BY <2>2, <3>1, EntryFacts DEF Whole
    <3>3. At(L, r).version <= At(L, p).version
      BY <2>2, <3>1, <3>2 DEF NewestIn
    <3> QED BY <2>1, <3>1, <3>2, <3>3
  <2>4. CASE ~(Dirents(L, n) \subseteq o)
    <3>1. PICK q \in Dirents(L, n) : q \notin o
      BY <2>4
    <3>2. q \in Of(L, "dirent") /\ At(L, q).name = n /\ q \in P /\ At(L, q).version \in Nat
      BY <1>0, <1>1, <3>1, EntryFacts
    <3>3. At(L, q).version <= At(L, p).version
      BY <2>2, <3>1, <3>2 DEF NewestIn
    <3>4. At(L, p).version <= At(L, q).version
      BY <2>1, <3>1, <3>2 DEF EntriesOK, NewestIn
    <3>5. At(L, p).version = At(L, q).version
      BY <2>1, <3>2, <3>3, <3>4
    <3>6. p = q
      BY <3>2, <3>5 DEF Distinct
    <3> QED BY <3>1, <3>6
  <2> QED BY <2>3, <2>4
<1>2. ASSUME NEW T, T \in {S, {}}, NEW p \in Of(L, "dirent"), p \notin o, At(L, p).ino # 0
      PROVE  Shows(L, Whole(L, T), p)
  <2>1. p \in Whole(L, T)
    BY <1>0, <1>2, EntryFacts
  <2>2. NewestIn(L, Places(L), p) /\ Whole(L, T) \subseteq Places(L)
    BY <1>2 DEF EntriesOK, Whole
  <2> QED BY <1>2, <2>1, <2>2 DEF Shows, NewestIn
<1>3. \A T, p : Shows(L, Whole(L, T), p) => At(L, p).ino # 0
  BY DEF Shows
<1> QED BY <1>1, <1>2, <1>3 DEF Alike

\* What is shown depends on the nodes at the places only.
LEMMA AlikeSame ==
    ASSUME NEW L, NEW M, NEW P, NEW Q, Alike(L, P, Q),
           P \subseteq Places(L), P \subseteq Places(M), Q \subseteq Places(L), Q \subseteq Places(M),
           \A p \in P \cup Q : At(M, p) = At(L, p)
    PROVE  Alike(M, P, Q)
<1>1. ASSUME NEW R, R \in {P, Q}, NEW p \in Of(M, "dirent"), p \in R
      PROVE  p \in Of(L, "dirent") /\ (Shows(M, R, p) <=> Shows(L, R, p))
  <2>1. R \subseteq Places(L) /\ R \subseteq Places(M) /\ \A q \in R : At(M, q) = At(L, q)
    BY <1>1
  <2>2. R \cap Of(M, "dirent") = R \cap Of(L, "dirent")
    BY <2>1 DEF Of
  <2>3. \A n : R \cap Dirents(M, n) = R \cap Dirents(L, n)
    BY <2>1, <2>2 DEF Dirents
  <2>4. NewestIn(M, R, p) <=> NewestIn(L, R, p)
    BY <1>1, <2>1, <2>3 DEF NewestIn
  <2> QED BY <1>1, <2>1, <2>2, <2>4 DEF Shows
<1>2. \A R, p : Shows(M, R, p) => p \in R
  BY DEF Shows
<1>3. ASSUME NEW p \in Of(M, "dirent"), Shows(M, P, p) PROVE Shows(M, Q, p)
  <2>1. p \in Of(L, "dirent") /\ Shows(L, P, p)
    BY <1>1, <1>2, <1>3
  <2>2. Shows(L, Q, p) /\ p \in Q
    BY <2>1 DEF Alike, Shows
  <2> QED BY <1>1, <2>2
<1>4. ASSUME NEW p \in Of(M, "dirent"), Shows(M, Q, p) PROVE Shows(M, P, p)
  <2>1. p \in Of(L, "dirent") /\ Shows(L, Q, p)
    BY <1>1, <1>2, <1>4
  <2>2. Shows(L, P, p) /\ p \in P
    BY <2>1 DEF Alike, Shows
  <2> QED BY <1>1, <2>2
<1> QED BY <1>3, <1>4 DEF Alike

\* Good speaks of the nodes at P only, and not of dead ones.
LEMMA GoodSame ==
    ASSUME NEW L, NEW M, NEW P, NEW Q, Good(L, P),
           P \subseteq Places(L), P \subseteq Q, Q \subseteq Places(M),
           \A p \in P : At(M, p) = At(L, p), \A p \in Q \ P : At(M, p) = Dead
    PROVE  Good(M, Q)
<1>0. Dead.type = "dead"
  BY DEF Dead
<1>1. Q \cap Of(M, "dirent") = P \cap Of(L, "dirent")
  BY <1>0 DEF Of
<1>2. \A n : Q \cap Dirents(M, n) = P \cap Dirents(L, n)
  <2>1. \A n : Q \cap Dirents(M, n) = {p \in Q \cap Of(M, "dirent") : At(M, p).name = n}
    BY DEF Dirents
  <2>2. \A n : P \cap Dirents(L, n) = {p \in P \cap Of(L, "dirent") : At(L, p).name = n}
    BY DEF Dirents
  <2> QED BY <1>1, <2>1, <2>2
<1>3. \A i : P \cap InodeNodes(L, i) \subseteq Q \cap InodeNodes(M, i)
  BY DEF InodeNodes, Of
<1>4. SUFFICES ASSUME NEW p \in Q \cap Of(M, "dirent"), NewestIn(M, Q, p), At(M, p).ino # 0
               PROVE  InodeNodes(M, At(M, p).ino) \cap Q # {}
  BY DEF Good
<1>5. p \in P \cap Of(L, "dirent") /\ At(M, p) = At(L, p)
  BY <1>1, <1>4
<1>6. NewestIn(L, P, p)
  <2> SUFFICES ASSUME NEW q \in P \cap Dirents(L, At(L, p).name)
               PROVE  At(L, q).version <= At(L, p).version
    BY DEF NewestIn
  <2>1. q \in Q \cap Dirents(M, At(M, p).name) /\ At(M, q) = At(L, q)
    BY <1>2, <1>5
  <2> QED BY <1>4, <1>5, <2>1 DEF NewestIn
<1>7. InodeNodes(L, At(L, p).ino) \cap P # {}
  BY <1>4, <1>5, <1>6 DEF Good
<1> QED BY <1>3, <1>5, <1>7

\* With nothing in the write buffer nothing can be cut off.
LEMMA WrittenFlash ==
    ASSUME NEW L \in Logs, NEW o, NEW v, EntriesOK(L, o, v), Distinct(L), NEW l
    PROVE  FlashOK(L, o, l, 0)
<1> SUFFICES ASSUME NEW j \in 0..0, NEW S \in SUBSET Doomed(L, o, l)
             PROVE  Good(L, Cut(L, l, 0, j, S)) /\ Alike(L, Cut(L, l, 0, j, S), Cut(L, l, 0, j, {}))
  BY DEF FlashOK
<1>1. \A p \in Places(L) : p[2] <= Len(L[p[1]]) - 0 + j
  BY PlaceFacts DEF Logs
<1>2. \A T : Cut(L, l, 0, j, T) = Whole(L, T)
  BY <1>1 DEF Cut, Whole
<1>3. \A b \in S \cap Blocks : Used(L, b, o) = {}
  BY DEF Doomed
<1> QED BY <1>2, <1>3, WholeGood, WholeAlike

(***************************************************************************)
(* A node is written.                                                      *)
(***************************************************************************)

\* The kinds of nodes after an append.
LEMMA AppendKinds ==
    ASSUME NEW L \in Logs, NEW b \in Blocks, NEW x \in Nodes,
           NEW M, M = Add(L, b, x), NEW np, np = Slot(L, b)
    PROVE  /\ x.type = "dirent" => /\ Of(M, "dirent") = Of(L, "dirent") \cup {np}
                                   /\ Dirents(M, x.name) = Dirents(L, x.name) \cup {np}
                                   /\ \A n : n # x.name => Dirents(M, n) = Dirents(L, n)
                                   /\ \A i : InodeNodes(M, i) = InodeNodes(L, i)
           /\ x.type = "inode"  => /\ Of(M, "dirent") = Of(L, "dirent")
                                   /\ \A n : Dirents(M, n) = Dirents(L, n)
                                   /\ InodeNodes(M, x.ino) = InodeNodes(L, x.ino) \cup {np}
                                   /\ \A i : i # x.ino => InodeNodes(M, i) = InodeNodes(L, i)
<1>1. /\ Places(M) = Places(L) \cup {np} /\ np \notin Places(L)
      /\ At(M, np) = x /\ \A p \in Places(L) : At(M, p) = At(L, p)
  BY Appended
<1>2. \A t : Of(M, t) = Of(L, t) \cup (IF x.type = t THEN {np} ELSE {})
  BY <1>1 DEF Of
<1>3. \A t : \A p \in Of(L, t) : p # np /\ At(M, p) = At(L, p)
  BY <1>1 DEF Of
<1>4. CASE x.type = "dirent"
  <2>1. Of(M, "dirent") = Of(L, "dirent") \cup {np} /\ Of(M, "inode") = Of(L, "inode")
    BY <1>2, <1>4
  <2>2. Dirents(M, x.name) = Dirents(L, x.name) \cup {np}
    BY <1>1, <1>3, <2>1 DEF Dirents
  <2>3. \A n : n # x.name => Dirents(M, n) = Dirents(L, n)
    BY <1>1, <1>3, <2>1 DEF Dirents
  <2>4. \A i : InodeNodes(M, i) = InodeNodes(L, i)
    BY <1>3, <2>1 DEF InodeNodes
  <2> QED BY <1>4, <2>1, <2>2, <2>3, <2>4
<1>5. CASE x.type = "inode"
  <2>1. Of(M, "dirent") = Of(L, "dirent") /\ Of(M, "inode") = Of(L, "inode") \cup {np}
    BY <1>2, <1>5
  <2>2. InodeNodes(M, x.ino) = InodeNodes(L, x.ino) \cup {np}
    BY <1>1, <1>3, <2>1 DEF InodeNodes
  <2>3. \A i : i # x.ino => InodeNodes(M, i) = InodeNodes(L, i)
    BY <1>1, <1>3, <2>1 DEF InodeNodes
  <2>4. \A n : Dirents(M, n) = Dirents(L, n)
    BY <1>3, <2>1 DEF Dirents
  <2> QED BY <1>5, <2>1, <2>2, <2>3, <2>4
<1> QED BY <1>4, <1>5

\* A new entry takes the place of the one that counted.
LEMMA EntryStored ==
    ASSUME NEW L \in Logs, NEW o \in SUBSET Places(L), NEW v \in Nat, NEW w \in 0..MaxVer, w > v,
           EntriesOK(L, o, v), Distinct(L), NEW b \in Blocks,
           NEW n \in Names, NEW i \in Inos \cup {0}, i = 0 \/ i \in Living(L, o)
    PROVE  LET M == Add(L, b, Dirent(n, i, w))
               u == o \cup (Dirents(L, n) \ o)
           IN  /\ EntriesOK(M, u, w) /\ Distinct(M)
               /\ DirOf(M, u) = [DirOf(L, o) EXCEPT ![n] = i]
               /\ Living(M, u) = Living(L, o)
<1> DEFINE np == Slot(L, b)
           x  == Dirent(n, i, w)
           M  == Add(L, b, x)
           u  == o \cup (Dirents(L, n) \ o)
<1>a. M = Add(L, b, x) /\ u = o \cup (Dirents(L, n) \ o)
  OBVIOUS
<1> HIDE DEF M, u
<1> USE <1>a
<1>0. /\ x \in Nodes /\ w \in Nat /\ x.type = "dirent" /\ x.name = n /\ x.ino = i /\ x.version = w
  BY EntryIsNode, Jffs2Assumption
<1> HIDE DEF x
<1>1. /\ M \in Logs /\ Places(M) = Places(L) \cup {np} /\ np \notin Places(L)
      /\ At(M, np) = x /\ \A p \in Places(L) : At(M, p) = At(L, p)
  BY <1>0, Appended DEF x
<1>2. /\ Of(M, "dirent") = Of(L, "dirent") \cup {np}
      /\ Dirents(M, n) = Dirents(L, n) \cup {np}
      /\ \A m : m # n => Dirents(M, m) = Dirents(L, m)
      /\ \A k : InodeNodes(M, k) = InodeNodes(L, k)
  BY <1>0, AppendKinds DEF x
<1> HIDE DEF np
<1>3. \A p \in Of(L, "dirent") :
         /\ p \in Places(L) /\ At(M, p) = At(L, p) /\ p # np
         /\ At(L, p).version \in Nat /\ At(L, p).version <= v /\ At(L, p).name \in Names
  BY <1>1, EntryFacts DEF EntriesOK
<1>4. Distinct(M)
  <2> SUFFICES ASSUME NEW p \in Of(M, "dirent"), NEW q \in Of(M, "dirent"),
                      At(M, p).version = At(M, q).version
               PROVE  p = q
    BY DEF Distinct
  <2>1. CASE p \in Of(L, "dirent") /\ q \in Of(L, "dirent")
    BY <1>3, <2>1 DEF Distinct
  <2>2. CASE p = np \/ q = np
    BY <1>0, <1>1, <1>2, <1>3, <2>2
  <2> QED BY <1>2, <2>1, <2>2
<1>5. np \notin u /\ Dirents(L, n) \subseteq u /\ Dirents(M, n) \ u = {np}
      /\ \A m : m # n => Dirents(M, m) \ u = Dirents(L, m) \ o
  <2>1. np \notin u /\ Dirents(L, n) \subseteq u
    BY <1>1, EntryFacts
  <2>2. \A m : m # n => Dirents(L, n) \cap Dirents(L, m) = {}
    BY DEF Dirents
  <2> QED BY <1>2, <2>1, <2>2
<1>6. \A k : InodeNodes(M, k) \ u = InodeNodes(L, k) \ o
  <2>1. \A k : \A p \in InodeNodes(L, k) : p \notin Dirents(L, n)
    BY EntryFacts
  <2> QED BY <1>2, <2>1
<1>7. EntriesOK(M, u, w)
  <2>1. ASSUME NEW p \in Of(M, "dirent") PROVE At(M, p).version <= w
    BY <1>0, <1>1, <1>2, <1>3
  <2>2. ASSUME NEW p \in Of(M, "dirent") \ u PROVE NewestIn(M, Places(M), p)
    <3>1. CASE p = np
      BY <1>0, <1>1, <2>1, <3>1, EntryFacts DEF NewestIn
    <3>2. CASE p # np
      <4>1. p \in Of(L, "dirent") \ o /\ At(M, p) = At(L, p) /\ At(L, p).name # n
        BY <1>2, <1>3, <1>5, <2>2, <3>2, EntryFacts
      <4>2. NewestIn(L, Places(L), p)
        BY <4>1 DEF EntriesOK
      <4>3. \A q \in Dirents(M, At(M, p).name) : q \in Dirents(L, At(L, p).name) /\ q \in Places(L) /\ At(M, q) = At(L, q)
        BY <1>2, <1>3, <4>1, EntryFacts
      <4> QED BY <4>1, <4>2, <4>3 DEF NewestIn
    <3> QED BY <3>1, <3>2
  <2>3. ASSUME NEW m \in Names, Dirents(M, m) \subseteq u, NEW q \in Dirents(M, m), At(M, q).ino # 0
        PROVE  \E p \in Dirents(M, m) : /\ p[1] = q[1] /\ At(M, p).ino = 0
                                        /\ At(M, p).version > At(M, q).version
    <3>1. m # n
      BY <1>2, <1>5, <2>3
    <3>2. Dirents(M, m) = Dirents(L, m) /\ Dirents(L, m) \subseteq o
      BY <1>2, <1>5, <2>3, <3>1
    <3>3. \A p \in Dirents(L, m) : At(M, p) = At(L, p)
      BY <1>3, EntryFacts
    <3> QED BY <2>3, <3>2, <3>3 DEF EntriesOK
  <2>4. ASSUME NEW p \in Of(M, "dirent") \ u, At(M, p).ino # 0
        PROVE  InodeNodes(M, At(M, p).ino) \ u # {}
    <3>1. CASE p = np
      BY <1>0, <1>1, <1>6, <2>4, <3>1 DEF Living
    <3>2. CASE p # np
      <4>1. p \in Of(L, "dirent") \ o /\ At(M, p) = At(L, p)
        BY <1>2, <1>3, <2>4, <3>2
      <4> QED BY <1>6, <2>4, <4>1 DEF EntriesOK
    <3> QED BY <3>1, <3>2
  <2> QED BY <2>1, <2>2, <2>3, <2>4 DEF EntriesOK
<1>8. DirOf(M, u) = [DirOf(L, o) EXCEPT ![n] = i]
  <2>1. DirOf(L, o) \in [Names -> Inos \cup {0}] /\ DirOf(M, u) \in [Names -> Inos \cup {0}]
    BY <1>1, <1>4, <1>7, DirFacts
  <2>2. DirOf(M, u)[n] = i
    BY <1>0, <1>1, <1>4, <1>5, <1>7, DirFacts
  <2>3. ASSUME NEW m \in Names, m # n PROVE DirOf(M, u)[m] = DirOf(L, o)[m]
    <3>1. Dirents(M, m) \ u = Dirents(L, m) \ o
      BY <1>5, <2>3
    <3>2. CASE Dirents(L, m) \subseteq o
      <4>1. Dirents(M, m) \subseteq u
        BY <3>1, <3>2
      <4> QED BY <1>1, <1>4, <1>7, <3>2, <4>1, DirFacts
    <3>3. CASE ~(Dirents(L, m) \subseteq o)
      <4>1. PICK p \in Dirents(L, m) \ o : TRUE
        BY <3>3
      <4>2. p \in Dirents(M, m) \ u /\ At(M, p) = At(L, p)
        BY <1>3, <3>1, <4>1, EntryFacts
      <4>3. DirOf(L, o)[m] = At(L, p).ino
        BY <4>1, DirFacts
      <4>4. DirOf(M, u)[m] = At(M, p).ino
        BY <1>1, <1>4, <1>7, <4>2, DirFacts
      <4> QED BY <4>2, <4>3, <4>4
    <3> QED BY <3>2, <3>3
  <2> QED BY <2>1, <2>2, <2>3
<1>9. Living(M, u) = Living(L, o)
  BY <1>6 DEF Living
<1> QED BY <1>4, <1>7, <1>8, <1>9 DEF x, M, u

\* If the entries and their nodes stay, no entry that counts is lost and the inodes keep a
\* node, the directory stays.
LEMMA SameEntries ==
    ASSUME NEW L \in Logs, NEW M \in Logs, NEW o, NEW u, NEW v,
           EntriesOK(L, o, v), Distinct(L),
           Of(M, "dirent") = Of(L, "dirent"), \A n : Dirents(M, n) = Dirents(L, n),
           \A p \in Of(L, "dirent") : At(M, p) = At(L, p) /\ (p \in u <=> p \in o),
           \A n \in Names, i \in Inos : \A p \in Dirents(L, n) \ o :
               At(L, p).ino = i /\ i \in Living(L, o) => i \in Living(M, u)
    PROVE  EntriesOK(M, u, v) /\ Distinct(M) /\ DirOf(M, u) = DirOf(L, o)
<1>0. \A p \in Of(L, "dirent") : /\ p \in Places(L) /\ p \in Places(M) /\ At(L, p).name \in Names
                                 /\ p \in Dirents(L, At(L, p).name)
                                 /\ At(L, p).ino \in Inos \cup {0}
  BY EntryFacts
<1>1. Distinct(M)
  BY DEF Distinct
<1>2. \A n : \A p \in Dirents(L, n) : p \in Of(L, "dirent")
  BY EntryFacts
<1>3. EntriesOK(M, u, v)
  <2>1. ASSUME NEW p \in Of(M, "dirent") PROVE At(M, p).version <= v
    BY DEF EntriesOK
  <2>2. ASSUME NEW p \in Of(M, "dirent") \ u PROVE NewestIn(M, Places(M), p)
    <3>1. p \in Of(L, "dirent") \ o /\ At(M, p) = At(L, p)
      BY <2>2
    <3>2. NewestIn(L, Places(L), p)
      BY <3>1 DEF EntriesOK
    <3>3. \A q \in Dirents(L, At(L, p).name) : q \in Places(L) /\ At(M, q) = At(L, q)
      BY <1>0, <1>2
    <3> QED BY <3>1, <3>2, <3>3 DEF NewestIn
  <2>3. ASSUME NEW m \in Names, Dirents(M, m) \subseteq u, NEW q \in Dirents(M, m), At(M, q).ino # 0
        PROVE  \E p \in Dirents(M, m) : /\ p[1] = q[1] /\ At(M, p).ino = 0
                                        /\ At(M, p).version > At(M, q).version
    <3>1. Dirents(L, m) \subseteq o /\ q \in Dirents(L, m)
      BY <1>2, <2>3
    <3>2. \A p \in Dirents(L, m) : At(M, p) = At(L, p)
      BY <1>2
    <3>3. PICK p \in Dirents(L, m) : /\ p[1] = q[1] /\ At(L, p).ino = 0
                                     /\ At(L, p).version > At(L, q).version
      BY <2>3, <3>1, <3>2 DEF EntriesOK
    <3> QED BY <3>1, <3>2, <3>3
  <2>4. ASSUME NEW p \in Of(M, "dirent") \ u, At(M, p).ino # 0
        PROVE  InodeNodes(M, At(M, p).ino) \ u # {}
    <3>1. p \in Of(L, "dirent") \ o /\ At(M, p) = At(L, p) /\ At(L, p).ino \in Inos
      BY <1>0, <2>4
    <3>2. At(L, p).ino \in Living(L, o)
      BY <2>4, <3>1 DEF EntriesOK, Living
    <3> QED BY <1>0, <3>1, <3>2 DEF Living
  <2> QED BY <2>1, <2>2, <2>3, <2>4 DEF EntriesOK
<1>4. DirOf(M, u) = DirOf(L, o)
  <2>1. DirOf(L, o) \in [Names -> Inos \cup {0}] /\ DirOf(M, u) \in [Names -> Inos \cup {0}]
    BY <1>1, <1>3, DirFacts
  <2>2. ASSUME NEW m \in Names PROVE DirOf(M, u)[m] = DirOf(L, o)[m]
    <3>1. CASE Dirents(L, m) \subseteq o
      <4>1. Dirents(M, m) \subseteq u
        BY <1>2, <3>1
      <4> QED BY <1>1, <1>3, <3>1, <4>1, DirFacts
    <3>2. CASE ~(Dirents(L, m) \subseteq o)
      <4>1. PICK p \in Dirents(L, m) \ o : TRUE
        BY <3>2
      <4>2. p \in Dirents(M, m) \ u /\ At(M, p) = At(L, p)
        BY <1>2, <4>1
      <4>3. DirOf(L, o)[m] = At(L, p).ino
        BY <4>1, DirFacts
      <4>4. DirOf(M, u)[m] = At(M, p).ino
        BY <1>1, <1>3, <4>2, DirFacts
      <4> QED BY <4>2, <4>3, <4>4
    <3> QED BY <3>1, <3>2
  <2> QED BY <2>1, <2>2
<1> QED BY <1>1, <1>3, <1>4

\* Dead nodes more change nothing of what counts.
LEMMA DeadAdded ==
    ASSUME NEW L \in Logs, NEW M \in Logs, NEW o, NEW v, o \subseteq Places(L),
           EntriesOK(L, o, v), Distinct(L),
           Places(L) \subseteq Places(M), \A p \in Places(L) : At(M, p) = At(L, p),
           \A p \in Places(M) \ Places(L) : At(M, p) = Dead
    PROVE  /\ EntriesOK(M, o, v) /\ Distinct(M) /\ DirOf(M, o) = DirOf(L, o)
           /\ Living(M, o) = Living(L, o)
           /\ \A b \in Blocks : Used(L, b, o) = {} => Used(M, b, o) = {}
<1>1. Of(M, "dirent") = Of(L, "dirent") /\ Of(M, "inode") = Of(L, "inode")
  BY DEF Of, Dead
<1>2. /\ \A p \in Of(L, "dirent") : At(M, p) = At(L, p)
      /\ \A p \in Of(L, "inode") : At(M, p) = At(L, p)
  BY DEF Of
<1>3. (\A n : Dirents(M, n) = Dirents(L, n)) /\ \A i : InodeNodes(M, i) = InodeNodes(L, i)
  BY <1>1, <1>2 DEF Dirents, InodeNodes
<1>4. Living(M, o) = Living(L, o)
  BY <1>3 DEF Living
<1>5. EntriesOK(M, o, v) /\ Distinct(M) /\ DirOf(M, o) = DirOf(L, o)
  BY <1>1, <1>2, <1>3, <1>4, SameEntries
<1>6. ASSUME NEW b \in Blocks, Used(L, b, o) = {} PROVE Used(M, b, o) = {}
  <2>1. \A p \in Places(L) : p[1] = b /\ p \notin o => At(L, p) = Dead
    BY <1>6, UsedFacts
  <2>2. \A p \in Places(M) : p[1] = b /\ p \notin o => At(M, p) = Dead
    BY <2>1
  <2> QED BY <2>2, UsedFacts
<1> QED BY <1>4, <1>5, <1>6

\* A new inode node, or a copy of the nodes `old' that it takes the place of.
Copied(L, i, old) == old \subseteq InodeNodes(L, i)
InodeWritten(L, o, M, u, i) ==
    DirOf(M, u) = DirOf(L, o) /\ Living(M, u) = Living(L, o) \cup {i}

\* An inode node is written: the directory is the same and the inode has a node.
LEMMA InodeStored ==
    ASSUME NEW L \in Logs, NEW o \in SUBSET Places(L), NEW v,
           EntriesOK(L, o, v), Distinct(L), NEW b \in Blocks, NEW i \in Inos,
           NEW old, Copied(L, i, old)
    PROVE  LET M == Add(L, b, Inode(i))
               u == o \cup old
           IN  EntriesOK(M, u, v) /\ Distinct(M) /\ InodeWritten(L, o, M, u, i)
<1> DEFINE np == Slot(L, b)
           x  == Inode(i)
           M  == Add(L, b, x)
           u  == o \cup old
<1>a. M = Add(L, b, x) /\ u = o \cup old /\ old \subseteq InodeNodes(L, i)
  BY DEF Copied
<1> HIDE DEF M, u
<1> USE <1>a
<1>0. x \in Nodes /\ x.type = "inode" /\ x.ino = i
  BY InodeIsNode
<1> HIDE DEF x
<1>1. /\ M \in Logs /\ Places(M) = Places(L) \cup {np} /\ np \notin Places(L)
      /\ At(M, np) = x /\ \A p \in Places(L) : At(M, p) = At(L, p)
  BY <1>0, Appended DEF x
<1>2. /\ Of(M, "dirent") = Of(L, "dirent")
      /\ \A n : Dirents(M, n) = Dirents(L, n)
      /\ InodeNodes(M, i) = InodeNodes(L, i) \cup {np}
      /\ \A k : k # i => InodeNodes(M, k) = InodeNodes(L, k)
  BY <1>0, AppendKinds DEF x
<1> HIDE DEF np
<1>3. np \notin u
  BY <1>1, EntryFacts
<1>4. \A k : k # i => InodeNodes(L, k) \cap old = {}
  BY DEF InodeNodes
<1>5. Living(M, u) = Living(L, o) \cup {i}
  BY <1>2, <1>3, <1>4 DEF Living
<1>6. \A p \in Of(L, "dirent") : At(M, p) = At(L, p) /\ (p \in u <=> p \in o)
  BY <1>1, EntryFacts
<1>7. \A n \in Names, k \in Inos : \A p \in Dirents(L, n) \ o :
         At(L, p).ino = k /\ k \in Living(L, o) => k \in Living(M, u)
  BY <1>5
<1>8. EntriesOK(M, u, v) /\ Distinct(M) /\ DirOf(M, u) = DirOf(L, o)
  BY ONLY <1>1, <1>2, <1>6, <1>7, SameEntries, L \in Logs, EntriesOK(L, o, v), Distinct(L)
<1> QED BY <1>5, <1>8 DEF x, M, u, InodeWritten

\* M has the nodes of L and perhaps more; the blocks without used nodes.
Grows(L, M) == Places(L) \subseteq Places(M) /\ \A p \in Places(L) : At(M, p) = At(L, p)
Wiped(L, o) == {b \in Blocks : Used(L, b, o) = {}}

\* What Refile makes of the lists l, the buffer being flushed when k # e.
Refiles(l, m, M, u, old, k, e, dest) ==
    /\ m = [b \in Blocks |-> m[b]]
    /\ \A b \in Blocks :
        LET emptied == l[b] \in {"closed", "gc"} /\ (\E p \in old : p[1] = b) /\ Used(M, b, u) = {}
        IN  \/ k # e /\ l[b] = "erasable_pending_wbuf" /\ m[b] = dest
            \/ emptied /\ m[b] = IF k > 0 THEN "erasable_pending_wbuf" ELSE dest
            \/ ~emptied /\ ~(k # e /\ l[b] = "erasable_pending_wbuf") /\ m[b] = l[b]

\* Refiling blocks keeps the lists right, and a block that may be erased before the
\* write buffer is out had no used nodes before.
LEMMA Refiled ==
    ASSUME NEW L \in Logs, NEW M \in Logs, NEW l \in [Blocks -> Lists], NEW o, NEW old,
           NEW k \in Nat, NEW e \in Nat, NEW dest \in Dest,
           Grows(L, M), Blank(L, o, l), Blank(M, o \cup old, l),
           NEW m, Refiles(l, m, M, o \cup old, old, k, e, dest)
    PROVE  /\ m \in [Blocks -> Lists]
           /\ \A b \in Blocks : m[b] = "next" <=> l[b] = "next"
           /\ Blank(M, o \cup old, m)
           /\ k > 0 => Doomed(M, o \cup old, m) \subseteq Wiped(L, o)
           /\ k > 0 /\ k = e => Doomed(M, o \cup old, m) \subseteq Doomed(L, o, l)
<1> DEFINE u == o \cup old
<1> HIDE DEF u
<1>0. dest \in {"erase_pending", "erasable"}
  BY DEF Dest
<1>1. ASSUME NEW b \in Blocks
      PROVE  \/ k # e /\ l[b] = "erasable_pending_wbuf" /\ m[b] = dest
             \/ /\ l[b] \in {"closed", "gc"} /\ (\E p \in old : p[1] = b) /\ Used(M, b, u) = {}
                /\ m[b] = IF k > 0 THEN "erasable_pending_wbuf" ELSE dest
             \/ /\ m[b] = l[b] /\ ~(k # e /\ l[b] = "erasable_pending_wbuf")
                /\ ~(l[b] \in {"closed", "gc"} /\ (\E p \in old : p[1] = b) /\ Used(M, b, u) = {})
  BY DEF Refiles, u
<1>2. m \in [Blocks -> Lists]
  <2>1. \A b \in Blocks : m[b] \in Lists
    BY <1>0, <1>1 DEF Lists
  <2>2. m = [b \in Blocks |-> m[b]]
    BY DEF Refiles
  <2> QED BY <2>1, <2>2
<1>3. \A b \in Blocks : m[b] = "next" <=> l[b] = "next"
  BY <1>0, <1>1
<1>4. Blank(M, u, m)
  <2> SUFFICES ASSUME NEW b \in Blocks, m[b] \in Lists \ {"next", "closed", "gc"}
               PROVE  Used(M, b, u) = {}
    BY DEF Blank
  <2>1. CASE l[b] = "erasable_pending_wbuf"
    BY <2>1 DEF u, Lists, Blank
  <2>2. CASE m[b] = l[b]
    BY <2>2 DEF u, Blank
  <2> QED BY <1>1, <2>1, <2>2
<1>5. ASSUME k > 0, NEW b \in Doomed(M, u, m)
      PROVE  b \in Wiped(L, o) /\ (k = e => b \in Doomed(L, o, l))
  <2>1. b \in Blocks /\ Used(M, b, u) = {} /\ m[b] \notin {"next", "erasable_pending_wbuf"}
    BY <1>5 DEF Doomed
  <2>2. Used(L, b, o) = {}
    <3>1. CASE l[b] \in {"closed", "gc"}
      <4>1. ~\E p \in old : p[1] = b
        BY <1>1, <1>5, <2>1, <3>1
      <4>2. \A p \in Places(M) : p[1] = b /\ p \notin u => At(M, p) = Dead
        BY <2>1, UsedFacts
      <4>3. \A p \in Places(L) : p[1] = b /\ p \notin o => At(L, p) = Dead
        BY <4>1, <4>2 DEF u, Grows
      <4> QED BY <2>1, <4>3, UsedFacts
    <3>2. CASE l[b] \notin {"closed", "gc"}
      <4>1. l[b] \in Lists \ {"next", "closed", "gc"}
        BY <1>3, <2>1, <3>2
      <4> QED BY <2>1, <4>1 DEF Blank
    <3> QED BY <3>1, <3>2
  <2>3. k = e => l[b] \notin {"next", "erasable_pending_wbuf"}
    BY <1>1, <1>3, <2>1
  <2> QED BY <2>1, <2>2, <2>3 DEF Doomed, Wiped
<1> QED BY <1>2, <1>3, <1>4, <1>5 DEF u

\* The block b that is full is closed, and the write buffer is empty then.
Closed(l, f, b, k) == f = l \/ (k = 0 /\ f = [l EXCEPT ![b] = "closed"])

\* Writing a node x (Store) keeps lists and flash right, if entries and versions are.
LEMMA StoredFlash ==
    ASSUME NEW L \in Logs, NEW o, NEW v, EntriesOK(L, o, v), Distinct(L),
           NEW l, NEW w \in Nat, BlocksOK(L, o, l, w), FlashOK(L, o, l, w),
           NEW b \in Blocks, l[b] = "next", NEW x \in Nodes, NEW M, M = Add(L, b, x),
           NEW old, NEW z, EntriesOK(M, o \cup old, z), Distinct(M),
           NEW e \in Nat, e = w + 1, NEW k \in Nat, k > 1 => k = e,
           NEW f, Closed(l, f, b, k),
           NEW dest \in Dest, NEW m, Refiles(f, m, M, o \cup old, old, k, e, dest)
    PROVE  BlocksOK(M, o \cup old, m, k) /\ FlashOK(M, o \cup old, m, k)
<1> DEFINE np == Slot(L, b)
           u  == o \cup old
<1> HIDE DEF u
<1>0. EntriesOK(M, u, z) /\ Refiles(f, m, M, u, old, k, e, dest)
  BY DEF u
<1>1. /\ M \in Logs /\ Places(M) = Places(L) \cup {np} /\ np \notin Places(L)
      /\ \A p \in Places(L) : At(M, p) = At(L, p)
      /\ Len(M[b]) = Len(L[b]) + 1 /\ \A c \in Blocks \ {b} : M[c] = L[c]
  BY Appended
<1>2. np = <<b, Len(L[b]) + 1>> /\ Len(L[b]) \in Nat
  BY DEF Slot, Logs
<1> HIDE DEF np
<1>3. k \in Nat /\ l \in [Blocks -> Lists] /\ f \in [Blocks -> Lists]
      /\ (\A c \in Blocks : c # b => f[c] = l[c] /\ l[c] # "next")
      /\ (f[b] = "closed" \/ f[b] = "next") /\ (k > 0 => f[b] = "next")
  BY DEF BlocksOK, Lists, Closed
<1>4. ASSUME NEW c \in Blocks, f[c] \in Lists \ {"next", "closed", "gc"}
      PROVE  Used(L, c, o) = {} /\ Used(M, c, u) = {}
  <2>1. c # b /\ f[c] = l[c]
    BY <1>3, <1>4
  <2>2. Used(L, c, o) = {}
    BY <1>4, <2>1 DEF BlocksOK, Blank
  <2>3. \A p \in Places(L) : p[1] = c /\ p \notin o => At(L, p) = Dead
    BY <2>2, UsedFacts
  <2>4. \A p \in Places(M) : p[1] = c /\ p \notin u => At(M, p) = Dead
    BY <1>1, <1>2, <2>1, <2>3 DEF u
  <2> QED BY <1>1, <2>2, <2>4, UsedFacts
<1>5. /\ m \in [Blocks -> Lists]
      /\ \A c \in Blocks : m[c] = "next" <=> f[c] = "next"
      /\ Blank(M, u, m)
      /\ k > 0 => Doomed(M, u, m) \subseteq Wiped(L, o)
      /\ k > 0 /\ k = w + 1 => Doomed(M, u, m) \subseteq Doomed(L, o, f)
  <2>1. Grows(L, M) /\ Blank(L, o, f) /\ Blank(M, u, f)
    BY <1>1, <1>4 DEF Grows, Blank
  <2>3. M \in Logs /\ f \in [Blocks -> Lists] /\ k \in Nat /\ Refiles(f, m, M, u, old, k, e, dest)
    BY <1>0, <1>1, <1>3
  <2>4. /\ m \in [Blocks -> Lists]
        /\ \A c \in Blocks : m[c] = "next" <=> f[c] = "next"
        /\ Blank(M, u, m)
        /\ k > 0 => Doomed(M, u, m) \subseteq Wiped(L, o)
        /\ k > 0 /\ k = e => Doomed(M, u, m) \subseteq Doomed(L, o, f)
    BY ONLY <2>1, <2>3, e \in Nat, L \in Logs, dest \in Dest, Refiled DEF u
  <2> QED BY <2>4
<1>6. BlocksOK(M, u, m, k)
  <2>1. \A c, d \in Blocks : m[c] = "next" /\ m[d] = "next" => c = d
    BY <1>3, <1>5
  <2>2. k > 0 => m[b] = "next"
    BY <1>3, <1>5
  <2>3. \A c \in Blocks : m[c] = "next" => k <= Len(M[c])
    <3> SUFFICES ASSUME NEW c \in Blocks, m[c] = "next" PROVE k <= Len(M[c])
      OBVIOUS
    <3>1. c = b /\ w <= Len(L[b])
      BY <1>3, <1>5 DEF BlocksOK
    <3> QED BY <1>1, <1>2, <3>1
  <2> QED BY <1>5, <2>1, <2>2, <2>3 DEF BlocksOK
<1>7. CASE k = 0
  BY <1>0, <1>1, <1>6, <1>7, WrittenFlash DEF u
<1>8. CASE k > 0
  <2>0. f = l
    BY <1>8 DEF Closed
  <2>1. SUFFICES ASSUME NEW j \in 0..k, NEW S \in SUBSET Doomed(M, u, m)
                 PROVE  Good(M, Cut(M, m, k, j, S)) /\ Alike(M, Cut(M, m, k, j, S), Cut(M, m, k, j, {}))
    BY <1>6 DEF FlashOK, u
  <2>2. \A c \in S : c \in Blocks /\ Used(M, c, u) = {} /\ Used(L, c, o) = {}
    BY <1>5, <1>8 DEF Doomed, Wiped
  <2>3. \A p \in Places(M) : m[p[1]] = "next" <=> p[1] = b
    BY <1>1, <1>3, <1>5, <2>0, PlaceFacts
  <2>4. b \notin S
    BY <1>3, <1>5, <2>0 DEF Doomed
  <2>5. CASE j = k
    <3>1. \A p \in Places(M) : p[2] <= Len(M[p[1]]) - k + j
      <4>0. \A c \in Blocks : Len(M[c]) \in Nat
        BY ONLY <1>1 DEF Logs
      <4>1. \A p \in Places(M) : p[1] \in Blocks /\ p[2] \in 1..Len(M[p[1]]) /\ Len(M[p[1]]) \in Nat
        BY ONLY <1>1, <4>0, PlaceFacts
      <4> QED BY ONLY <1>3, <2>5, <4>1
    <3>2. \A T : Cut(M, m, k, j, T) = Whole(M, T)
      BY <3>1 DEF Cut, Whole
    <3>3. Good(M, Whole(M, S)) /\ Alike(M, Whole(M, S), Whole(M, {}))
      BY ONLY <1>0, Distinct(M), <1>1, <2>2, WholeGood, WholeAlike
    <3> QED BY <3>2, <3>3
  <2>6. CASE j # k /\ k = w + 1
    <3>0. j \in 0..w
      BY <2>6
    <3>1. S \in SUBSET Doomed(L, o, l)
      BY <1>5, <1>8, <2>0, <2>6
    <3>2. \A p \in Places(L) : l[p[1]] = "next" <=> p[1] = b
      BY <1>3, <2>0, PlaceFacts
    <3>3. Len(M[b]) - k + j = Len(L[b]) - w + j
      BY <1>1, <1>2, <1>3, <2>6
    <3>4. ~(np[2] <= Len(M[b]) - k + j) /\ np[1] = b
      BY <1>1, <1>2, <2>6
    <3>5. \A T : Cut(M, m, k, j, T) = {p \in Places(M) : p[1] \notin T /\ (p[1] = b => p[2] <= Len(M[b]) - k + j)}
      BY <2>3 DEF Cut, Whole
    <3>6. \A T : Cut(L, l, w, j, T) = {p \in Places(L) : p[1] \notin T /\ (p[1] = b => p[2] <= Len(L[b]) - w + j)}
      BY <3>2 DEF Cut, Whole
    <3>7. ASSUME NEW T PROVE Cut(M, m, k, j, T) = Cut(L, l, w, j, T)
      <4>1. Cut(M, m, k, j, T) = {p \in Places(M) : p[1] \notin T /\ (p[1] = b => p[2] <= Len(L[b]) - w + j)}
        BY ONLY <3>3, <3>5
      <4>2. ~(np[1] = b => np[2] <= Len(L[b]) - w + j)
        BY ONLY <3>3, <3>4
      <4> QED BY ONLY <1>1, <3>6, <4>1, <4>2
    <3>8. Good(L, Cut(L, l, w, j, S)) /\ Alike(L, Cut(L, l, w, j, S), Cut(L, l, w, j, {}))
      BY <3>0, <3>1 DEF FlashOK
    <3>9. Cut(L, l, w, j, S) \subseteq Places(L) /\ Cut(L, l, w, j, {}) \subseteq Places(L)
      BY <3>6
    <3> DEFINE P == Cut(L, l, w, j, S)
               Q == Cut(L, l, w, j, {})
    <3> HIDE DEF P, Q
    <3>10. Good(L, P) /\ P \subseteq Places(L) /\ P \subseteq Places(M)
           /\ (\A p \in P : At(M, p) = At(L, p)) /\ P \subseteq P /\ P \ P = {}
      BY <1>1, <3>8, <3>9 DEF P
    <3>11. Good(M, P)
      BY <3>10, GoodSame
    <3>12. Alike(L, P, Q) /\ Q \subseteq Places(L) /\ Q \subseteq Places(M) /\ \A p \in P \cup Q : At(M, p) = At(L, p)
      BY <1>1, <3>8, <3>9 DEF P, Q
    <3>13. Alike(M, P, Q)
      BY <3>10, <3>12, AlikeSame
    <3> QED BY <3>7, <3>11, <3>13 DEF P, Q
  <2>7. CASE j # k /\ k # w + 1
    <3>0. k = 1 /\ j = 0
      BY <1>8, <2>7
    <3>1. \A p \in Places(L) : p[1] \in Blocks /\ (p[1] = b => p[2] <= Len(L[b]))
      BY PlaceFacts
    <3>2. Len(M[b]) - k + j = Len(L[b])
      BY <1>1, <1>2, <3>0
    <3>3. ~(np[2] <= Len(L[b])) /\ np[1] = b
      BY <1>2
    <3>4. \A T : Cut(M, m, k, j, T) = {p \in Places(M) : p[1] \notin T /\ (p[1] = b => p[2] <= Len(M[b]) - k + j)}
      BY <2>3 DEF Cut, Whole
    <3>5. ASSUME NEW T PROVE Cut(M, m, k, j, T) = Whole(L, T)
      <4>1. \A p \in Places(M) : (p[1] = b => p[2] <= Len(L[b])) <=> p \in Places(L)
        BY <1>1, <3>1, <3>3
      <4>2. Cut(M, m, k, j, T) = {p \in Places(M) : p[1] \notin T /\ p \in Places(L)}
        BY ONLY <3>2, <3>4, <4>1
      <4> QED BY ONLY <1>1, <4>2 DEF Whole
    <3>6. Good(L, Whole(L, S)) /\ Alike(L, Whole(L, S), Whole(L, {}))
      BY <2>2, WholeGood, WholeAlike
    <3>7. Whole(L, S) \subseteq Places(L) /\ Whole(L, {}) \subseteq Places(L)
      BY DEF Whole
    <3> DEFINE P == Whole(L, S)
               Q == Whole(L, {})
    <3> HIDE DEF P, Q
    <3>8. Good(L, P) /\ P \subseteq Places(L) /\ P \subseteq Places(M)
          /\ (\A p \in P : At(M, p) = At(L, p)) /\ P \subseteq P /\ P \ P = {}
      BY <1>1, <3>6, <3>7 DEF P
    <3>9. Good(M, P)
      BY <3>8, GoodSame
    <3>10. Alike(L, P, Q) /\ Q \subseteq Places(L) /\ Q \subseteq Places(M) /\ \A p \in P \cup Q : At(M, p) = At(L, p)
      BY <1>1, <3>6, <3>7 DEF P, Q
    <3>11. Alike(M, P, Q)
      BY <3>8, <3>10, AlikeSame
    <3> QED BY <3>5, <3>9, <3>11 DEF P, Q
  <2> QED BY <2>5, <2>6, <2>7
<1> QED BY <1>3, <1>7, <1>8

(***************************************************************************)
(* Nodes become obsolete, blocks change lists, a block is erased.          *)
(***************************************************************************)

\* A block without used nodes has none when more are obsolete.
LEMMA UsedLess ==
    ASSUME NEW L \in Logs, NEW b \in Blocks, NEW o, NEW old, Used(L, b, o) = {}
    PROVE  Used(L, b, o \cup old) = {}
BY DEF Used

\* If no more blocks may be erased and c->nextblock is the same, the flash stays right.
LEMMA SameFlash ==
    ASSUME NEW L \in Logs, NEW o, NEW u, NEW l, NEW m, NEW w, FlashOK(L, o, l, w),
           Doomed(L, u, m) \subseteq Doomed(L, o, l),
           \A b \in Blocks : m[b] = "next" <=> l[b] = "next"
    PROVE  FlashOK(L, u, m, w)
<1> SUFFICES ASSUME NEW j \in 0..w, NEW S \in SUBSET Doomed(L, u, m)
             PROVE  Good(L, Cut(L, m, w, j, S)) /\ Alike(L, Cut(L, m, w, j, S), Cut(L, m, w, j, {}))
  BY DEF FlashOK
<1>1. \A p \in Places(L) : m[p[1]] = "next" <=> l[p[1]] = "next"
  BY PlaceFacts
<1>2. \A T : Cut(L, m, w, j, T) = Cut(L, l, w, j, T)
  BY <1>1 DEF Cut, Whole
<1>3. S \in SUBSET Doomed(L, o, l)
  OBVIOUS
<1>4. Good(L, Cut(L, l, w, j, S)) /\ Alike(L, Cut(L, l, w, j, S), Cut(L, l, w, j, {}))
  BY <1>3 DEF FlashOK
<1> QED BY <1>2, <1>4

\* jffs2_mark_node_obsolete for the nodes `old'.
LEMMA ObsoletedFlash ==
    ASSUME NEW L \in Logs, NEW o, NEW old, NEW v, EntriesOK(L, o \cup old, v), Distinct(L),
           NEW l, NEW w \in Nat, BlocksOK(L, o, l, w), FlashOK(L, o, l, w),
           NEW dest \in Dest, NEW m, Refiles(l, m, L, o \cup old, old, w, w, dest)
    PROVE  BlocksOK(L, o \cup old, m, w) /\ FlashOK(L, o \cup old, m, w)
<1> DEFINE u == o \cup old
<1>1. Grows(L, L) /\ l \in [Blocks -> Lists] /\ Blank(L, o, l)
  BY DEF Grows, BlocksOK
<1>2. Blank(L, u, l)
  BY <1>1, UsedLess DEF Blank
<1>3. /\ m \in [Blocks -> Lists]
      /\ \A b \in Blocks : m[b] = "next" <=> l[b] = "next"
      /\ Blank(L, u, m)
      /\ w > 0 => Doomed(L, u, m) \subseteq Wiped(L, o)
      /\ w > 0 /\ w = w => Doomed(L, u, m) \subseteq Doomed(L, o, l)
  BY <1>1, <1>2, Refiled
<1> HIDE DEF u
<1>4. BlocksOK(L, u, m, w)
  BY <1>3 DEF BlocksOK
<1>5. FlashOK(L, u, m, w)
  <2>1. CASE w = 0
    BY <2>1, WrittenFlash DEF u
  <2>2. CASE w > 0
    BY <1>3, <2>2, SameFlash
  <2> QED BY <2>1, <2>2
<1> QED BY <1>4, <1>5 DEF u

\* Block b goes to list t, and neither it nor t waits for the write buffer.
LEMMA Relisted ==
    ASSUME NEW L \in Logs, NEW o, NEW l, NEW w \in Nat, BlocksOK(L, o, l, w), FlashOK(L, o, l, w),
           NEW b \in Blocks, l[b] \notin {"next", "erasable_pending_wbuf"},
           NEW t \in Lists, t \notin {"next", "erasable_pending_wbuf"},
           t \in {"closed", "gc"} \/ Used(L, b, o) = {},
           NEW m, m = [l EXCEPT ![b] = t]
    PROVE  BlocksOK(L, o, m, w) /\ FlashOK(L, o, m, w)
<1>1. /\ m \in [Blocks -> Lists] /\ m[b] = t /\ \A c \in Blocks \ {b} : m[c] = l[c]
  BY DEF BlocksOK
<1>2. \A c \in Blocks : m[c] = "next" <=> l[c] = "next"
  BY <1>1
<1>3. Blank(L, o, m)
  BY <1>1 DEF Blank, BlocksOK
<1>4. Doomed(L, o, m) \subseteq Doomed(L, o, l)
  BY <1>1 DEF Doomed
<1>5. BlocksOK(L, o, m, w)
  BY <1>1, <1>2, <1>3 DEF BlocksOK
<1> QED BY <1>2, <1>4, <1>5, SameFlash

\* A block without used nodes is erased.
Wipe(L, b) == [L EXCEPT ![b] = <<>>]
Without(o, b) == {p \in o : p[1] # b}
AsErased(l, b) == [l EXCEPT ![b] = "erase_complete"]

\* Erasing a block that waits for it keeps the log, the lists and the directory.
LEMMA Erased ==
    ASSUME NEW L \in Logs, NEW o \in SUBSET Places(L), NEW v, EntriesOK(L, o, v), Distinct(L),
           NEW l, NEW w \in Nat, BlocksOK(L, o, l, w), FlashOK(L, o, l, w),
           NEW b \in Blocks, l[b] = "erase_pending"
    PROVE  LET M == Wipe(L, b)
               u == Without(o, b)
               m == AsErased(l, b)
           IN  /\ M \in Logs /\ u \in SUBSET Places(M) /\ EntriesOK(M, u, v) /\ Distinct(M)
               /\ BlocksOK(M, u, m, w) /\ FlashOK(M, u, m, w)
               /\ DirOf(M, u) = DirOf(L, o) /\ Living(M, u) = Living(L, o)
<1> DEFINE M == Wipe(L, b)
           u == Without(o, b)
           m == AsErased(l, b)
<1>1. M \in Logs /\ M[b] = <<>> /\ (\A c \in Blocks \ {b} : M[c] = L[c])
  BY DEF Logs, Wipe
<1>2. m \in [Blocks -> Lists] /\ m[b] = "erase_complete" /\ (\A c \in Blocks \ {b} : m[c] = l[c])
  BY DEF BlocksOK, Lists, AsErased
<1>3. \A p : p \in u <=> p \in o /\ p[1] # b
  BY DEF Without
<1> HIDE DEF M, u, m
<1>4. ASSUME NEW p PROVE p \in Places(M) <=> p \in Places(L) /\ p[1] # b
  <2>1. Len(M[b]) = 0
    BY <1>1
  <2>2. ASSUME p \in Places(M) PROVE p \in Places(L) /\ p[1] # b
    <3>1. p[1] \in Blocks /\ p[2] \in 1..Len(M[p[1]]) /\ p = <<p[1], p[2]>>
      BY <1>1, <2>2, PlaceFacts
    <3>2. p[1] # b
      BY <2>1, <3>1
    <3> QED BY <1>1, <3>1, <3>2, PlaceFacts
  <2>3. ASSUME p \in Places(L), p[1] # b PROVE p \in Places(M)
    <3>1. p[1] \in Blocks /\ p[2] \in 1..Len(L[p[1]]) /\ p = <<p[1], p[2]>>
      BY <2>3, PlaceFacts
    <3> QED BY <1>1, <2>3, <3>1, PlaceFacts
  <2> QED BY <2>2, <2>3
<1>5. \A p \in Places(M) : At(M, p) = At(L, p)
  BY <1>1, <1>4, PlaceFacts DEF At
<1>6. Used(L, b, o) = {}
  BY DEF BlocksOK, Blank, Lists
<1>7. \A p \in Places(L) : At(L, p) # Dead /\ p \notin o => p[1] # b
  BY <1>6, UsedFacts
<1>8. \A p : p \in Of(M, "dirent") <=> p \in Of(L, "dirent") /\ p[1] # b
  BY <1>4, <1>5 DEF Of
<1>9. \A n, p : p \in Dirents(M, n) <=> p \in Dirents(L, n) /\ p[1] # b
  <2>1. \A p \in Of(M, "dirent") : At(M, p) = At(L, p)
    BY <1>1, <1>5, EntryFacts
  <2> QED BY <1>8, <2>1 DEF Dirents
<1>10. \A i, p : p \in InodeNodes(M, i) <=> p \in InodeNodes(L, i) /\ p[1] # b
  BY <1>4, <1>5 DEF InodeNodes, Of
<1>11. \A n : Dirents(M, n) \ u = Dirents(L, n) \ o
  <2>1. \A n : \A p \in Dirents(L, n) \ o : p[1] # b
    BY <1>7, EntryFacts
  <2> QED BY <1>3, <1>9, <2>1
<1>12. \A i : InodeNodes(M, i) \ u = InodeNodes(L, i) \ o
  <2>1. \A i : \A p \in InodeNodes(L, i) \ o : p[1] # b
    BY <1>7, EntryFacts
  <2> QED BY <1>3, <1>10, <2>1
<1>13. Distinct(M)
  <2>1. \A p \in Of(M, "dirent") : p \in Of(L, "dirent") /\ At(M, p) = At(L, p)
    BY <1>1, <1>5, <1>8, EntryFacts
  <2> QED BY <2>1 DEF Distinct
<1>14. EntriesOK(M, u, v)
  <2>0. \A p \in Of(M, "dirent") : p \in Of(L, "dirent") /\ At(M, p) = At(L, p) /\ p \in Places(M)
    BY <1>1, <1>5, <1>8, EntryFacts
  <2>1. ASSUME NEW p \in Of(M, "dirent") PROVE At(M, p).version <= v
    BY <2>0 DEF EntriesOK
  <2>2. ASSUME NEW p \in Of(M, "dirent") \ u PROVE NewestIn(M, Places(M), p)
    <3>1. p \in Of(L, "dirent") \ o /\ At(M, p) = At(L, p)
      BY <1>3, <1>8, <2>0, <2>2
    <3>2. NewestIn(L, Places(L), p)
      BY <3>1 DEF EntriesOK
    <3>3. \A q \in Dirents(M, At(L, p).name) : /\ q \in Dirents(L, At(L, p).name) /\ q \in Places(L)
                                               /\ At(M, q) = At(L, q)
      BY <1>9, <2>0, EntryFacts, <1>1
    <3> QED BY <3>1, <3>2, <3>3 DEF NewestIn
  <2>3. ASSUME NEW n \in Names, Dirents(M, n) \subseteq u, NEW q \in Dirents(M, n), At(M, q).ino # 0
        PROVE  \E p \in Dirents(M, n) : /\ p[1] = q[1] /\ At(M, p).ino = 0
                                        /\ At(M, p).version > At(M, q).version
    <3>1. Dirents(L, n) \subseteq o
      BY <1>11, <2>3
    <3>2. \A p \in Dirents(M, n) : At(M, p) = At(L, p)
      BY <1>1, <2>0, EntryFacts
    <3>3. q \in Dirents(L, n) /\ q[1] # b
      BY <1>9, <2>3
    <3>4. PICK p \in Dirents(L, n) : /\ p[1] = q[1] /\ At(L, p).ino = 0
                                     /\ At(L, p).version > At(L, q).version
      BY <2>3, <3>1, <3>2, <3>3 DEF EntriesOK
    <3>5. p \in Dirents(M, n)
      BY <1>9, <3>3, <3>4
    <3> QED BY <2>3, <3>2, <3>4, <3>5
  <2>4. ASSUME NEW p \in Of(M, "dirent") \ u, At(M, p).ino # 0
        PROVE  InodeNodes(M, At(M, p).ino) \ u # {}
    <3>1. p \in Of(L, "dirent") \ o /\ At(M, p) = At(L, p)
      BY <1>3, <1>8, <2>0, <2>4
    <3> QED BY <1>12, <2>4, <3>1 DEF EntriesOK
  <2> QED BY <2>1, <2>2, <2>3, <2>4 DEF EntriesOK
<1>15. Living(M, u) = Living(L, o)
  BY <1>12 DEF Living
<1>16. DirOf(M, u) = DirOf(L, o)
  <2>1. DirOf(L, o) \in [Names -> Inos \cup {0}] /\ DirOf(M, u) \in [Names -> Inos \cup {0}]
    BY <1>1, <1>13, <1>14, DirFacts
  <2>2. ASSUME NEW n \in Names PROVE DirOf(M, u)[n] = DirOf(L, o)[n]
    <3>1. CASE Dirents(L, n) \subseteq o
      <4>1. Dirents(M, n) \subseteq u
        BY <1>11, <3>1
      <4> QED BY <1>1, <1>13, <1>14, <3>1, <4>1, DirFacts
    <3>2. CASE ~(Dirents(L, n) \subseteq o)
      <4>1. PICK p \in Dirents(L, n) \ o : TRUE
        BY <3>2
      <4>2. p \in Dirents(M, n) \ u
        BY <1>11, <4>1
      <4>3. At(M, p) = At(L, p)
        BY <1>1, <1>5, <4>2, EntryFacts
      <4>4. DirOf(L, o)[n] = At(L, p).ino
        BY <4>1, DirFacts
      <4>5. DirOf(M, u)[n] = At(M, p).ino
        BY <1>1, <1>13, <1>14, <4>2, DirFacts
      <4> QED BY <4>3, <4>4, <4>5
    <3> QED BY <3>1, <3>2
  <2> QED BY <2>1, <2>2
<1>17. \A c \in Blocks : Used(L, c, o) = {} <=> Used(M, c, u) = {}
  <2> TAKE c \in Blocks
  <2>1. CASE c = b
    BY <1>1, <1>6, <2>1 DEF Used
  <2>2. CASE c # b
    <3>1. \A p \in Places(L) : p[1] = c => p \in Places(M) /\ (p \in u <=> p \in o) /\ At(M, p) = At(L, p)
      BY <1>3, <1>4, <1>5, <2>2
    <3>2. \A p \in Places(M) : p[1] = c => p \in Places(L)
      BY <1>4
    <3>3. Used(L, c, o) = {} <=> \A p \in Places(L) : p[1] = c /\ p \notin o => At(L, p) = Dead
      BY UsedFacts
    <3>4. Used(M, c, u) = {} <=> \A p \in Places(M) : p[1] = c /\ p \notin u => At(M, p) = Dead
      BY <1>1, UsedFacts
    <3> QED BY <3>1, <3>2, <3>3, <3>4
  <2> QED BY <2>1, <2>2
<1>18. BlocksOK(M, u, m, w)
  <2>1. Blank(M, u, m)
    BY <1>2, <1>6, <1>17 DEF Blank, BlocksOK
  <2>2. \A c \in Blocks : m[c] = "next" <=> l[c] = "next"
    BY <1>2
  <2>3. \A c \in Blocks : m[c] = "next" => M[c] = L[c]
    BY <1>1, <1>2
  <2> QED BY <1>2, <2>1, <2>2, <2>3 DEF BlocksOK
<1>19. FlashOK(M, u, m, w)
  <2>1. SUFFICES ASSUME NEW j \in 0..w, NEW S \in SUBSET Doomed(M, u, m)
                 PROVE  Good(M, Cut(M, m, w, j, S)) /\ Alike(M, Cut(M, m, w, j, S), Cut(M, m, w, j, {}))
    BY DEF FlashOK
  <2>2. b \in Doomed(L, o, l)
    BY <1>6 DEF Doomed
  <2>3. Doomed(M, u, m) \subseteq Doomed(L, o, l)
    BY <1>2, <1>17, <2>2 DEF Doomed
  <2>4. S \cup {b} \in SUBSET Doomed(L, o, l) /\ {b} \in SUBSET Doomed(L, o, l)
    BY <2>2, <2>3
  <2> DEFINE P == Cut(L, l, w, j, S \cup {b})
             Q == Cut(L, l, w, j, {b})
  <2>5. Good(L, P) /\ Alike(L, P, Q)
    <3>1. Good(L, P) /\ Alike(L, P, Cut(L, l, w, j, {})) /\ Alike(L, Q, Cut(L, l, w, j, {}))
      BY <2>4 DEF FlashOK
    <3> HIDE DEF P, Q
    <3> QED BY <3>1 DEF Alike
  <2>6. ASSUME NEW T, NEW p PROVE p \in Cut(M, m, w, j, T) <=> p \in Cut(L, l, w, j, T \cup {b})
    <3>1. ASSUME p \in Places(L), p[1] # b
          PROVE  m[p[1]] = l[p[1]] /\ M[p[1]] = L[p[1]]
      BY <1>1, <1>2, <3>1, PlaceFacts
    <3> QED BY <1>4, <3>1 DEF Cut, Whole
  <2>7. Cut(M, m, w, j, S) = P /\ Cut(M, m, w, j, {}) = Q
    <3>1. {} \cup {b} = {b}
      OBVIOUS
    <3>2. \A p : p \in Cut(M, m, w, j, S) <=> p \in P
      BY <2>6
    <3>3. \A p : p \in Cut(M, m, w, j, {}) <=> p \in Q
      BY <2>6, <3>1
    <3> HIDE DEF P, Q
    <3>4. Cut(M, m, w, j, S) = P
      BY <3>2
    <3>5. Cut(M, m, w, j, {}) = Q
      BY <3>3
    <3> QED BY <3>4, <3>5
  <2> HIDE DEF P, Q
  <2>8. P \subseteq Places(M) /\ P \subseteq Places(L) /\ Q \subseteq Places(M) /\ Q \subseteq Places(L)
    BY <1>4, <2>7 DEF Cut, Whole
  <2>9. Good(L, P) /\ P \subseteq Places(L) /\ P \subseteq Places(M)
        /\ (\A p \in P : At(M, p) = At(L, p)) /\ P \subseteq P /\ P \ P = {}
    BY <1>5, <2>5, <2>8
  <2>10. Good(M, P)
    BY <2>9, GoodSame
  <2>11. \A p \in P \cup Q : At(M, p) = At(L, p)
    BY <1>5, <2>8
  <2>12. Alike(M, P, Q)
    BY <2>5, <2>8, <2>11, AlikeSame
  <2> QED BY <2>7, <2>10, <2>12
<1>20. u \in SUBSET Places(M)
  BY <1>3, <1>4
<1> QED BY <1>1, <1>13, <1>14, <1>15, <1>16, <1>18, <1>19, <1>20 DEF M, u, m

(***************************************************************************)
(* Least and greatest numbers, and names counted.                          *)
(***************************************************************************)

\* A set of numbers has a least one.
LEMMA LeastNumber ==
    ASSUME NEW S \in SUBSET Nat, S # {}
    PROVE  \E k \in S : \A j \in S : k <= j
<1> DEFINE R == OpToRel(<, Nat)
<1>1. \A j, k \in Nat : <<j, k>> \in R <=> j < k
  BY DEF OpToRel
<1>2. IsWellFoundedOn(R, Nat)
  BY NatLessThanWellFounded
<1> HIDE DEF R
<1>3. PICK k \in S : \A j \in S : ~(<<j, k>> \in R)
  BY <1>2, WFMin
<1>4. ASSUME NEW j \in S PROVE k <= j
  <2>1. j \in Nat /\ k \in Nat
    BY <1>3
  <2>2. ~(j < k)
    BY <1>1, <1>3, <2>1
  <2> QED BY <2>1, <2>2
<1> QED BY <1>3, <1>4

\* A bounded set of numbers has a greatest one.
LEMMA GreatestNumber ==
    ASSUME NEW N \in Nat, NEW S \in SUBSET (0..N), S # {}
    PROVE  \E k \in S : \A j \in S : j <= k
<1> DEFINE T == {N - j : j \in S}
<1>0. \A j \in S : j \in 0..N /\ N - j \in Nat
  OBVIOUS
<1>1. T \in SUBSET Nat /\ T # {}
  BY <1>0
<1>2. PICK t \in T : \A s \in T : t <= s
  BY <1>1, LeastNumber
<1>3. PICK k \in S : t = N - k
  BY <1>2
<1>4. \A j \in S : N - k <= N - j
  BY <1>2, <1>3
<1> QED BY <1>0, <1>3, <1>4

\* The names of an inode are finitely many.
LEMMA NamesFinite ==
    ASSUME NEW D, NEW i
    PROVE  IsFiniteSet(NamesOf(D, i)) /\ Cardinality(NamesOf(D, i)) \in Nat
           /\ (Cardinality(NamesOf(D, i)) = 0 <=> NamesOf(D, i) = {})
<1>1. IsFiniteSet(NamesOf(D, i))
  BY Jffs2Assumption, FS_Subset DEF NamesOf
<1> QED BY <1>1, FS_CardinalityType, FS_EmptySet

\* Name n is given to x: only n's old inode and x have other names than before.
LEMMA NamesMoved ==
    ASSUME NEW S, NEW D \in [Names -> S], NEW n \in Names, NEW x \in S,
           NEW E, E = [D EXCEPT ![n] = x]
    PROVE  \A i : /\ i # x /\ D[n] # i => Cardinality(NamesOf(E, i)) = Cardinality(NamesOf(D, i))
                  /\ i # x /\ D[n] = i => Cardinality(NamesOf(E, i)) = Cardinality(NamesOf(D, i)) - 1
                  /\ i = x => Cardinality(NamesOf(E, i)) <= Cardinality(NamesOf(D, i)) + 1
<1>0. E \in [Names -> S] /\ E[n] = x /\ \A m \in Names \ {n} : E[m] = D[m]
  OBVIOUS
<1> TAKE i
<1>1. IsFiniteSet(NamesOf(D, i)) /\ Cardinality(NamesOf(D, i)) \in Nat
  BY NamesFinite
<1>2. ASSUME i # x, D[n] # i PROVE Cardinality(NamesOf(E, i)) = Cardinality(NamesOf(D, i))
  <2>1. NamesOf(E, i) = NamesOf(D, i)
    BY <1>0, <1>2 DEF NamesOf
  <2> QED BY <2>1
<1>3. ASSUME i # x, D[n] = i PROVE Cardinality(NamesOf(E, i)) = Cardinality(NamesOf(D, i)) - 1
  <2>1. NamesOf(E, i) = NamesOf(D, i) \ {n} /\ n \in NamesOf(D, i)
    BY <1>0, <1>3 DEF NamesOf
  <2> QED BY <1>1, <2>1, FS_RemoveElement
<1>4. ASSUME i = x PROVE Cardinality(NamesOf(E, i)) <= Cardinality(NamesOf(D, i)) + 1
  <2>1. NamesOf(E, i) = NamesOf(D, i) \cup {n}
    BY <1>0, <1>4 DEF NamesOf
  <2>2. \/ Cardinality(NamesOf(E, i)) = Cardinality(NamesOf(D, i))
        \/ Cardinality(NamesOf(E, i)) = Cardinality(NamesOf(D, i)) + 1
    BY <1>1, <2>1, FS_AddElement
  <2> QED BY <1>1, <2>2
<1> QED BY <1>2, <1>3, <1>4

(***************************************************************************)
(* The steps of a mounted file system, one lemma per kind.                 *)
(***************************************************************************)
\* JFFS2 on NAND, mounted.
Up == medium = "nand" /\ fsState = "up" /\ NandType /\ Distinct(log) /\ UpOK

\* Steps that change lists and the write buffer only.
LEMMA OnlyLists ==
    ASSUME Up, UNCHANGED <<medium, log, fsState, obs, hv, hino, nlink, op, clearing>>,
           wbuf' \in Nat, BlocksOK(log, obs, list', wbuf'), FlashOK(log, obs, list', wbuf')
    PROVE  Up'
<1>1. NandType' /\ Distinct(log)'
  BY DEF Up, NandType, Distinct
<1>2. UpOK'
  BY DEF Up, UpOK
<1> QED BY <1>1, <1>2 DEF Up

\* jffs2_find_gc_block, jffs2_mark_erased_block and the lists of blocks to erase.
LEMMA CollectorListsInv ==
    ASSUME Up, GcPick \/ GcEraseIt \/ TakeErasable \/ MarkErased
    PROVE  Up'
<1>0. /\ log \in Logs /\ wbuf \in Nat /\ list \in [Blocks -> Lists]
      /\ BlocksOK(log, obs, list, wbuf) /\ FlashOK(log, obs, list, wbuf) /\ Blank(log, obs, list)
  BY DEF Up, NandType, UpOK, BlocksOK
<1>1. /\ UNCHANGED <<medium, log, wbuf, fsState, obs, hv, hino, nlink, op, clearing>>
      /\ \E b \in Blocks, t \in Lists :
            /\ list[b] \notin {"next", "erasable_pending_wbuf"} /\ t \notin {"next", "erasable_pending_wbuf"}
            /\ t \in {"closed", "gc"} \/ Used(log, b, obs) = {}
            /\ list' = [list EXCEPT ![b] = t]
  <2>0. {"gc", "erase_pending", "free"} \subseteq Lists \ {"next", "erasable_pending_wbuf"}
    BY DEF Lists
  <2>1. CASE GcPick
    BY <2>0, <2>1 DEF GcPick, On, flashVars
  <2>2. CASE GcEraseIt
    BY <2>0, <2>2 DEF GcEraseIt, On, flashVars
  <2>3. CASE TakeErasable
    BY <1>0, <2>0, <2>3 DEF TakeErasable, On, flashVars, Blank, Lists
  <2>4. CASE MarkErased
    BY <1>0, <2>0, <2>4 DEF MarkErased, On, Blank, Lists
  <2> QED BY <2>1, <2>2, <2>3, <2>4
<1>2. BlocksOK(log, obs, list', wbuf) /\ FlashOK(log, obs, list', wbuf)
  BY <1>0, <1>1, Relisted
<1> QED BY <1>0, <1>1, <1>2, OnlyLists

\* jffs2_do_reserve_space takes a block off the free list.
LEMMA TakeFreeInv ==
    ASSUME Up, TakeFree
    PROVE  Up'
<1>0. /\ log \in Logs /\ wbuf \in Nat /\ list \in [Blocks -> Lists] /\ Distinct(log)
      /\ BlocksOK(log, obs, list, wbuf) /\ EntriesOK(log, obs, hv)
  BY DEF Up, NandType, UpOK, BlocksOK
<1>1. PICK b \in On("free") : list' = [list EXCEPT ![b] = "next"]
  BY DEF TakeFree
<1>2. b \in Blocks /\ \A c \in Blocks : list[c] # "next"
  BY DEF TakeFree, On
<1>3. wbuf = 0 /\ UNCHANGED <<medium, log, wbuf, fsState, obs, hv, hino, nlink, op, clearing>>
  BY <1>0, <1>2 DEF BlocksOK, TakeFree, flashVars
<1>4. /\ list' \in [Blocks -> Lists] /\ list'[b] = "next" /\ \A c \in Blocks \ {b} : list'[c] = list[c]
  BY <1>0, <1>1, <1>2 DEF Lists
<1>5. BlocksOK(log, obs, list', 0)
  <2>1. Blank(log, obs, list')
    BY <1>0, <1>4 DEF BlocksOK, Blank
  <2>2. \A c \in Blocks : Len(log[c]) \in Nat
    BY <1>0 DEF Logs
  <2> QED BY <1>2, <1>4, <2>1, <2>2 DEF BlocksOK
<1>6. FlashOK(log, obs, list', 0)
  BY <1>0, WrittenFlash
<1> QED BY <1>0, <1>3, <1>5, <1>6, OnlyLists

\* __jffs2_flush_wbuf pads a block.
LEMMA FlushPads ==
    ASSUME NEW nl, FlushTo(nl), \A b \in Blocks : Len(log[b]) \in Nat
    PROVE  /\ wbuf' = 0
           /\ \E b \in On("next"), dest \in Dest, n \in Nat :
                /\ n <= NSlots - Len(log[b]) \/ n = 0
                /\ log' = Pad(log, b, n)
                /\ list' = Refile([list EXCEPT ![b] = nl], log, obs, {}, TRUE, 0, dest)
<1>1. PICK b \in On("next"), dest \in Dest : \E n \in Padding(b) :
        /\ log' = Padded(b, n) /\ wbuf' = 0
        /\ list' = Refile([list EXCEPT ![b] = nl], log, obs, {}, TRUE, 0, dest)
  BY DEF FlushTo
<1>2. PICK n \in Padding(b) :
        /\ log' = Padded(b, n) /\ wbuf' = 0
        /\ list' = Refile([list EXCEPT ![b] = nl], log, obs, {}, TRUE, 0, dest)
  BY <1>1
<1>3. n \in Nat /\ (n <= NSlots - Len(log[b]) \/ n = 0)
  BY <1>1, <1>2, Jffs2Assumption DEF Padding, On
<1> QED BY <1>1, <1>2, <1>3 DEF Padded, Pad

\* __jffs2_flush_wbuf
LEMMA FlushInv ==
    ASSUME Up, Flush \/ CloseNext
    PROVE  Up' /\ wbuf' = 0 /\ Holds(log', log, Places(log))
<1>0. /\ log \in Logs /\ wbuf \in Nat /\ list \in [Blocks -> Lists] /\ Distinct(log)
      /\ BlocksOK(log, obs, list, wbuf) /\ EntriesOK(log, obs, hv) /\ obs \subseteq Places(log)
  BY DEF Up, NandType, UpOK, BlocksOK
<1>1. PICK nl \in {"next", "closed"} : FlushTo(nl)
  BY DEF Flush, CloseNext
<1>2. UNCHANGED <<medium, fsState, obs, hv, hino, nlink, op, clearing>>
  BY DEF Flush, CloseNext
<1>3. wbuf' = 0 /\ \E b \in On("next"), dest \in Dest, n \in Nat :
         /\ log' = Pad(log, b, n)
         /\ list' = Refile([list EXCEPT ![b] = nl], log, obs, {}, TRUE, 0, dest)
  <2>1. \A b \in Blocks : Len(log[b]) \in Nat
    BY <1>0 DEF Logs
  <2> QED BY <1>1, <2>1, FlushPads
<1>4. PICK b \in On("next"), dest \in Dest, n \in Nat :
         /\ log' = Pad(log, b, n)
         /\ list' = Refile([list EXCEPT ![b] = nl], log, obs, {}, TRUE, 0, dest)
  BY <1>3
<1>5. b \in Blocks /\ list[b] = "next" /\ dest \in {"erase_pending", "erasable"}
  BY <1>4 DEF On, Dest
<1>6. /\ log' \in Logs /\ Places(log) \subseteq Places(log')
      /\ \A p \in Places(log) : At(log', p) = At(log, p)
      /\ \A p \in Places(log') \ Places(log) : At(log', p) = Dead
  BY <1>0, <1>4, <1>5, PaddedLog DEF Holds
<1>7. /\ EntriesOK(log', obs, hv) /\ Distinct(log') /\ DirOf(log', obs) = DirOf(log, obs)
      /\ Living(log', obs) = Living(log, obs)
      /\ \A c \in Blocks : Used(log, c, obs) = {} => Used(log', c, obs) = {}
  BY ONLY <1>0, <1>6, DeadAdded
<1>8. \A c \in Blocks : list'[c] = IF c = b THEN nl
                                   ELSE IF list[c] = "erasable_pending_wbuf" THEN dest ELSE list[c]
  BY <1>0, <1>4, <1>5 DEF Refile
<1>9. list' \in [Blocks -> Lists]
  <2>1. \A c \in Blocks : list'[c] \in Lists
    BY <1>0, <1>5, <1>8 DEF Lists
  <2>2. list' = [c \in Blocks |-> list'[c]]
    BY <1>4 DEF Refile
  <2> QED BY <2>1, <2>2
<1>10. BlocksOK(log', obs, list', 0)
  <2>1. Blank(log', obs, list')
    BY <1>0, <1>5, <1>7, <1>8 DEF BlocksOK, Blank, Lists
  <2>2. \A c \in Blocks : Len(log'[c]) \in Nat
    BY <1>6 DEF Logs
  <2>3. \A c \in Blocks : list'[c] = "next" => list[c] = "next"
    BY <1>5, <1>8
  <2> QED BY <1>0, <1>9, <2>1, <2>2, <2>3 DEF BlocksOK
<1>11. FlashOK(log', obs, list', 0)
  BY <1>6, <1>7, WrittenFlash
<1>12. NandType'
  BY <1>2, <1>3, <1>6 DEF Up, NandType
<1>13. UpOK'
  BY <1>2, <1>3, <1>7, <1>10, <1>11 DEF Up, UpOK
<1>14. Up'
  BY <1>2, <1>7, <1>12, <1>13 DEF Up
<1> QED BY <1>3, <1>6, <1>14 DEF Holds

\* jffs2_erase_pending_blocks erases a block.
LEMMA EraseInv ==
    ASSUME Up, Erase
    PROVE  Up'
<1>0. /\ log \in Logs /\ wbuf \in Nat /\ Distinct(log) /\ obs \in SUBSET Places(log)
      /\ EntriesOK(log, obs, hv) /\ BlocksOK(log, obs, list, wbuf) /\ FlashOK(log, obs, list, wbuf)
  BY DEF Up, NandType, UpOK
<1>1. PICK b \in Blocks : /\ list[b] = "erase_pending" /\ log' = [log EXCEPT ![b] = <<>>]
                          /\ obs' = {p \in obs : p[1] # b}
                          /\ list' = [list EXCEPT ![b] = "erase_complete"]
  BY DEF Erase, On
<1>2. /\ log' \in Logs /\ obs' \in SUBSET Places(log') /\ EntriesOK(log', obs', hv) /\ Distinct(log')
      /\ BlocksOK(log', obs', list', wbuf) /\ FlashOK(log', obs', list', wbuf)
      /\ DirOf(log', obs') = DirOf(log, obs) /\ Living(log', obs') = Living(log, obs)
  <2> DEFINE M == Wipe(log, b)
             u == Without(obs, b)
             m == AsErased(list, b)
  <2>1. /\ M \in Logs /\ u \in SUBSET Places(M) /\ EntriesOK(M, u, hv) /\ Distinct(M)
        /\ BlocksOK(M, u, m, wbuf) /\ FlashOK(M, u, m, wbuf)
        /\ DirOf(M, u) = DirOf(log, obs) /\ Living(M, u) = Living(log, obs)
    BY ONLY <1>0, <1>1, Erased
  <2>2. log' = M /\ obs' = u /\ list' = m
    BY <1>1 DEF Wipe, Without, AsErased
  <2> HIDE DEF M, u, m
  <2> QED BY <2>1, <2>2
<1>3. UNCHANGED <<medium, wbuf, fsState, hv, hino, nlink, op, clearing>>
  BY DEF Erase
<1>4. NandType'
  BY <1>2, <1>3 DEF Up, NandType
<1>5. UpOK'
  BY <1>2, <1>3 DEF Up, UpOK
<1> QED BY <1>2, <1>3, <1>4, <1>5 DEF Up

\* What the collector looks at next is a used node.
LEMMA GcNodeUsed ==
    ASSUME log \in Logs, NEW b \in Blocks, Used(log, b, obs) # {}
    PROVE  /\ GcNode(b) \in Places(log) /\ GcNode(b)[1] = b /\ GcNode(b) \notin obs
           /\ At(log, GcNode(b)) \in Nodes /\ At(log, GcNode(b)) # Dead
<1> DEFINE U == Used(log, b, obs)
<1>1. DOMAIN log[b] = 1..Len(log[b]) /\ Len(log[b]) \in Nat
  BY DEF Logs
<1>2. U \in SUBSET Nat /\ U # {}
  BY <1>1 DEF Used
<1> DEFINE k == CHOOSE k \in U : \A j \in U : k <= j
<1> HIDE DEF U
<1>3. k \in U
  BY <1>2, LeastNumber
<1>4. GcNode(b) = <<b, k>>
  BY DEF GcNode, U
<1> HIDE DEF k
<1>5. k \in 1..Len(log[b]) /\ k \in Nat /\ log[b][k] # Dead /\ <<b, k>> \notin obs
  BY <1>1, <1>3 DEF U, Used
<1> QED BY <1>4, <1>5, PlaceFacts DEF At

\* Steps that only make nodes obsolete.
LEMMA ObsoleteStep ==
    ASSUME Up, NEW old, MarkObsolete(old), old \subseteq Places(log),
           UNCHANGED <<medium, log, wbuf, fsState, hv, hino, nlink, op>>,
           EntriesOK(log, obs \cup old, hv), DirOf(log, obs \cup old) = DirOf(log, obs),
           OpOK(DirOf(log, obs), Living(log, obs \cup old), op, nlink)
    PROVE  Up'
<1>0. /\ log \in Logs /\ wbuf \in Nat /\ Distinct(log) /\ obs \in SUBSET Places(log)
      /\ BlocksOK(log, obs, list, wbuf) /\ FlashOK(log, obs, list, wbuf)
      /\ LinksOK(DirOf(log, obs), op, nlink, hino)
  BY DEF Up, NandType, UpOK
<1>1. PICK dest \in Dest : list' = Refile(list, log, obs \cup old, old, FALSE, wbuf, dest)
  BY DEF MarkObsolete
<1>2. Refiles(list, list', log, obs \cup old, old, wbuf, wbuf, dest)
  BY <1>1 DEF Refile, Refiles
<1>3. BlocksOK(log, obs \cup old, list', wbuf) /\ FlashOK(log, obs \cup old, list', wbuf)
  BY <1>0, <1>2, ObsoletedFlash
<1>4. obs' = obs \cup old /\ clearing' = {} /\ obs' \in SUBSET Places(log)
  BY <1>0 DEF MarkObsolete, Up
<1>5. NandType'
  BY <1>4 DEF Up, NandType
<1>6. UpOK'
  BY <1>0, <1>3, <1>4 DEF UpOK
<1>7. Distinct(log)'
  BY <1>0 DEF Distinct
<1> QED BY <1>5, <1>6, <1>7 DEF Up

\* jffs2_garbage_collect_deletion_dirent drops an entry that nothing depends on.
LEMMA GcDropInv ==
    ASSUME Up, GcDrop
    PROVE  Up'
<1>0. /\ log \in Logs /\ Distinct(log) /\ obs \in SUBSET Places(log) /\ EntriesOK(log, obs, hv)
      /\ OpOK(DirOf(log, obs), Living(log, obs), op, nlink) /\ medium = "nand"
  BY DEF Up, NandType, UpOK
<1>1. PICK b \in Blocks : Used(log, b, obs) # {} /\ ~Moves(GcNode(b)) /\ MarkObsolete({GcNode(b)})
  BY DEF GcDrop, On
<1> DEFINE p == GcNode(b)
           n == At(log, p).name
           u == obs \cup {p}
<1>2. p \in Places(log) /\ p[1] = b /\ p \notin obs
  BY <1>0, <1>1, GcNodeUsed
<1>3. /\ At(log, p).type = "dirent" /\ At(log, p).ino = 0
      /\ \A q \in Dirents(log, n) \cap obs : q[1] = b \/ At(log, q).ino = 0
  <2>1. At(log, p).type = "dirent" /\ At(log, p).ino = 0 /\ ~DeletionNeeded(p)
    BY <1>1 DEF Moves
  <2> QED BY <1>0, <1>2, <2>1 DEF DeletionNeeded
<1> HIDE DEF p
<1>4. p \in Of(log, "dirent") /\ p \in Dirents(log, n) /\ n \in Names /\ At(log, p).version \in Nat
  <2>1. p \in Of(log, "dirent")
    BY <1>2, <1>3 DEF Of
  <2> QED BY <1>0, <2>1, EntryFacts
<1>5. \A q \in Dirents(log, n) : q # p => q \in obs /\ At(log, q).version < At(log, p).version
  <2> SUFFICES ASSUME NEW q \in Dirents(log, n), q # p
               PROVE  q \in obs /\ At(log, q).version < At(log, p).version
    OBVIOUS
  <2>1. q \in obs
    BY <1>0, <1>2, <1>4, OneEntry
  <2>2. q \in Of(log, "dirent") /\ At(log, q).version \in Nat /\ q \in Places(log)
    BY <1>0, EntryFacts
  <2>3. At(log, q).version <= At(log, p).version
    BY <1>0, <1>2, <1>4, <2>2 DEF EntriesOK, NewestIn
  <2>4. At(log, q).version # At(log, p).version
    BY <1>0, <1>4, <2>2 DEF Distinct
  <2> QED BY <1>4, <2>1, <2>2, <2>3, <2>4
<1>6. EntriesOK(log, u, hv)
  <2>1. \A q \in Of(log, "dirent") : At(log, q).version <= hv
    BY <1>0 DEF EntriesOK
  <2>2. \A q \in Of(log, "dirent") \ u : NewestIn(log, Places(log), q)
    BY <1>0 DEF EntriesOK
  <2>3. ASSUME NEW m \in Names, Dirents(log, m) \subseteq u, NEW q \in Dirents(log, m), At(log, q).ino # 0
        PROVE  \E r \in Dirents(log, m) : /\ r[1] = q[1] /\ At(log, r).ino = 0
                                          /\ At(log, r).version > At(log, q).version
    <3>1. CASE m = n
      <4>1. q # p /\ q \in obs /\ At(log, q).version < At(log, p).version /\ At(log, q).version \in Nat
        BY <1>0, <1>3, <1>5, <2>3, <3>1, EntryFacts
      <4>2. q[1] = p[1]
        BY <1>2, <1>3, <2>3, <3>1, <4>1
      <4> QED BY <1>3, <1>4, <3>1, <4>1, <4>2
    <3>2. CASE m # n
      <4>1. Dirents(log, m) \subseteq obs
        BY <1>0, <2>3, <3>2, EntryFacts
      <4> QED BY <1>0, <2>3, <4>1 DEF EntriesOK
    <3> QED BY <3>1, <3>2
  <2>4. \A i : InodeNodes(log, i) \ u = InodeNodes(log, i) \ obs
    BY <1>0, <1>3, EntryFacts
  <2>5. \A q \in Of(log, "dirent") \ u : At(log, q).ino # 0 => InodeNodes(log, At(log, q).ino) \ u # {}
    BY <1>0, <2>4 DEF EntriesOK
  <2> QED BY <2>1, <2>2, <2>3, <2>5 DEF EntriesOK
<1>7. Living(log, u) = Living(log, obs)
  <2>1. \A i : InodeNodes(log, i) \ u = InodeNodes(log, i) \ obs
    BY <1>0, <1>3, EntryFacts
  <2> QED BY <2>1 DEF Living
<1>8. DirOf(log, u) = DirOf(log, obs)
  <2> HIDE DEF n
  <2>1. DirOf(log, u) \in [Names -> Inos \cup {0}] /\ DirOf(log, obs) \in [Names -> Inos \cup {0}]
    BY <1>0, <1>6, DirFacts
  <2>2. ASSUME NEW m \in Names PROVE DirOf(log, u)[m] = DirOf(log, obs)[m]
    <3>1. CASE m = n
      <4>1. Dirents(log, n) \subseteq u /\ p \in Dirents(log, n) \ obs
        BY <1>2, <1>4, <1>5
      <4>2. DirOf(log, obs)[m] = 0
        BY <1>0, <1>3, <3>1, <4>1, DirFacts
      <4>3. DirOf(log, u)[m] = 0
        BY <1>0, <1>6, <3>1, <4>1, DirFacts
      <4> QED BY <4>2, <4>3
    <3>2. CASE m # n
      <4>1. Dirents(log, m) \ u = Dirents(log, m) \ obs
        BY <1>0, <1>4, <3>2, EntryFacts DEF n
      <4>2. CASE Dirents(log, m) \subseteq obs
        <5>1. Dirents(log, m) \subseteq u
          BY <4>1, <4>2
        <5> QED BY <1>0, <1>6, <4>2, <5>1, DirFacts
      <4>3. CASE ~(Dirents(log, m) \subseteq obs)
        <5>1. PICK q \in Dirents(log, m) \ obs : q \in Dirents(log, m) \ u
          BY <4>1, <4>3
        <5> QED BY <1>0, <1>6, <5>1, DirFacts
      <4> QED BY <4>2, <4>3
    <3> QED BY <3>1, <3>2
  <2> QED BY <2>1, <2>2
<1>9. MarkObsolete({p}) /\ {p} \subseteq Places(log)
      /\ UNCHANGED <<medium, log, wbuf, fsState, hv, hino, nlink, op>>
  BY <1>1, <1>2 DEF p, GcDrop, flashVars
<1>10. OpOK(DirOf(log, obs), Living(log, obs \cup {p}), op, nlink)
  BY <1>0, <1>7
<1> QED BY <1>6, <1>8, <1>9, <1>10, ObsoleteStep

\* jffs2_do_clear_inode: nothing names the inode.
LEMMA ClearInodeInv ==
    ASSUME Up, NEW i \in Inos, ClearInode(i)
    PROVE  Up'
<1>0. /\ log \in Logs /\ Distinct(log) /\ obs \in SUBSET Places(log) /\ EntriesOK(log, obs, hv)
      /\ OpOK(DirOf(log, obs), Living(log, obs), op, nlink) /\ nlink[i] = 0
      /\ LinksOK(DirOf(log, obs), op, nlink, hino)
  BY DEF Up, NandType, UpOK, ClearInode
<1> DEFINE D == DirOf(log, obs)
           old == InodeNodes(log, i) \ obs
           u == obs \cup old
<1>1. op = NoOp \/ (op.ino \in Inos /\ nlink[op.ino] > 0)
  BY <1>0 DEF OpOK
<1>2. Extra(op, i) = 0
  BY <1>0, <1>1 DEF Extra, NoOp
<1>3. NamesOf(D, i) = {}
  <2>1. Cardinality(NamesOf(D, i)) <= 0
    BY <1>0, <1>2 DEF LinksOK
  <2> QED BY <2>1, NamesFinite
<1>4. ASSUME NEW n \in Names, NEW p \in Dirents(log, n) \ obs PROVE At(log, p).ino # i
  BY <1>0, <1>3, DirFacts DEF NamesOf
<1>5. \A k : k # i => InodeNodes(log, k) \ u = InodeNodes(log, k) \ obs
  BY <1>0, EntryFacts
<1>6. Living(log, u) = Living(log, obs) \ {i}
  BY <1>5 DEF Living
<1>7. \A p \in Of(log, "dirent") : p \in u <=> p \in obs
  BY <1>0, EntryFacts
<1>8. old \subseteq Places(log)
  BY <1>0, EntryFacts
<1> HIDE DEF old, D
<1>9. \A n \in Names, k \in Inos : \A p \in Dirents(log, n) \ obs :
         At(log, p).ino = k /\ k \in Living(log, obs) => k \in Living(log, u)
  BY <1>4, <1>6
<1>10. EntriesOK(log, u, hv) /\ DirOf(log, u) = DirOf(log, obs)
  <2> HIDE DEF u
  <2> QED BY <1>0, <1>7, <1>9, SameEntries
<1>11. OpOK(DirOf(log, obs), Living(log, u), op, nlink)
  <2>1. op.ino \in Living(log, obs) => op = NoOp \/ op.ino \in Living(log, u)
    BY <1>0, <1>1, <1>6
  <2> QED BY <1>0, <2>1 DEF OpOK
<1>12. MarkObsolete(old) /\ UNCHANGED <<medium, log, wbuf, fsState, hv, hino, nlink, op>>
  BY DEF ClearInode, old, flashVars
<1> QED BY <1>8, <1>10, <1>11, <1>12, ObsoleteStep

\* Store writes at the end of c->nextblock, and keeps lists and flash right if the entries
\* and versions are right afterwards.
LEMMA StoreFacts ==
    ASSUME Up, NEW node \in Nodes, NEW old, Store(node, old)
    PROVE  /\ \E b \in Blocks : log' = Add(log, b, node)
           /\ obs' = obs \cup old /\ clearing' = {} /\ wbuf' \in Nat
           /\ EntriesOK(log', obs', hv') /\ Distinct(log') =>
                BlocksOK(log', obs', list', wbuf') /\ FlashOK(log', obs', list', wbuf')
<1>0. /\ log \in Logs /\ wbuf \in Nat /\ Distinct(log) /\ EntriesOK(log, obs, hv) /\ medium = "nand"
      /\ BlocksOK(log, obs, list, wbuf) /\ FlashOK(log, obs, list, wbuf)
  BY DEF Up, NandType, UpOK
<1>1. PICK b \in On("next"), dest \in Dest, w \in {0, 1, wbuf + 1} :
        LET L    == [log EXCEPT ![b] = Append(@, node)]
            full == Cardinality(Used(L, b, obs)) = NSlots
            left == IF full THEN 0 ELSE w
            l    == IF full THEN [list EXCEPT ![b] = "closed"] ELSE list
        IN  /\ log' = L
            /\ wbuf' = left
            /\ obs' = obs \cup old
            /\ list' = Refile(l, L, obs \cup old, old, left # wbuf + 1, left, dest)
            /\ clearing' = {}
  BY <1>0 DEF Store
<1> DEFINE full == Cardinality(Used(log', b, obs)) = NSlots
           l    == IF full THEN [list EXCEPT ![b] = "closed"] ELSE list
<1>2. b \in Blocks /\ list[b] = "next" /\ log' = Add(log, b, node)
  BY <1>1 DEF On, Add
<1>3. wbuf' = (IF full THEN 0 ELSE w) /\ obs' = obs \cup old /\ clearing' = {}
  BY <1>1
<1> DEFINE emptied(c) == l[c] \in {"closed", "gc"} /\ (\E p \in old : p[1] = c) /\ Used(log', c, obs') = {}
           kept(c) == IF emptied(c) THEN IF wbuf' > 0 THEN "erasable_pending_wbuf" ELSE dest ELSE l[c]
<1>9. list' = [c \in Blocks |-> IF wbuf' # wbuf + 1 /\ l[c] = "erasable_pending_wbuf" THEN dest ELSE kept(c)]
  BY <1>1 DEF Refile
<1>4. PICK e \in Nat : e = wbuf + 1 /\ Refiles(l, list', log', obs', old, wbuf', e, dest)
  <2> HIDE DEF l
  <2>1. PICK e \in Nat : e = wbuf + 1
    BY <1>0
  <2>2. list' = [c \in Blocks |-> list'[c]]
    BY <1>9
  <2>3. ASSUME NEW c \in Blocks
        PROVE  \/ wbuf' # e /\ l[c] = "erasable_pending_wbuf" /\ list'[c] = dest
               \/ emptied(c) /\ list'[c] = IF wbuf' > 0 THEN "erasable_pending_wbuf" ELSE dest
               \/ ~emptied(c) /\ ~(wbuf' # e /\ l[c] = "erasable_pending_wbuf") /\ list'[c] = l[c]
    <3>1. list'[c] = IF wbuf' # wbuf + 1 /\ l[c] = "erasable_pending_wbuf" THEN dest ELSE kept(c)
      BY <1>9
    <3> QED BY <2>1, <3>1
  <2> QED BY <2>1, <2>2, <2>3 DEF Refiles
<1>5. Closed(list, l, b, wbuf')
  BY <1>3 DEF Closed
<1>6. wbuf' \in Nat /\ (wbuf' > 1 => wbuf' = e) /\ e \in Nat /\ e = wbuf + 1
  BY <1>0, <1>3, <1>4
<1> HIDE DEF l
<1>7. ASSUME EntriesOK(log', obs', hv'), Distinct(log')
      PROVE  BlocksOK(log', obs', list', wbuf') /\ FlashOK(log', obs', list', wbuf')
  <2>1. EntriesOK(log', obs \cup old, hv') /\ Refiles(l, list', log', obs \cup old, old, wbuf', e, dest)
    BY <1>3, <1>4, <1>7
  <2>2. BlocksOK(log', obs \cup old, list', wbuf') /\ FlashOK(log', obs \cup old, list', wbuf')
    BY ONLY <1>0, <1>2, <1>5, <1>6, <1>7, <2>1, dest \in Dest, node \in Nodes, StoredFlash
  <2> QED BY <1>3, <2>2
<1> QED BY <1>2, <1>3, <1>6, <1>7

\* A step that writes a node.
LEMMA StoreStep ==
    ASSUME Up, NEW node \in Nodes, NEW old, Store(node, old), old \subseteq Places(log),
           UNCHANGED <<medium, fsState, hino>>, hv' \in 0..MaxVer,
           EntriesOK(log', obs', hv'), Distinct(log'), nlink' \in [Inos -> Nat],
           op' \in Ops,
           OpOK(DirOf(log', obs'), Living(log', obs'), op', nlink'),
           LinksOK(DirOf(log', obs'), op', nlink', hino)
    PROVE  Up'
<1>1. log \in Logs /\ obs \in SUBSET Places(log) /\ hino \in Nat \ {0}
  BY DEF Up, NandType
<1>2. PICK b \in Blocks : log' = Add(log, b, node)
  BY StoreFacts
<1>3. log' \in Logs /\ Places(log) \subseteq Places(log')
  BY <1>1, <1>2, Appended
<1>4. /\ obs' = obs \cup old /\ clearing' = {} /\ wbuf' \in Nat
      /\ BlocksOK(log', obs', list', wbuf') /\ FlashOK(log', obs', list', wbuf')
  BY StoreFacts
<1>5. NandType'
  BY <1>1, <1>3, <1>4 DEF NandType
<1>6. UpOK'
  BY <1>4 DEF UpOK
<1>7. Distinct(log)'
  BY DEF Distinct
<1> QED BY <1>5, <1>6, <1>7 DEF Up

\* An operation is where it was when more inodes have a node.
LEMMA OpGrows ==
    ASSUME NEW D, NEW I, NEW J, NEW r, NEW nl, OpOK(D, I, r, nl), I \subseteq J
    PROVE  OpOK(D, J, r, nl)
<1>1. CASE r = NoOp
  BY <1>1 DEF OpOK
<1>2. CASE r # NoOp
  <2>1. r.ino \in I => r.ino \in J
    OBVIOUS
  <2> QED BY <1>2, <2>1 DEF OpOK
<1> QED BY <1>1, <1>2

\* A step that writes an entry of name n for inode i, or a deletion entry.
LEMMA EntryStep ==
    ASSUME Up, NEW n \in Names, NEW i \in Inos \cup {0}, i = 0 \/ i \in Living(log, obs),
           hv' = hv + 1, hv + 1 <= MaxVer, Store(Dirent(n, i, hv + 1), Dents(n)),
           UNCHANGED <<medium, fsState, hino>>, nlink' \in [Inos -> Nat], op' \in Ops,
           NEW E, E = [DirOf(log, obs) EXCEPT ![n] = i],
           OpOK(E, Living(log, obs), op', nlink'), LinksOK(E, op', nlink', hino)
    PROVE  Up'
<1>0. /\ log \in Logs /\ Distinct(log) /\ EntriesOK(log, obs, hv) /\ obs \in SUBSET Places(log)
      /\ hv \in Nat /\ hv' \in 0..MaxVer /\ hv' > hv
  BY Jffs2Assumption DEF Up, NandType, UpOK
<1> DEFINE x == Dirent(n, i, hv')
           old == Dirents(log, n) \ obs
<1>1. x \in Nodes /\ Store(x, old)
  BY <1>0, EntryIsNode DEF Dents
<1>2. PICK b \in Blocks : log' = Add(log, b, x)
  BY <1>1, StoreFacts
<1>3. obs' = obs \cup old
  BY <1>1, StoreFacts
<1>4. /\ EntriesOK(log', obs', hv') /\ Distinct(log') /\ DirOf(log', obs') = E
      /\ Living(log', obs') = Living(log, obs)
  <2> DEFINE M == Add(log, b, Dirent(n, i, hv'))
             u == obs \cup (Dirents(log, n) \ obs)
  <2>1. /\ EntriesOK(M, u, hv') /\ Distinct(M)
        /\ DirOf(M, u) = [DirOf(log, obs) EXCEPT ![n] = i] /\ Living(M, u) = Living(log, obs)
    BY ONLY <1>0, b \in Blocks, n \in Names, i \in Inos \cup {0}, i = 0 \/ i \in Living(log, obs),
            EntryStored
  <2>2. log' = M /\ obs' = u
    BY <1>2, <1>3
  <2> HIDE DEF M, u
  <2> QED BY <2>1, <2>2
<1>5. old \subseteq Places(log)
  BY <1>0, EntryFacts
<1> HIDE DEF x, old
<1> QED BY <1>0, <1>1, <1>4, <1>5, StoreStep

\* A step that writes an inode node.
LEMMA InodeStep ==
    ASSUME Up, NEW i \in Inos, NEW old \in SUBSET InodeNodes(log, i), hv' = hv, Store(Inode(i), old),
           UNCHANGED <<medium, fsState, hino>>, nlink' \in [Inos -> Nat], op' \in Ops,
           OpOK(DirOf(log, obs), Living(log, obs) \cup {i}, op', nlink'),
           LinksOK(DirOf(log, obs), op', nlink', hino)
    PROVE  Up'
<1>0. /\ log \in Logs /\ Distinct(log) /\ EntriesOK(log, obs, hv) /\ obs \in SUBSET Places(log)
      /\ hv \in 0..MaxVer
  BY DEF Up, NandType, UpOK
<1>1. Inode(i) \in Nodes
  BY InodeIsNode
<1>2. PICK b \in Blocks : log' = Add(log, b, Inode(i))
  BY <1>1, StoreFacts
<1>3. obs' = obs \cup old
  BY <1>1, StoreFacts
<1>4. /\ EntriesOK(log', obs', hv') /\ Distinct(log') /\ DirOf(log', obs') = DirOf(log, obs)
      /\ Living(log', obs') = Living(log, obs) \cup {i}
  <2> DEFINE M == Add(log, b, Inode(i))
             u == obs \cup old
  <2>1. /\ EntriesOK(M, u, hv) /\ Distinct(M) /\ DirOf(M, u) = DirOf(log, obs)
        /\ Living(M, u) = Living(log, obs) \cup {i}
    <3>1. Copied(log, i, old)
      BY DEF Copied
    <3>2. EntriesOK(M, u, hv) /\ Distinct(M) /\ InodeWritten(log, obs, M, u, i)
      BY ONLY <1>0, <3>1, b \in Blocks, i \in Inos, InodeStored
    <3> QED BY <3>2 DEF InodeWritten
  <2>2. log' = M /\ obs' = u
    BY <1>2, <1>3
  <2> HIDE DEF M, u
  <2> QED BY <2>1, <2>2
<1>5. old \subseteq Places(log)
  BY <1>0, EntryFacts
<1> QED BY <1>0, <1>1, <1>4, <1>5, StoreStep

\* jffs2_garbage_collect_dirent and the copying of inode nodes.
LEMMA GcMoveInv ==
    ASSUME Up, GcMove
    PROVE  Up'
<1>0. /\ log \in Logs /\ Distinct(log) /\ EntriesOK(log, obs, hv) /\ obs \in SUBSET Places(log)
      /\ OpOK(DirOf(log, obs), Living(log, obs), op, nlink) /\ LinksOK(DirOf(log, obs), op, nlink, hino)
      /\ hv \in Nat /\ nlink \in [Inos -> Nat] /\ op \in Ops
      /\ UNCHANGED <<medium, fsState, hino, nlink, op>>
  BY Jffs2Assumption DEF Up, NandType, UpOK, GcMove
<1>1. PICK b \in Blocks :
        /\ Used(log, b, obs) # {}
        /\ LET p == GcNode(b)  node == At(log, p)
           IN  IF node.type = "inode" THEN hv' = hv /\ Store(node, {p})
               ELSE hv < MaxVer /\ hv' = hv + 1 /\ Store([node EXCEPT !.version = hv + 1], {p})
  BY DEF GcMove, On
<1> DEFINE p == GcNode(b)
           x == At(log, p)
<1>2. p \in Places(log) /\ p \notin obs /\ x \in Nodes /\ x # Dead
  BY <1>0, <1>1, GcNodeUsed
<1>3. /\ x.type = "inode" => hv' = hv /\ Store(x, {p})
      /\ x.type # "inode" => hv < MaxVer /\ hv' = hv + 1 /\ Store([x EXCEPT !.version = hv + 1], {p})
  BY <1>1
<1> HIDE DEF p
<1>4. CASE x.type = "inode"
  <2>1. x.ino \in Inos /\ x = Inode(x.ino) /\ p \in InodeNodes(log, x.ino)
    BY <1>2, <1>4, NodeKinds DEF InodeNodes, Of
  <2>2. hv' = hv /\ Store(Inode(x.ino), {p})
    BY <1>3, <1>4, <2>1
  <2>3. OpOK(DirOf(log, obs), Living(log, obs) \cup {x.ino}, op', nlink')
    BY <1>0, OpGrows
  <2> QED BY <1>0, <2>1, <2>2, <2>3, InodeStep
<1>5. CASE x.type # "inode"
  <2>1. x.type = "dirent" /\ x.name \in Names /\ x.ino \in Inos \cup {0}
    BY <1>2, <1>5, NodeKinds
  <2>2. p \in Dirents(log, x.name) \ obs /\ p \in Of(log, "dirent") \ obs
    BY <1>2, <2>1 DEF Dirents, Of
  <2>3. Dents(x.name) = {p}
    BY <1>0, <2>2, OneEntry DEF Dents
  <2>4. MaxVer \in Nat /\ hv + 1 \in 0..MaxVer
    BY <1>0, <1>3, <1>5, Jffs2Assumption
  <2>5. [x EXCEPT !.version = hv + 1] = Dirent(x.name, x.ino, hv + 1)
    BY <1>2, <2>1, <2>4, Reversioned
  <2>6. hv' = hv + 1 /\ hv + 1 <= MaxVer /\ Store(Dirent(x.name, x.ino, hv + 1), Dents(x.name))
    BY <1>3, <1>5, <2>3, <2>4, <2>5
  <2>7. x.ino = 0 \/ x.ino \in Living(log, obs)
    BY <1>0, <2>1, <2>2 DEF EntriesOK, Living
  <2>8. DirOf(log, obs) = [DirOf(log, obs) EXCEPT ![x.name] = x.ino]
    <3>1. DirOf(log, obs)[x.name] = x.ino /\ DirOf(log, obs) \in [Names -> Inos \cup {0}]
      BY <1>0, <2>1, <2>2, DirFacts
    <3> QED BY <3>1
  <2> QED BY <1>0, <2>1, <2>6, <2>7, <2>8, EntryStep
<1> QED BY <1>4, <1>5

(***************************************************************************)
(* Directory operations.                                                   *)
(***************************************************************************)

\* What the invariant says while an operation is under way.
LEMMA OpFacts ==
    ASSUME Up
    PROVE  /\ Dir = DirOf(log, obs) /\ DirOf(log, obs) \in [Names -> Inos \cup {0}]
           /\ hv \in Nat /\ hino \in Nat /\ nlink \in [Inos -> Nat] /\ op \in Ops /\ MaxVer \in Nat
           /\ OpOK(DirOf(log, obs), Living(log, obs), op, nlink) /\ LinksOK(DirOf(log, obs), op, nlink, hino)
           /\ \A n \in Names : DirOf(log, obs)[n] # 0 =>
                /\ DirOf(log, obs)[n] \in Living(log, obs)
                /\ Cardinality(NamesOf(DirOf(log, obs), DirOf(log, obs)[n])) > 0
<1>0. /\ log \in Logs /\ Distinct(log) /\ EntriesOK(log, obs, hv)
      /\ OpOK(DirOf(log, obs), Living(log, obs), op, nlink) /\ LinksOK(DirOf(log, obs), op, nlink, hino)
      /\ hv \in Nat /\ hino \in Nat /\ nlink \in [Inos -> Nat] /\ op \in Ops /\ MaxVer \in Nat
  BY Jffs2Assumption DEF Up, NandType, UpOK
<1>1. DirOf(log, obs) \in [Names -> Inos \cup {0}]
  BY <1>0, DirFacts
<1>2. ASSUME NEW n \in Names, DirOf(log, obs)[n] # 0
      PROVE  /\ DirOf(log, obs)[n] \in Living(log, obs)
             /\ Cardinality(NamesOf(DirOf(log, obs), DirOf(log, obs)[n])) > 0
  <2>1. PICK p \in Dirents(log, n) \ obs : DirOf(log, obs)[n] = At(log, p).ino
    BY <1>0, <1>2, DirFacts
  <2>2. p \in Of(log, "dirent") \ obs
    BY <1>0, EntryFacts
  <2>3. DirOf(log, obs)[n] \in Living(log, obs)
    BY <1>0, <1>1, <1>2, <2>1, <2>2 DEF EntriesOK, Living
  <2>4. NamesOf(DirOf(log, obs), DirOf(log, obs)[n]) # {}
    BY DEF NamesOf
  <2>5. Cardinality(NamesOf(DirOf(log, obs), DirOf(log, obs)[n])) > 0
    BY <2>4, NamesFinite
  <2> QED BY <2>3, <2>5
<1>3. Dir = DirOf(log, obs)
  BY DEF Dir, Dents, DirOf
<1> QED BY <1>0, <1>1, <1>2, <1>3

\* The entry that an operation writes next.
LEMMA OpWritesEntry ==
    ASSUME Up, OpWrite, NEW m \in Names, NEW i \in Inos \cup {0},
           Head(op.todo) = Dirent(m, i, 0), op.ver = 0
    PROVE  hv' = hv + 1 /\ hv + 1 <= MaxVer /\ Store(Dirent(m, i, hv + 1), Dents(m))
<1>0. hv \in Nat /\ MaxVer \in Nat /\ 0 \in 0..MaxVer
  BY OpFacts
<1>1. Version = hv + 1
  BY DEF Version
<1> DEFINE x == Dirent(m, i, 0)
<1>2. x \in Nodes /\ x.type = "dirent" /\ x.name = m /\ x.ino = i
  BY <1>0, EntryIsNode
<1>3. Head(op.todo) = x
  OBVIOUS
<1> HIDE DEF x
<1>4. hv + 1 <= MaxVer /\ hv' = hv + 1 /\ Store([x EXCEPT !.version = hv + 1], Dents(m))
  BY <1>1, <1>2, <1>3 DEF OpWrite
<1>5. [x EXCEPT !.version = hv + 1] = Dirent(m, i, hv + 1)
  <2>1. hv + 1 \in 0..MaxVer
    BY <1>0, <1>4
  <2> QED BY <1>2, <2>1, Reversioned
<1> QED BY <1>4, <1>5

\* nl becomes ml as it should when name m of the directory D goes to inode i.
Follow(D, m, i, r, nl, ml) ==
    \A k \in Inos : /\ k # i /\ D[m] # k => nl[k] + Extra(r, k) <= ml[k]
                    /\ k # i /\ D[m] = k => nl[k] + Extra(r, k) <= ml[k] + 1
                    /\ k = i => Cardinality(NamesOf(D, k)) + 1 <= ml[k]
                    /\ nl[k] = 0 => ml[k] = 0

\* The last entry of an operation is written, with nlink as it should be.
LEMMA LastWriteInv ==
    ASSUME Up, OpWrite, NEW m \in Names, NEW i \in Inos \cup {0}, i = 0 \/ i \in Living(log, obs),
           op.todo = <<Dirent(m, i, 0)>>, op.ver = 0, nlink' \in [Inos -> Nat],
           Follow(DirOf(log, obs), m, i, op, nlink, nlink')
    PROVE  Up'
<1> DEFINE D == DirOf(log, obs)
           E == [D EXCEPT ![m] = i]
<1>0. /\ D \in [Names -> Inos \cup {0}] /\ LinksOK(D, op, nlink, hino) /\ nlink \in [Inos -> Nat]
      /\ hino \in Nat
  BY OpFacts
<1>1. Len(op.todo) = 1 /\ Head(op.todo) = Dirent(m, i, 0)
  OBVIOUS
<1>2. hv' = hv + 1 /\ hv + 1 <= MaxVer /\ Store(Dirent(m, i, hv + 1), Dents(m))
  BY <1>1, OpWritesEntry
<1>3. op' = NoOp /\ UNCHANGED <<medium, fsState, hino>>
  BY <1>1 DEF OpWrite
<1>4. op' \in Ops
  BY <1>3 DEF Ops, NoOp, Calls
<1>5. OpOK(E, Living(log, obs), op', nlink')
  BY <1>3 DEF OpOK
<1>6. \A k \in Inos : Extra(op', k) = 0 /\ Extra(op, k) \in Nat
  BY <1>3 DEF Extra, NoOp
<1>7. LinksOK(E, op', nlink', hino)
  <2> SUFFICES ASSUME NEW k \in Inos
               PROVE  /\ Cardinality(NamesOf(E, k)) <= nlink'[k] + Extra(op', k)
                      /\ k > hino => nlink'[k] = 0
    BY DEF LinksOK
  <2> DEFINE d == Cardinality(NamesOf(D, k))
             e == Cardinality(NamesOf(E, k))
  <2>1. /\ k # i /\ D[m] # k => e = d
        /\ k # i /\ D[m] = k => e = d - 1
        /\ k = i => e <= d + 1
    BY <1>0, NamesMoved
  <2>2. d \in Nat /\ e \in Nat /\ nlink[k] \in Nat /\ nlink'[k] \in Nat
    BY <1>0, NamesFinite
  <2>3. d <= nlink[k] + Extra(op, k) /\ (k > hino => nlink[k] = 0)
    BY <1>0 DEF LinksOK
  <2> HIDE DEF d, e, D, E
  <2>4. e <= nlink'[k]
    BY <1>6, <2>1, <2>2, <2>3 DEF D, d, Follow
  <2>5. nlink[k] = 0 => nlink'[k] = 0
    BY DEF Follow
  <2> QED BY <1>6, <2>2, <2>3, <2>4, <2>5 DEF e
<1> HIDE DEF E
<1>8. E = [DirOf(log, obs) EXCEPT ![m] = i]
  BY DEF E
<1> QED BY <1>2, <1>3, <1>4, <1>5, <1>7, <1>8, EntryStep

\* nlink of one inode is counted up or down.
Inc(f, i) == [f EXCEPT ![i] = @ + 1]
Dec(f, i) == [f EXCEPT ![i] = @ - 1]

\* What counting up or down does to the other inodes.
LEMMA Counted ==
    ASSUME NEW f \in [Inos -> Nat], NEW i \in Inos
    PROVE  /\ Inc(f, i) \in [Inos -> Nat] /\ Inc(f, i)[i] = f[i] + 1
           /\ f[i] > 0 => Dec(f, i) \in [Inos -> Nat] /\ Dec(f, i)[i] = f[i] - 1
           /\ \A k \in Inos \ {i} : Inc(f, i)[k] = f[k] /\ Dec(f, i)[k] = f[k]
<1>1. f[i] + 1 \in Nat /\ (f[i] > 0 => f[i] - 1 \in Nat)
  OBVIOUS
<1> QED BY <1>1 DEF Inc, Dec

\* jffs2_create's inode node.
LEMMA WriteInodeInv ==
    ASSUME Up, OpWrite, NEW n \in Names, op.ino \in Inos, nlink[op.ino] > 0, op.ver = 0,
           op.call = "create", op.todo = <<Inode(op.ino), Dirent(n, op.ino, 0)>>,
           Cardinality(NamesOf(DirOf(log, obs), op.ino)) < nlink[op.ino]
    PROVE  Up'
<1>0. /\ nlink \in [Inos -> Nat] /\ op \in Ops /\ LinksOK(DirOf(log, obs), op, nlink, hino)
      /\ MaxVer \in Nat
  BY OpFacts
<1>1. Inode(op.ino).type = "inode"
  BY InodeIsNode
<1>2. /\ Len(op.todo) = 2 /\ Head(op.todo) = Inode(op.ino)
      /\ Tail(op.todo) = <<Dirent(n, op.ino, 0)>>
  OBVIOUS
<1>3. /\ hv' = hv /\ Store(Inode(op.ino), {}) /\ UNCHANGED <<medium, fsState, hino>>
  BY <1>1, <1>2 DEF OpWrite
<1>4. nlink' = nlink
  BY DEF OpWrite, LinksAfter
<1>5. op' = [op EXCEPT !.todo = Tail(@), !.held = FALSE, !.ver = 0, !.retried = FALSE]
  BY <1>2 DEF OpWrite
<1>6. /\ op'.call = "create" /\ op'.todo = <<Dirent(n, op.ino, 0)>> /\ op'.ino = op.ino /\ op'.ver = 0
      /\ op' \in Ops
  <2>1. Dirent(n, op.ino, 0) \in Nodes
    BY <1>0, EntryIsNode
  <2>2. Tail(op.todo) \in Seq(Nodes)
    BY <1>2, <2>1
  <2> QED BY <1>0, <1>2, <1>5, <2>2 DEF Ops
<1>7. OpOK(DirOf(log, obs), Living(log, obs) \cup {op.ino}, op', nlink')
  BY <1>4, <1>6 DEF OpOK
<1>8. LinksOK(DirOf(log, obs), op', nlink', hino)
  <2>1. \A k \in Inos : Extra(op', k) = 0 /\ Extra(op, k) = 0
    BY <1>6 DEF Extra
  <2> QED BY <1>0, <1>4, <2>1 DEF LinksOK
<1> QED BY <1>0, <1>3, <1>4, <1>6, <1>7, <1>8, InodeStep

\* The new name of jffs2_rename.
LEMMA WriteNewNameInv ==
    ASSUME Up, OpWrite, NEW n \in Names, NEW m \in Names, op.ino \in Inos, nlink[op.ino] > 0, op.ver = 0,
           op.call = "rename", op.todo = <<Dirent(m, op.ino, 0), Dirent(n, 0, 0)>>,
           DirOf(log, obs)[n] = op.ino, DirOf(log, obs)[m] # op.ino
    PROVE  Up'
<1> DEFINE D == DirOf(log, obs)
           E == [D EXCEPT ![m] = op.ino]
           victim == D[m]
<1>0. /\ nlink \in [Inos -> Nat] /\ op \in Ops /\ LinksOK(D, op, nlink, hino)
      /\ MaxVer \in Nat /\ D \in [Names -> Inos \cup {0}] /\ hino \in Nat
      /\ Inos \subseteq Nat \ {0} /\ Dir = D
  BY OpFacts DEF Inos
<1>1. /\ Len(op.todo) = 2 /\ Head(op.todo) = Dirent(m, op.ino, 0)
      /\ Tail(op.todo) = <<Dirent(n, 0, 0)>>
  OBVIOUS
<1>2. hv' = hv + 1 /\ hv + 1 <= MaxVer /\ Store(Dirent(m, op.ino, hv + 1), Dents(m))
  BY <1>1, OpWritesEntry
<1>3. op' = [op EXCEPT !.todo = Tail(@), !.held = FALSE, !.ver = 0, !.retried = FALSE]
      /\ UNCHANGED <<medium, fsState, hino>>
  BY <1>1 DEF OpWrite
<1>4. /\ op'.call = "rename" /\ op'.todo = <<Dirent(n, 0, 0)>> /\ op'.ino = op.ino /\ op'.ver = 0
      /\ op' \in Ops /\ Len(op'.todo) = 1
  <2>1. Dirent(n, 0, 0) \in Nodes
    BY <1>0, EntryIsNode
  <2>2. Tail(op.todo) \in Seq(Nodes)
    BY <1>1, <2>1
  <2> QED BY <1>0, <1>1, <1>3, <2>2 DEF Ops
<1>5. \A k \in Inos : Extra(op, k) = 0 /\ Extra(op', k) = IF k = op.ino THEN 1 ELSE 0
  BY <1>1, <1>4 DEF Extra
<1>6. nlink' = IF victim # 0 THEN [nlink EXCEPT ![victim] = @ - 1] ELSE nlink
  <2>1. Dirent(m, op.ino, 0).name = m
    BY DEF Dirent
  <2> QED BY <1>0, <1>1, <2>1 DEF OpWrite, LinksAfter
<1>7. victim # 0 => victim \in Inos /\ nlink[victim] > 0
  <2> SUFFICES ASSUME victim # 0 PROVE victim \in Inos /\ nlink[victim] > 0
    OBVIOUS
  <2>1. Cardinality(NamesOf(D, victim)) > 0 /\ victim \in Inos
    BY <1>0, OpFacts
  <2>2. Cardinality(NamesOf(D, victim)) <= nlink[victim] + 0
    BY <1>0, <1>5, <2>1 DEF LinksOK
  <2>3. Cardinality(NamesOf(D, victim)) \in Nat /\ nlink[victim] \in Nat
    BY <1>0, <2>1, NamesFinite
  <2> QED BY <2>1, <2>2, <2>3
<1> HIDE DEF D, E
<1>8. /\ nlink' \in [Inos -> Nat] /\ nlink'[op.ino] = nlink[op.ino]
      /\ \A k \in Inos : nlink'[k] = IF k = victim THEN nlink[k] - 1 ELSE nlink[k]
  <2>1. victim # op.ino /\ 0 \notin Inos
    BY <1>0 DEF D
  <2>2. CASE victim = 0
    BY <1>0, <1>6, <2>1, <2>2
  <2>3. CASE victim # 0
    <3>1. nlink' = Dec(nlink, victim)
      BY <1>6, <2>3 DEF Dec
    <3>2. nlink \in [Inos -> Nat]
      BY <1>0
    <3> QED BY ONLY <1>7, <2>1, <2>3, <3>1, <3>2, op.ino \in Inos, Counted
  <2> QED BY <2>2, <2>3
<1>9. E[n] = op.ino
  BY <1>0 DEF D, E
<1>10. OpOK(E, Living(log, obs), op', nlink')
  BY <1>4, <1>8, <1>9 DEF OpOK
<1>11. LinksOK(E, op', nlink', hino)
  <2> SUFFICES ASSUME NEW k \in Inos
               PROVE  /\ Cardinality(NamesOf(E, k)) <= nlink'[k] + Extra(op', k)
                      /\ k > hino => nlink'[k] = 0
    BY DEF LinksOK
  <2> DEFINE d == Cardinality(NamesOf(D, k))
             e == Cardinality(NamesOf(E, k))
  <2>1. /\ k # op.ino /\ D[m] # k => e = d
        /\ k # op.ino /\ D[m] = k => e = d - 1
        /\ k = op.ino => e <= d + 1
    BY <1>0, NamesMoved DEF E
  <2>2. d \in Nat /\ e \in Nat /\ nlink[k] \in Nat /\ nlink'[k] \in Nat
    BY <1>0, <1>8, NamesFinite
  <2>3. d <= nlink[k] + Extra(op, k) /\ (k > hino => nlink[k] = 0)
    BY <1>0 DEF LinksOK
  <2> HIDE DEF d, e
  <2>4. e <= nlink'[k] + Extra(op', k)
    BY <1>5, <1>8, <2>1, <2>2, <2>3 DEF D
  <2>5. k > hino => nlink'[k] = 0
    BY <1>0, <1>7, <1>8, <2>2, <2>3
  <2> QED BY <2>4, <2>5 DEF e
<1>12. op.ino \in Living(log, obs) /\ E = [DirOf(log, obs) EXCEPT ![m] = op.ino]
  BY <1>0, OpFacts DEF D, E
<1> QED BY <1>2, <1>3, <1>4, <1>8, <1>10, <1>11, <1>12, EntryStep

\* An operation writes its next node.
LEMMA OpWriteInv ==
    ASSUME Up, OpWrite
    PROVE  Up'
<1> DEFINE D == DirOf(log, obs)
<1>0. /\ D \in [Names -> Inos \cup {0}] /\ LinksOK(D, op, nlink, hino) /\ nlink \in [Inos -> Nat]
      /\ hino \in Nat /\ Inos \subseteq Nat \ {0} /\ OpOK(D, Living(log, obs), op, nlink)
      /\ \A k \in Inos : nlink[k] \in Nat /\ Cardinality(NamesOf(D, k)) \in Nat
  BY OpFacts, NamesFinite DEF Inos
<1>1. op # NoOp
  BY DEF OpWrite, NoOp
<1>2. op.ino \in Inos /\ nlink[op.ino] > 0 /\ op.ver = 0
  BY <1>0, <1>1 DEF OpOK
<1>3. PICK n \in Names :
           \/ /\ op.call = "create" /\ op.todo = <<Inode(op.ino), Dirent(n, op.ino, 0)>>
              /\ Cardinality(NamesOf(D, op.ino)) < nlink[op.ino]
           \/ /\ op.call = "create" /\ op.todo = <<Dirent(n, op.ino, 0)>> /\ op.ino \in Living(log, obs)
              /\ Cardinality(NamesOf(D, op.ino)) < nlink[op.ino]
           \/ op.call = "link" /\ op.todo = <<Dirent(n, op.ino, 0)>> /\ op.ino \in Living(log, obs)
           \/ op.call = "unlink" /\ op.todo = <<Dirent(n, 0, 0)>> /\ D[n] = op.ino
           \/ op.call = "rename" /\ op.todo = <<Dirent(n, 0, 0)>> /\ D[n] = op.ino
           \/ /\ op.call = "rename" /\ D[n] = op.ino
              /\ \E m \in Names : D[m] # op.ino /\ op.todo = <<Dirent(m, op.ino, 0), Dirent(n, 0, 0)>>
  BY <1>0, <1>1 DEF OpOK
<1>4. nlink' = LinksAfter
  BY DEF OpWrite
<1>5. CASE op.call = "create" /\ op.todo = <<Inode(op.ino), Dirent(n, op.ino, 0)>>
           /\ Cardinality(NamesOf(D, op.ino)) < nlink[op.ino]
  BY <1>2, <1>5, WriteInodeInv
<1>6. CASE op.call = "create" /\ op.todo = <<Dirent(n, op.ino, 0)>> /\ op.ino \in Living(log, obs)
           /\ Cardinality(NamesOf(D, op.ino)) < nlink[op.ino]
  <2>1. nlink' = nlink
    BY <1>4, <1>6 DEF LinksAfter
  <2>2. \A k \in Inos : Extra(op, k) = 0
    BY <1>6 DEF Extra
  <2>3. Follow(D, n, op.ino, op, nlink, nlink')
    BY <1>0, <1>6, <2>1, <2>2 DEF Follow
  <2> QED BY <1>0, <1>2, <1>6, <2>1, <2>3, LastWriteInv
<1>7. CASE op.call = "link" /\ op.todo = <<Dirent(n, op.ino, 0)>> /\ op.ino \in Living(log, obs)
  <2>1. nlink' = Inc(nlink, op.ino)
    BY <1>4, <1>7 DEF LinksAfter, Inc
  <2>2. \A k \in Inos : Extra(op, k) = 0
    BY <1>7 DEF Extra
  <2>3. /\ nlink' \in [Inos -> Nat] /\ nlink'[op.ino] = nlink[op.ino] + 1
        /\ \A k \in Inos \ {op.ino} : nlink'[k] = nlink[k]
    <3>1. nlink \in [Inos -> Nat]
      BY <1>0
    <3> QED BY ONLY <1>2, <2>1, <3>1, Counted
  <2>4. Cardinality(NamesOf(D, op.ino)) <= nlink[op.ino] + 0
    BY <1>0, <1>2, <2>2 DEF LinksOK
  <2>5. Follow(D, n, op.ino, op, nlink, nlink')
    BY <1>0, <1>2, <2>2, <2>3, <2>4 DEF Follow
  <2> QED BY <1>0, <1>2, <1>7, <2>3, <2>5, LastWriteInv
<1>8. CASE op.call = "unlink" /\ op.todo = <<Dirent(n, 0, 0)>> /\ D[n] = op.ino
  <2>1. nlink' = Dec(nlink, op.ino)
    BY <1>4, <1>8 DEF LinksAfter, Dec
  <2>2. \A k \in Inos : Extra(op, k) = 0
    BY <1>8 DEF Extra
  <2>3. /\ nlink' \in [Inos -> Nat] /\ nlink'[op.ino] = nlink[op.ino] - 1
        /\ \A k \in Inos \ {op.ino} : nlink'[k] = nlink[k]
    <3>1. nlink \in [Inos -> Nat]
      BY <1>0
    <3> QED BY ONLY <1>2, <2>1, <3>1, Counted
  <2>5. Follow(D, n, 0, op, nlink, nlink')
    BY <1>0, <1>2, <1>8, <2>2, <2>3 DEF Follow
  <2> QED BY <1>0, <1>2, <1>8, <2>3, <2>5, LastWriteInv
<1>9. CASE op.call = "rename" /\ op.todo = <<Dirent(n, 0, 0)>> /\ D[n] = op.ino
  <2>0. Len(op.todo) = 1
    BY <1>9
  <2>1. nlink' = nlink
    BY <1>4, <1>9, <2>0 DEF LinksAfter
  <2>2. \A k \in Inos : Extra(op, k) = IF k = op.ino THEN 1 ELSE 0
    BY <1>9, <2>0 DEF Extra
  <2>5. Follow(D, n, 0, op, nlink, nlink')
    BY <1>0, <1>2, <1>9, <2>1, <2>2 DEF Follow
  <2> QED BY <1>0, <1>2, <1>9, <2>1, <2>5, LastWriteInv
<1>10. CASE op.call = "rename" /\ D[n] = op.ino
            /\ \E m \in Names : D[m] # op.ino /\ op.todo = <<Dirent(m, op.ino, 0), Dirent(n, 0, 0)>>
  BY <1>2, <1>10, WriteNewNameInv
<1> QED BY <1>3, <1>5, <1>6, <1>7, <1>8, <1>9, <1>10

\* Steps that change the operation and nlink only.
LEMMA OpStep ==
    ASSUME Up, UNCHANGED <<medium, log, wbuf, fsState, obs, list, hv, clearing>>,
           hino' \in Nat \ {0}, nlink' \in [Inos -> Nat], op' \in Ops,
           OpOK(DirOf(log, obs), Living(log, obs), op', nlink'), LinksOK(DirOf(log, obs), op', nlink', hino')
    PROVE  Up'
<1>1. NandType' /\ Distinct(log)'
  BY DEF Up, NandType, Distinct
<1>2. UpOK'
  BY DEF Up, UpOK
<1> QED BY <1>1, <1>2 DEF Up

\* What an operation begins with.
LEMMA Begun ==
    ASSUME Up, NEW call \in Calls, NEW ino \in Inos, NEW todo \in Seq(Nodes), Begin(call, ino, todo)
    PROVE  /\ op' \in Ops /\ op'.call = call /\ op'.ino = ino /\ op'.todo = todo /\ op'.ver = 0
           /\ UNCHANGED <<medium, log, wbuf, fsState, obs, list, hv, clearing>>
BY DEF Begin, NoOp, Ops, flashVars

\* jffs2_create
LEMMA CreateInv ==
    ASSUME Up, NEW n \in Names, Create(n)
    PROVE  Up'
<1> DEFINE D == DirOf(log, obs)
<1>0. /\ D \in [Names -> Inos \cup {0}] /\ LinksOK(D, op, nlink, hino) /\ nlink \in [Inos -> Nat]
      /\ hino \in Nat \ {0} /\ MaxIno \in Nat /\ MaxVer \in Nat
  BY OpFacts, Jffs2Assumption DEF Up, NandType
<1>1. PICK i \in Inos : i = hino + 1
  BY <1>0 DEF Create, Inos
<1>2. <<Inode(i), Dirent(n, i, 0)>> \in Seq(Nodes)
  BY <1>0, <1>1, InodeIsNode, EntryIsNode
<1>3. Begin("create", i, <<Inode(i), Dirent(n, i, 0)>>) /\ hino' = i /\ nlink' = [nlink EXCEPT ![i] = 1]
  BY <1>1 DEF Create
<1>4. /\ op' \in Ops /\ op'.call = "create" /\ op'.ino = i /\ op'.ver = 0
      /\ op'.todo = <<Inode(i), Dirent(n, i, 0)>>
      /\ UNCHANGED <<medium, log, wbuf, fsState, obs, list, hv, clearing>>
  BY <1>1, <1>2, <1>3, Begun DEF Calls
<1>5. op = NoOp
  BY DEF Create, MayBegin
<1>6. \A k \in Inos : Extra(op, k) = 0 /\ Extra(op', k) = 0
  BY <1>4, <1>5 DEF Extra, NoOp
<1>7. /\ nlink' \in [Inos -> Nat] /\ nlink'[i] = 1 /\ \A k \in Inos \ {i} : nlink'[k] = nlink[k]
  BY <1>0, <1>1, <1>3
<1>8. \A k \in Inos : /\ Cardinality(NamesOf(D, k)) \in Nat /\ Cardinality(NamesOf(D, k)) <= nlink[k]
                      /\ k > hino => nlink[k] = 0
                      /\ k \in Nat /\ nlink[k] \in Nat
  BY <1>0, <1>6, NamesFinite DEF LinksOK, Inos
<1>9. Cardinality(NamesOf(D, i)) = 0
  BY <1>0, <1>1, <1>8
<1>10. OpOK(D, Living(log, obs), op', nlink')
  BY <1>1, <1>4, <1>7, <1>9 DEF OpOK
<1>11. LinksOK(D, op', nlink', hino')
  <2> HIDE DEF D
  <2> SUFFICES ASSUME NEW k \in Inos
               PROVE  /\ Cardinality(NamesOf(D, k)) <= nlink'[k] + Extra(op', k)
                      /\ k > hino' => nlink'[k] = 0
    BY DEF LinksOK
  <2>1. CASE k = i
    BY <1>0, <1>1, <1>3, <1>6, <1>7, <1>9, <2>1
  <2>2. CASE k # i
    BY <1>0, <1>1, <1>3, <1>6, <1>7, <1>8, <2>2
  <2> QED BY <2>1, <2>2
<1>12. hino' \in Nat \ {0}
  BY <1>0, <1>1, <1>3
<1> QED BY <1>4, <1>7, <1>10, <1>11, <1>12, OpStep

\* jffs2_link, jffs2_unlink and jffs2_rename.
LEMMA RenamingInv ==
    ASSUME Up, NEW m \in Names, NEW n \in Names, Link(m, n) \/ Unlink(m) \/ Rename(m, n)
    PROVE  Up'
<1> DEFINE D == DirOf(log, obs)
           i == D[m]
<1>0. /\ D \in [Names -> Inos \cup {0}] /\ LinksOK(D, op, nlink, hino) /\ nlink \in [Inos -> Nat]
      /\ hino \in Nat \ {0} /\ MaxVer \in Nat /\ Dir = D
  BY OpFacts DEF Up, NandType
<1>1. op = NoOp /\ i # 0 /\ UNCHANGED <<hino, nlink>>
  BY <1>0 DEF Link, Unlink, Rename, MayBegin
<1>2. i \in Living(log, obs) /\ i \in Inos /\ Cardinality(NamesOf(D, i)) > 0
  BY <1>0, <1>1, OpFacts
<1>3. Extra(op, i) = 0
  BY <1>1 DEF Extra, NoOp
<1>4. nlink[i] > 0
  <2>1. Cardinality(NamesOf(D, i)) <= nlink[i] + 0
    BY <1>0, <1>2, <1>3 DEF LinksOK
  <2> QED BY <1>0, <1>2, <2>1, NamesFinite
<1>5. <<Dirent(n, i, 0)>> \in Seq(Nodes) /\ <<Dirent(m, 0, 0)>> \in Seq(Nodes)
      /\ <<Dirent(n, i, 0), Dirent(m, 0, 0)>> \in Seq(Nodes)
  <2>0. \A x \in Inos \cup {0}, y \in Names : Dirent(y, x, 0) \in Nodes
    <3>1. 0 \in 0..MaxVer
      BY <1>0
    <3> QED BY ONLY <3>1, EntryIsNode
  <2>1. Dirent(n, i, 0) \in Nodes /\ Dirent(m, 0, 0) \in Nodes
    BY <1>2, <2>0
  <2> QED BY <2>1
<1>6. /\ op' \in Ops
      /\ UNCHANGED <<medium, log, wbuf, fsState, obs, list, hv, clearing>>
      /\ OpOK(D, Living(log, obs), op', nlink')
      /\ op'.call = "rename" => Len(op'.todo) = 2
  <2>1. CASE Link(m, n)
    <3>1. Begin("link", i, <<Dirent(n, i, 0)>>)
      BY <1>0, <2>1 DEF Link
    <3>2. /\ op' \in Ops /\ op'.call = "link" /\ op'.ino = i /\ op'.ver = 0 /\ op'.todo = <<Dirent(n, i, 0)>>
          /\ UNCHANGED <<medium, log, wbuf, fsState, obs, list, hv, clearing>>
      BY <1>2, <1>5, <3>1, Begun DEF Calls
    <3>3. OpOK(D, Living(log, obs), op', nlink')
      BY <1>1, <1>2, <1>4, <3>2 DEF OpOK
    <3> QED BY <3>2, <3>3
  <2>2. CASE Unlink(m)
    <3>1. Begin("unlink", i, <<Dirent(m, 0, 0)>>)
      BY <1>0, <2>2 DEF Unlink
    <3>2. /\ op' \in Ops /\ op'.call = "unlink" /\ op'.ino = i /\ op'.ver = 0 /\ op'.todo = <<Dirent(m, 0, 0)>>
          /\ UNCHANGED <<medium, log, wbuf, fsState, obs, list, hv, clearing>>
      BY <1>2, <1>5, <3>1, Begun DEF Calls
    <3>3. OpOK(D, Living(log, obs), op', nlink')
      BY <1>1, <1>2, <1>4, <3>2 DEF OpOK
    <3> QED BY <3>2, <3>3
  <2>3. CASE Rename(m, n)
    <3>1. Begin("rename", i, <<Dirent(n, i, 0), Dirent(m, 0, 0)>>) /\ D[n] # i
      BY <1>0, <2>3 DEF Rename
    <3>2. /\ op' \in Ops /\ op'.call = "rename" /\ op'.ino = i /\ op'.ver = 0
          /\ op'.todo = <<Dirent(n, i, 0), Dirent(m, 0, 0)>>
          /\ UNCHANGED <<medium, log, wbuf, fsState, obs, list, hv, clearing>>
      BY <1>2, <1>5, <3>1, Begun DEF Calls
    <3>3. OpOK(D, Living(log, obs), op', nlink')
      BY <1>1, <1>2, <1>4, <3>1, <3>2 DEF OpOK
    <3> QED BY <3>2, <3>3
  <2> QED BY <2>1, <2>2, <2>3
<1>7. LinksOK(D, op', nlink', hino')
  <2>1. \A k \in Inos : Extra(op, k) = 0 /\ Extra(op', k) = 0
    BY <1>1, <1>6 DEF Extra, NoOp
  <2> QED BY <1>0, <1>1, <2>1 DEF LinksOK
<1> QED BY <1>0, <1>1, <1>6, <1>7, OpStep

\* jffs2_reserve_space
LEMMA ReserveInv ==
    ASSUME Up, Reserve
    PROVE  Up'
<1>0. /\ OpOK(DirOf(log, obs), Living(log, obs), op, nlink) /\ LinksOK(DirOf(log, obs), op, nlink, hino)
      /\ op \in Ops /\ op # NoOp /\ hino \in Nat \ {0} /\ nlink \in [Inos -> Nat]
  BY OpFacts DEF Up, NandType, Reserve, NoOp
<1>1. op' = [op EXCEPT !.held = TRUE] /\ UNCHANGED <<medium, log, wbuf, fsState, obs, list, hv, hino, nlink, clearing>>
  BY DEF Reserve, flashVars
<1>2. /\ op' \in Ops /\ op'.call = op.call /\ op'.todo = op.todo /\ op'.ino = op.ino /\ op'.ver = op.ver
  BY <1>0, <1>1 DEF Ops
<1>3. OpOK(DirOf(log, obs), Living(log, obs), op', nlink')
  BY <1>0, <1>1, <1>2 DEF OpOK
<1>4. LinksOK(DirOf(log, obs), op', nlink', hino')
  BY <1>0, <1>1, <1>2 DEF LinksOK, Extra
<1> QED BY <1>0, <1>1, <1>2, <1>3, <1>4, OpStep

\* An operation that gives up.
LEMMA OpFailsInv ==
    ASSUME Up, OpFails
    PROVE  Up'
<1> DEFINE D == DirOf(log, obs)
<1>0. /\ OpOK(D, Living(log, obs), op, nlink) /\ LinksOK(D, op, nlink, hino)
      /\ op # NoOp /\ hino \in Nat \ {0} /\ nlink \in [Inos -> Nat]
  BY OpFacts DEF Up, NandType, OpFails, NoOp
<1>1. op.ino \in Inos /\ nlink[op.ino] > 0
  BY <1>0 DEF OpOK
<1>2. op' = NoOp /\ UNCHANGED <<medium, log, wbuf, fsState, obs, list, hv, hino, clearing>>
  BY DEF OpFails, GiveUp, flashVars
<1>3. op' \in Ops /\ OpOK(D, Living(log, obs), op', nlink')
  BY <1>2 DEF OpOK, Ops, NoOp, Calls
<1>4. \A k \in Inos : Extra(op', k) = 0
  BY <1>2 DEF Extra, NoOp
<1>5. \A k \in Inos : /\ Cardinality(NamesOf(D, k)) \in Nat /\ nlink[k] \in Nat
                      /\ Cardinality(NamesOf(D, k)) <= nlink[k] + Extra(op, k)
                      /\ k > hino => nlink[k] = 0
  BY <1>0, NamesFinite DEF LinksOK
<1>6. CASE op.call = "rename" /\ Len(op.todo) = 1
  <2>1. nlink' = Inc(nlink, op.ino)
    BY <1>6 DEF OpFails, GiveUp, Inc
  <2>2. /\ nlink' \in [Inos -> Nat] /\ nlink'[op.ino] = nlink[op.ino] + 1
        /\ \A k \in Inos \ {op.ino} : nlink'[k] = nlink[k]
    <3>1. nlink \in [Inos -> Nat]
      BY <1>0
    <3> QED BY ONLY <1>1, <2>1, <3>1, Counted
  <2>3. \A k \in Inos : Extra(op, k) = IF k = op.ino THEN 1 ELSE 0
    BY <1>6 DEF Extra
  <2>4. LinksOK(D, op', nlink', hino')
    <3> HIDE DEF D
    <3> QED BY <1>1, <1>2, <1>4, <1>5, <2>2, <2>3 DEF LinksOK
  <2> QED BY <1>0, <1>2, <1>3, <2>2, <2>4, OpStep
<1>7. CASE ~(op.call = "rename" /\ Len(op.todo) = 1)
  <2>1. nlink' = nlink
    BY <1>7 DEF OpFails, GiveUp
  <2>2. \A k \in Inos : Extra(op, k) = 0
    BY <1>7 DEF Extra
  <2>3. LinksOK(D, op', nlink', hino')
    <3> HIDE DEF D
    <3> QED BY <1>2, <1>4, <1>5, <2>1, <2>2 DEF LinksOK
  <2> QED BY <1>0, <1>2, <1>3, <2>1, <2>3, OpStep
<1> QED BY <1>6, <1>7

(***************************************************************************)
(* Power cuts and mounting.                                                *)
(***************************************************************************)

\* Flashed, of a log L, lists l and w nodes in the write buffer.
FlashedOf(L, l, w, j) ==
    IF j = w THEN L
    ELSE [L EXCEPT ![CHOOSE b \in Blocks : l[b] = "next"] = SubSeq(@, 1, Len(@) - w + j)]

\* What is left when the write buffer is cut off.
LEMMA FlashedPlaces ==
    ASSUME NEW L \in Logs, NEW o, NEW l, NEW w \in Nat, BlocksOK(L, o, l, w), NEW j \in 0..w
    PROVE  /\ FlashedOf(L, l, w, j) \in Logs /\ Places(FlashedOf(L, l, w, j)) = Cut(L, l, w, j, {})
           /\ Places(FlashedOf(L, l, w, j)) \subseteq Places(L)
           /\ \A p \in Places(FlashedOf(L, l, w, j)) : At(FlashedOf(L, l, w, j), p) = At(L, p)
<1> DEFINE P == Cut(L, l, w, j, {})
<1>0. \A p : p \in P <=> p \in Places(L) /\ (l[p[1]] = "next" => p[2] <= Len(L[p[1]]) - w + j)
  BY DEF Cut, Whole
<1>1. \A b \in Blocks : Len(L[b]) \in Nat /\ L[b] \in Seq(Nodes)
  BY DEF Logs
<1>2. CASE j = w
  <2>1. FlashedOf(L, l, w, j) = L
    BY <1>2 DEF FlashedOf
  <2>2. \A p \in Places(L) : p[2] <= Len(L[p[1]]) - w + j
    <3>1. \A p \in Places(L) : p[1] \in Blocks /\ p[2] \in 1..Len(L[p[1]]) /\ Len(L[p[1]]) \in Nat
      BY <1>1, PlaceFacts
    <3> QED BY ONLY <1>2, <3>1, w \in Nat
  <2>3. P = Places(L)
    BY <1>0, <2>2
  <2> QED BY <2>1, <2>3
<1>3. CASE j # w
  <2>1. w > 0 /\ j < w /\ j \in Nat
    BY <1>3
  <2> DEFINE nb == CHOOSE b \in Blocks : l[b] = "next"
  <2>2. nb \in Blocks /\ l[nb] = "next"
    BY <2>1 DEF BlocksOK
  <2> HIDE DEF nb
  <2>3. (\A b \in Blocks : l[b] = "next" => b = nb) /\ w <= Len(L[nb])
    BY <2>2 DEF BlocksOK
  <2> DEFINE F == FlashedOf(L, l, w, j)
             k == Len(L[nb]) - w + j
  <2>4. k \in 0..Len(L[nb]) /\ k \in Nat
    BY <1>1, <2>1, <2>2, <2>3
  <2>5. F = [L EXCEPT ![nb] = SubSeq(@, 1, k)]
    BY <1>3 DEF FlashedOf, nb
  <2> HIDE DEF F, k
  <2>6. SubSeq(L[nb], 1, k) \in Seq(Nodes) /\ Len(SubSeq(L[nb], 1, k)) = k
        /\ \A x \in 1..k : SubSeq(L[nb], 1, k)[x] = L[nb][x]
    BY <1>1, <2>2, <2>4
  <2>7. F \in Logs /\ F[nb] = SubSeq(L[nb], 1, k) /\ \A b \in Blocks \ {nb} : F[b] = L[b]
    BY <2>2, <2>5, <2>6 DEF Logs
  <2>8. ASSUME NEW p \in Places(F) PROVE p \in P /\ At(F, p) = At(L, p)
    <3>1. p[1] \in Blocks /\ p[2] \in 1..Len(F[p[1]]) /\ p = <<p[1], p[2]>>
      BY <2>7, PlaceFacts
    <3>2. p[2] \in 1..Len(L[p[1]]) /\ F[p[1]][p[2]] = L[p[1]][p[2]]
      <4>1. CASE p[1] = nb
        <5>1. p[2] \in 1..k /\ F[nb][p[2]] = L[nb][p[2]]
          BY <2>6, <2>7, <3>1, <4>1
        <5> QED BY <1>1, <2>2, <2>4, <4>1, <5>1
      <4>2. CASE p[1] # nb
        BY <2>7, <3>1, <4>2
      <4> QED BY <4>1, <4>2
    <3>3. p \in Places(L)
      BY <3>1, <3>2, PlaceFacts
    <3>4. l[p[1]] = "next" => p[2] <= Len(L[p[1]]) - w + j
      BY <2>3, <2>6, <2>7, <3>1 DEF k
    <3> QED BY <1>0, <3>2, <3>3, <3>4 DEF At
  <2>9. ASSUME NEW p \in P PROVE p \in Places(F)
    <3>1. p \in Places(L) /\ p[1] \in Blocks /\ p[2] \in 1..Len(L[p[1]]) /\ p = <<p[1], p[2]>>
      BY <1>0, PlaceFacts
    <3>2. p[1] = nb => p[2] <= k
      BY <1>0, <2>2 DEF k
    <3>3. p[2] \in 1..Len(F[p[1]])
      BY <2>4, <2>6, <2>7, <3>1, <3>2
    <3> QED BY <2>7, <3>1, <3>3, PlaceFacts
  <2> HIDE DEF P
  <2>10. P \subseteq Places(L)
    BY <1>0
  <2>11. Places(F) = P
    BY <2>8, <2>9
  <2> QED BY <2>7, <2>8, <2>10, <2>11 DEF F, P
<1> QED BY <1>2, <1>3

\* The same of the flash as it is.
LEMMA FlashedNow ==
    ASSUME log \in Logs, wbuf \in Nat, BlocksOK(log, obs, list, wbuf), NEW j \in 0..wbuf
    PROVE  /\ Flashed(j) \in Logs /\ Places(Flashed(j)) = Cut(log, list, wbuf, j, {})
           /\ Places(Flashed(j)) \subseteq Places(log)
           /\ \A p \in Places(Flashed(j)) : At(Flashed(j), p) = At(log, p)
<1>1. Flashed(j) = FlashedOf(log, list, wbuf, j)
  BY DEF Flashed, FlashedOf
<1> QED BY <1>1, FlashedPlaces

\* A log M that has only nodes of L and dead ones.
LEMMA LessGood ==
    ASSUME NEW L \in Logs, NEW M \in Logs, NEW P, Distinct(L), Good(L, P),
           P \subseteq Places(L), P \subseteq Places(M),
           \A p \in P : At(M, p) = At(L, p), \A p \in Places(M) \ P : At(M, p) = Dead
    PROVE  Distinct(M) /\ Good(M, Places(M))
<1>1. Good(M, Places(M))
  BY GoodSame
<1>2. \A p \in Of(M, "dirent") : p \in Of(L, "dirent") /\ At(M, p) = At(L, p)
  BY DEF Of, Dead
<1>3. Distinct(M)
  BY <1>2 DEF Distinct
<1> QED BY <1>1, <1>3

\* c->nextblock may end in a torn node.
Tear(L, l) == [b \in Blocks |-> IF l[b] = "next" THEN Append(L[b], Dead) ELSE L[b]]

\* A torn node is dead, and the rest of the log is as it was.
LEMMA Torn ==
    ASSUME NEW L \in Logs, NEW l, \A b, c \in Blocks : l[b] = "next" /\ l[c] = "next" => b = c
    PROVE  /\ Tear(L, l) \in Logs /\ Places(L) \subseteq Places(Tear(L, l))
           /\ \A p \in Places(L) : At(Tear(L, l), p) = At(L, p)
           /\ \A p \in Places(Tear(L, l)) \ Places(L) : At(Tear(L, l), p) = Dead
<1>0. \A b \in Blocks : L[b] \in Seq(Nodes) /\ L = [c \in Blocks |-> L[c]]
  BY DEF Logs
<1>1. CASE \A b \in Blocks : l[b] # "next"
  <2>1. Tear(L, l) = L
    BY <1>1 DEF Tear, Logs
  <2> QED BY <2>1
<1>2. ASSUME NEW b \in Blocks, l[b] = "next"
      PROVE  /\ Tear(L, l) \in Logs /\ Places(L) \subseteq Places(Tear(L, l))
             /\ \A p \in Places(L) : At(Tear(L, l), p) = At(L, p)
             /\ \A p \in Places(Tear(L, l)) \ Places(L) : At(Tear(L, l), p) = Dead
  <2>1. \A c \in Blocks : l[c] = "next" <=> c = b
    BY <1>2
  <2>2. Tear(L, l) = Add(L, b, Dead)
    BY <2>1 DEF Tear, Add, Logs
  <2>3. Dead \in Nodes
    BY DEF Nodes
  <2>4. /\ Add(L, b, Dead) \in Logs
        /\ Places(Add(L, b, Dead)) = Places(L) \cup {Slot(L, b)}
        /\ At(Add(L, b, Dead), Slot(L, b)) = Dead
        /\ \A p \in Places(L) : At(Add(L, b, Dead), p) = At(L, p)
    BY ONLY <2>3, L \in Logs, b \in Blocks, Appended
  <2> QED BY <2>2, <2>4
<1> QED BY <1>1, <1>2

\* Power is lost.
LEMMA PowerCutInv ==
    ASSUME Up, PowerCut
    PROVE  /\ medium' = "nand" /\ fsState' = "down" /\ NandType' /\ Distinct(log')
           /\ wbuf' = 0 /\ Good(log', Places(log'))
<1>0. /\ log \in Logs /\ wbuf \in Nat /\ Distinct(log) /\ BlocksOK(log, obs, list, wbuf)
      /\ FlashOK(log, obs, list, wbuf) /\ medium = "nand" /\ MaxVer \in Nat
  BY Jffs2Assumption DEF Up, NandType, UpOK
<1>1. PICK j \in 0..wbuf, torn \in BOOLEAN :
        log' = [b \in Blocks |-> IF torn /\ list[b] = "next" THEN Append(Flashed(j)[b], Dead)
                                 ELSE Flashed(j)[b]]
  BY DEF PowerCut
<1> DEFINE F == Flashed(j)
           P == Places(F)
<1>2. F \in Logs /\ P = Cut(log, list, wbuf, j, {}) /\ P \subseteq Places(log) /\ \A p \in P : At(F, p) = At(log, p)
  BY <1>0, FlashedNow
<1>3. Good(log, P)
  <2>1. {} \in SUBSET Doomed(log, obs, list)
    OBVIOUS
  <2> QED BY <1>0, <1>2, <2>1 DEF FlashOK
<1>4. log' \in Logs /\ P \subseteq Places(log') /\ (\A p \in P : At(log', p) = At(F, p))
      /\ \A p \in Places(log') \ P : At(log', p) = Dead
  <2> HIDE DEF F
  <2>0. \A b, c \in Blocks : list[b] = "next" /\ list[c] = "next" => b = c
    BY <1>0 DEF BlocksOK
  <2>1. CASE torn
    <3>1. log' = Tear(F, list)
      BY <1>1, <2>1 DEF Tear, F
    <3> QED BY <1>2, <2>0, <3>1, Torn
  <2>2. CASE ~torn
    <3>1. log' = [b \in Blocks |-> F[b]]
      BY <1>1, <2>2 DEF F
    <3>2. log' = F
      BY <1>2, <3>1 DEF Logs
    <3> QED BY <1>2, <3>2
  <2> QED BY <2>1, <2>2
<1> HIDE DEF P, F
<1>5. \A p \in P : At(log', p) = At(log, p)
  BY <1>2, <1>4 DEF P
<1>6. Distinct(log') /\ Good(log', Places(log'))
  BY <1>0, <1>2, <1>3, <1>4, <1>5, LessGood
<1>7. NandType'
  <2>1. op' = NoOp /\ op' \in Ops
    BY DEF PowerCut, NoCore, NoOp, Ops, Calls
  <2>2. /\ wbuf' = 0 /\ obs' = {} /\ clearing' = {} /\ hv' = 0 /\ hino' = 1 /\ nlink' = [i \in Inos |-> 0]
    BY DEF PowerCut, NoCore
  <2>3. nlink' \in [Inos -> Nat] /\ hv' \in 0..MaxVer /\ hino' \in Nat \ {0}
    BY <1>0, <2>2
  <2> QED BY <1>4, <2>1, <2>2, <2>3 DEF NandType
<1> QED BY <1>0, <1>6, <1>7 DEF PowerCut

\* jffs2_add_fd_to_list finds the entry with the highest version.
LEMMA NewestFacts ==
    ASSUME NEW L \in Logs, NEW n, Dirents(L, n) # {}
    PROVE  /\ Newest(L, Dirents(L, n)) \in Dirents(L, n)
           /\ \A q \in Dirents(L, n) : At(L, q).version <= At(L, Newest(L, Dirents(L, n))).version
<1> DEFINE D == Dirents(L, n)
           V == {At(L, p).version : p \in D}
<1>1. \A p \in D : At(L, p).version \in 0..MaxVer
  BY EntryFacts
<1>2. V \in SUBSET (0..MaxVer) /\ V # {} /\ MaxVer \in Nat
  BY <1>1, Jffs2Assumption
<1>3. PICK v \in V : \A u \in V : u <= v
  BY <1>2, GreatestNumber
<1>4. PICK p \in D : v = At(L, p).version
  BY <1>3
<1>5. \A q \in D : At(L, q).version <= At(L, p).version
  BY <1>3, <1>4
<1> HIDE DEF D, V
<1>6. \E r \in D : \A q \in D : At(L, q).version <= At(L, r).version
  BY <1>4, <1>5
<1>7. Newest(L, D) \in D /\ \A q \in D : At(L, q).version <= At(L, Newest(L, D)).version
  BY <1>6 DEF Newest
<1> QED BY <1>7 DEF D

\* There is only one such entry.
LEMMA NewestIsIt ==
    ASSUME NEW L \in Logs, Distinct(L), NEW p \in Of(L, "dirent"), NewestIn(L, Places(L), p)
    PROVE  Newest(L, Dirents(L, At(L, p).name)) = p
<1> DEFINE n == At(L, p).name
           q == Newest(L, Dirents(L, n))
<1>1. p \in Dirents(L, n) /\ At(L, p).version \in Nat
  BY EntryFacts
<1>2. q \in Dirents(L, n) /\ At(L, p).version <= At(L, q).version
  BY <1>1, NewestFacts
<1>3. q \in Of(L, "dirent") /\ At(L, q).version \in Nat /\ q \in Places(L)
  BY <1>2, EntryFacts
<1> HIDE DEF q
<1>4. At(L, q).version <= At(L, p).version
  BY <1>2, <1>3 DEF NewestIn
<1>5. At(L, q).version = At(L, p).version
  BY <1>1, <1>2, <1>3, <1>4
<1>6. q = p
  BY <1>3, <1>5 DEF Distinct
<1> QED BY <1>6 DEF q

\* A mount shows the directory that is in core.
LEMMA ShownIsDir ==
    ASSUME NEW L \in Logs, NEW o, NEW v, EntriesOK(L, o, v), Distinct(L)
    PROVE  Shown(L) = DirOf(L, o)
<1>0. InodeNodes(L, 0) = {}
  <2>1. 0 \notin Inos
    BY Jffs2Assumption DEF Inos
  <2> QED BY <2>1, EntryFacts
<1>1. ASSUME NEW n \in Names PROVE Shown(L)[n] = DirOf(L, o)[n]
  <2> DEFINE D == Dirents(L, n)
             q == Newest(L, D)
  <2>0. Shown(L)[n] = IF D = {} \/ InodeNodes(L, At(L, q).ino) = {} THEN 0 ELSE At(L, q).ino
    BY DEF Shown
  <2>1. CASE D = {}
    <3>1. DirOf(L, o)[n] = 0
      BY <2>1, DirFacts
    <3> QED BY <2>0, <2>1, <3>1
  <2>2. CASE D # {} /\ D \subseteq o
    <3>1. DirOf(L, o)[n] = 0
      BY <2>2, DirFacts
    <3>2. q \in D /\ \A p \in D : At(L, p).version <= At(L, q).version
      BY <2>2, NewestFacts
    <3> HIDE DEF q
    <3>3. At(L, q).ino = 0
      <4> SUFFICES ASSUME At(L, q).ino # 0 PROVE FALSE
        OBVIOUS
      <4>1. PICK p \in D : At(L, p).version > At(L, q).version
        BY <2>2, <3>2 DEF EntriesOK
      <4>2. At(L, p).version \in Nat /\ At(L, q).version \in Nat
        BY <3>2, <4>1, EntryFacts
      <4> QED BY <3>2, <4>1, <4>2
    <3> QED BY <1>0, <2>0, <3>1, <3>3
  <2>3. CASE ~(D \subseteq o)
    <3>1. PICK p \in D : p \notin o
      BY <2>3
    <3>2. p \in Of(L, "dirent") \ o /\ At(L, p).name = n
      BY <3>1, EntryFacts
    <3>3. NewestIn(L, Places(L), p)
      BY <3>2 DEF EntriesOK
    <3>4. q = p
      BY <3>2, <3>3, NewestIsIt
    <3>5. DirOf(L, o)[n] = At(L, p).ino
      BY <3>1, DirFacts
    <3>6. At(L, p).ino # 0 => InodeNodes(L, At(L, p).ino) # {}
      BY <3>2 DEF EntriesOK
    <3> HIDE DEF q
    <3> QED BY <1>0, <2>0, <3>1, <3>4, <3>5, <3>6
  <2> QED BY <2>1, <2>2, <2>3
<1>2. Shown(L) = [n \in Names |-> Shown(L)[n]]
  BY DEF Shown
<1>3. DirOf(L, o) = [n \in Names |-> DirOf(L, o)[n]]
  BY DEF DirOf
<1> QED BY <1>1, <1>2, <1>3

\* The parts of Mount: the entries the scan finds newer ones of, nlink, and what
\* jffs2_build_filesystem finds without an inode or a name.
Superseded(L) == {p \in Of(L, "dirent") : p # Newest(L, Dirents(L, At(L, p).name))}
Links(L) == [i \in Inos |-> Cardinality({n \in Names : Shown(L)[n] = i})]
Unbuilt(L) == {p \in Of(L, "dirent") \ Superseded(L) :
                  At(L, p).ino # 0 /\ InodeNodes(L, At(L, p).ino) = {}}
              \cup {p \in Of(L, "inode") : Links(L)[At(L, p).ino] = 0}

\* The second copies of inode nodes that the CRC check obsoletes.
Copies(L, dups) ==
    /\ dups \subseteq Of(L, "inode") \ Unbuilt(L)
    /\ \A i \in {At(L, p).ino : p \in Of(L, "inode")} :
          Links(L)[i] > 0 => Cardinality(InodeNodes(L, i) \ dups) = 1

\* v is the highest of the versions of the entries that a mount keeps.
HighestVer(L, v) ==
    LET vers == {At(L, p).version : p \in Of(L, "dirent") \ (Superseded(L) \cup Unbuilt(L))}
    IN  v = IF vers = {} THEN 0 ELSE CHOOSE x \in vers : \A u \in vers : u <= x
HighestIno(L, i) ==
    LET inos == {At(L, p).ino : p \in Of(L, "inode")}
    IN  i = IF inos = {} THEN 1 ELSE CHOOSE x \in inos : \A j \in inos : j <= x

\* What a mount keeps: the newest entries, which all have inodes.
LEMMA Kept ==
    ASSUME NEW L \in Logs, Distinct(L), Good(L, Places(L))
    PROVE  /\ Unbuilt(L) = {p \in Of(L, "inode") : Links(L)[At(L, p).ino] = 0}
           /\ \A p \in Of(L, "dirent") : p \notin Superseded(L) <=> NewestIn(L, Places(L), p)
           /\ \A n : Dirents(L, n) # {} => Newest(L, Dirents(L, n)) \notin Superseded(L)
           /\ \A p \in Of(L, "dirent") \ Superseded(L) :
                 At(L, p).ino # 0 => Shown(L)[At(L, p).name] = At(L, p).ino /\ InodeNodes(L, At(L, p).ino) # {}
<1>1. ASSUME NEW p \in Of(L, "dirent") PROVE p \notin Superseded(L) <=> NewestIn(L, Places(L), p)
  <2>0. p \in Dirents(L, At(L, p).name)
    BY EntryFacts
  <2>1. p \notin Superseded(L) <=> p = Newest(L, Dirents(L, At(L, p).name))
    BY DEF Superseded
  <2>2. ASSUME p = Newest(L, Dirents(L, At(L, p).name)) PROVE NewestIn(L, Places(L), p)
    <3>1. \A q \in Dirents(L, At(L, p).name) :
             At(L, q).version <= At(L, Newest(L, Dirents(L, At(L, p).name))).version
      BY <2>0, NewestFacts
    <3> QED BY <2>2, <3>1 DEF NewestIn
  <2> QED BY <2>1, <2>2, NewestIsIt
<1>2. ASSUME NEW n, Dirents(L, n) # {} PROVE Newest(L, Dirents(L, n)) \notin Superseded(L)
  <2>1. Newest(L, Dirents(L, n)) \in Dirents(L, n)
    BY <1>2, NewestFacts
  <2>2. At(L, Newest(L, Dirents(L, n))).name = n
    BY <2>1, EntryFacts
  <2> QED BY <2>2 DEF Superseded
<1>3. ASSUME NEW p \in Of(L, "dirent") \ Superseded(L), At(L, p).ino # 0
      PROVE  InodeNodes(L, At(L, p).ino) # {}
  <2>1. NewestIn(L, Places(L), p) /\ p \in Places(L)
    BY <1>1, EntryFacts
  <2> QED BY <1>3, <2>1 DEF Good
<1>4. Unbuilt(L) = {p \in Of(L, "inode") : Links(L)[At(L, p).ino] = 0}
  BY <1>3 DEF Unbuilt
<1>5. ASSUME NEW p \in Of(L, "dirent") \ Superseded(L), At(L, p).ino # 0
      PROVE  Shown(L)[At(L, p).name] = At(L, p).ino
  <2>1. Newest(L, Dirents(L, At(L, p).name)) = p
    BY DEF Superseded
  <2>2. At(L, p).name \in Names /\ Dirents(L, At(L, p).name) # {}
    BY EntryFacts
  <2>3. InodeNodes(L, At(L, p).ino) # {}
    BY <1>3, <1>5
  <2> QED BY <2>1, <2>2, <2>3 DEF Shown
<1> QED BY <1>1, <1>2, <1>3, <1>4, <1>5

\* The highest version and inode number a mount finds.
LEMMA HighestFacts ==
    ASSUME NEW L \in Logs, NEW v, HighestVer(L, v), NEW h, HighestIno(L, h)
    PROVE  /\ v \in 0..MaxVer /\ h \in Nat \ {0}
           /\ \A p \in Of(L, "dirent") \ (Superseded(L) \cup Unbuilt(L)) : At(L, p).version <= v
           /\ \A p \in Of(L, "inode") : At(L, p).ino <= h
<1> DEFINE K == Of(L, "dirent") \ (Superseded(L) \cup Unbuilt(L))
           vers == {At(L, p).version : p \in K}
           inos == {At(L, p).ino : p \in Of(L, "inode")}
<1>0. MaxVer \in Nat /\ MaxIno \in Nat
  BY Jffs2Assumption
<1>1. vers \in SUBSET (0..MaxVer)
  BY EntryFacts
<1>2. inos \in SUBSET (0..MaxIno) /\ 0 \notin inos
  <2>1. ASSUME NEW p \in Of(L, "inode") PROVE At(L, p).ino \in 2..MaxIno
    <3>1. p \in InodeNodes(L, At(L, p).ino)
      BY DEF InodeNodes
    <3> QED BY <3>1, EntryFacts DEF Inos
  <2> QED BY <2>1
<1>3. v = IF vers = {} THEN 0 ELSE CHOOSE x \in vers : \A u \in vers : u <= x
  BY DEF HighestVer
<1>4. h = IF inos = {} THEN 1 ELSE CHOOSE x \in inos : \A u \in inos : u <= x
  BY DEF HighestIno
<1>5. \A p \in K : At(L, p).version \in vers
  OBVIOUS
<1>6. \A p \in Of(L, "inode") : At(L, p).ino \in inos
  OBVIOUS
<1> HIDE DEF vers, inos, K
<1>7. v \in 0..MaxVer /\ \A u \in vers : u <= v
  <2>1. CASE vers = {}
    BY <1>0, <1>3, <2>1
  <2>2. CASE vers # {}
    <3>1. \E x \in vers : \A u \in vers : u <= x
      BY <1>0, <1>1, <2>2, GreatestNumber
    <3>2. v \in vers /\ \A u \in vers : u <= v
      BY <1>3, <2>2, <3>1
    <3> QED BY <1>1, <3>2
  <2> QED BY <2>1, <2>2
<1>8. h \in Nat \ {0} /\ \A u \in inos : u <= h
  <2>1. CASE inos = {}
    BY <1>4, <2>1
  <2>2. CASE inos # {}
    <3>1. \E x \in inos : \A u \in inos : u <= x
      BY <1>0, <1>2, <2>2, GreatestNumber
    <3>2. h \in inos /\ \A u \in inos : u <= h
      BY <1>4, <2>2, <3>1
    <3> QED BY <1>2, <3>2
  <2> QED BY <2>1, <2>2
<1> QED BY <1>5, <1>6, <1>7, <1>8 DEF K

\* What a mount obsoletes, and the entries and links it then has in core.
Dropped(L, dups) == Superseded(L) \cup (Unbuilt(L) \cup dups)

\* After the scan entries, obsolete nodes and nlink agree.
LEMMA MountedEntries ==
    ASSUME NEW L \in Logs, Distinct(L), Good(L, Places(L)), NEW dups, Copies(L, dups),
           NEW v, HighestVer(L, v), NEW h, HighestIno(L, h)
    PROVE  /\ EntriesOK(L, Dropped(L, dups), v) /\ Dropped(L, dups) \subseteq Places(L)
           /\ Links(L) \in [Inos -> Nat]
           /\ LinksOK(DirOf(L, Dropped(L, dups)), NoOp, Links(L), h)
<1> DEFINE o == Dropped(L, dups)
<1>1. dups \subseteq Of(L, "inode") /\ Unbuilt(L) \subseteq Of(L, "inode") /\ Superseded(L) \subseteq Of(L, "dirent")
  BY Kept DEF Copies, Superseded
<1>2. Of(L, "inode") \cap Of(L, "dirent") = {} /\ Of(L, "inode") \subseteq Places(L) /\ Of(L, "dirent") \subseteq Places(L)
  BY DEF Of
<1>3. \A p \in Of(L, "dirent") : p \in o <=> p \in Superseded(L)
  BY <1>1, <1>2 DEF Dropped
<1>4. \A p \in Of(L, "inode") : p \in o <=> p \in Unbuilt(L) \cup dups
  BY <1>1, <1>2 DEF Dropped
<1>5. o \subseteq Places(L)
  BY <1>1, <1>2 DEF Dropped
<1> HIDE DEF o
<1>6. ASSUME NEW p \in Of(L, "dirent") PROVE At(L, p).version <= v
  <2> DEFINE n == At(L, p).name
             q == Newest(L, Dirents(L, n))
  <2>1. p \in Dirents(L, n) /\ At(L, p).version \in Nat
    BY EntryFacts
  <2>2. q \in Dirents(L, n) /\ At(L, p).version <= At(L, q).version /\ q \notin Superseded(L)
    BY <2>1, NewestFacts, Kept
  <2> HIDE DEF q
  <2>3. q \in Of(L, "dirent") /\ At(L, q).version \in Nat
    BY <2>2, EntryFacts
  <2>4. q \notin Unbuilt(L)
    BY <1>1, <1>2, <2>3
  <2>5. At(L, q).version <= v /\ v \in Nat
    BY <2>2, <2>3, <2>4, HighestFacts
  <2> QED BY <2>1, <2>2, <2>3, <2>5
<1>7. \A p \in Of(L, "dirent") \ o : NewestIn(L, Places(L), p)
  BY <1>3, Kept
<1>8. ASSUME NEW n \in Names, Dirents(L, n) \subseteq o PROVE Dirents(L, n) = {}
  <2> SUFFICES ASSUME Dirents(L, n) # {} PROVE FALSE
    OBVIOUS
  <2>1. PICK q \in Dirents(L, n) : q \notin Superseded(L)
    BY NewestFacts, Kept
  <2>2. q \in Of(L, "dirent")
    BY EntryFacts
  <2> QED BY <1>3, <1>8, <2>1, <2>2
<1>9. \A i \in Inos : /\ Links(L)[i] = Cardinality(NamesOf(Shown(L), i)) /\ Links(L)[i] \in Nat
                      /\ Links(L)[i] = 0 <=> NamesOf(Shown(L), i) = {}
  <2>1. \A i \in Inos : Links(L)[i] = Cardinality(NamesOf(Shown(L), i))
    BY DEF Links, NamesOf
  <2> QED BY <2>1, NamesFinite
<1>10. ASSUME NEW p \in Of(L, "dirent") \ o, At(L, p).ino # 0
       PROVE  InodeNodes(L, At(L, p).ino) \ o # {}
  <2> DEFINE i == At(L, p).ino
  <2>1. i \in Inos /\ At(L, p).name \in Names
    BY <1>10, EntryFacts
  <2>2. Shown(L)[At(L, p).name] = i /\ InodeNodes(L, i) # {}
    BY <1>3, <1>10, Kept
  <2>3. At(L, p).name \in NamesOf(Shown(L), i)
    BY <2>1, <2>2 DEF NamesOf
  <2> HIDE DEF i
  <2>4. Links(L)[i] > 0
    BY <1>9, <2>1, <2>3
  <2>5. \A r \in InodeNodes(L, i) : r \in Of(L, "inode") /\ At(L, r).ino = i
    BY DEF InodeNodes
  <2>6. i \in {At(L, r).ino : r \in Of(L, "inode")}
    BY <2>2, <2>5
  <2>7. Cardinality(InodeNodes(L, i) \ dups) = 1
    BY <2>4, <2>6 DEF Copies
  <2>8. InodeNodes(L, i) \ dups # {}
    BY <2>7, FS_EmptySet
  <2>9. PICK r \in InodeNodes(L, i) : r \notin dups
    BY <2>8
  <2>10. r \notin Unbuilt(L)
    <3>1. Unbuilt(L) = {s \in Of(L, "inode") : Links(L)[At(L, s).ino] = 0}
      BY Kept
    <3> QED BY <1>9, <2>1, <2>4, <2>5, <2>9, <3>1
  <2>11. r \notin o
    BY <1>4, <2>5, <2>9, <2>10
  <2> QED BY <2>9, <2>11 DEF i
<1>11. EntriesOK(L, o, v)
  BY <1>6, <1>7, <1>8, <1>10 DEF EntriesOK
<1>12. DirOf(L, o) = Shown(L)
  BY <1>11, ShownIsDir
<1>13. Links(L) \in [Inos -> Nat]
  <2>1. Links(L) = [i \in Inos |-> Links(L)[i]]
    BY DEF Links
  <2> QED BY <1>9, <2>1
<1>14. LinksOK(DirOf(L, o), NoOp, Links(L), h)
  <2> SUFFICES ASSUME NEW i \in Inos
               PROVE  /\ Cardinality(NamesOf(Shown(L), i)) <= Links(L)[i] + Extra(NoOp, i)
                      /\ i > h => Links(L)[i] = 0
    BY <1>12 DEF LinksOK
  <2>1. Extra(NoOp, i) = 0
    BY DEF Extra, NoOp
  <2>2. ASSUME i > h PROVE NamesOf(Shown(L), i) = {}
    <3> SUFFICES ASSUME NEW n \in Names, Shown(L)[n] = i PROVE FALSE
      BY DEF NamesOf
    <3>1. i # 0
      BY Jffs2Assumption DEF Inos
    <3>2. InodeNodes(L, i) # {}
      BY <3>1 DEF Shown
    <3>3. PICK r \in InodeNodes(L, i) : r \in Of(L, "inode") /\ At(L, r).ino = i
      BY <3>2 DEF InodeNodes
    <3>4. i <= h /\ h \in Nat /\ i \in Nat
      BY <3>3, HighestFacts DEF Inos
    <3> QED BY <2>2, <3>4
  <2> QED BY <1>9, <2>1, <2>2
<1> QED BY <1>5, <1>11, <1>13, <1>14 DEF o

\* jffs2_scan_medium files a block with used nodes as c->nextblock or as closed.
LEMMA Scanned ==
    ASSUME NEW o, NEW x, NEW late, log \in Logs, \A b \in late \cap Blocks : Used(log, b, o) = {}
    PROVE  /\ ScanList(o, x, late) \in [Blocks -> Lists] /\ Blank(log, o, ScanList(o, x, late))
           /\ \A b \in Blocks : ScanList(o, x, late)[b] = "next" => b = x
<1> DEFINE s == ScanList(o, x, late)
<1>1. ASSUME NEW b \in Blocks
      PROVE  /\ s[b] \in {"free", "erase_pending", "next", "closed"} /\ (s[b] = "next" => b = x)
             /\ s[b] \in {"free", "erase_pending"} => Used(log, b, o) = {}
  <2>1. log[b] = <<>> => Used(log, b, o) = {}
    BY DEF Used
  <2>2. Used(log, b, {}) = {} => Used(log, b, o) = {}
    BY DEF Used
  <2> QED BY <2>1, <2>2 DEF ScanList
<1>2. s = [b \in Blocks |-> s[b]]
  BY DEF ScanList
<1> HIDE DEF s
<1>3. s \in [Blocks -> Lists] /\ Blank(log, o, s)
  BY <1>1, <1>2 DEF Lists, Blank
<1> QED BY <1>1, <1>3 DEF s

\* What a mount does.
MountedAs(x, late, dest, dups) ==
    /\ \A b \in late \cap Blocks : Used(log, b, Superseded(log)) = {}
    /\ Copies(log, dups) /\ dest \in Dest
    /\ obs' = Superseded(log) \cup Unbuilt(log) \cup dups
    /\ list' = Refile(ScanList(Superseded(log), x, late), log, obs', Unbuilt(log) \cup dups, FALSE, 0, dest)

\* A mount is refused, or obsoletes, files and counts what it found on the flash.
LEMMA MountFacts ==
    ASSUME Mount
    PROVE  /\ UNCHANGED <<medium, log, wbuf, cuts, losses>> /\ fsState = "down" /\ Blocks # {}
           /\ \/ fsState' = "refused" /\ UNCHANGED <<obs, hv, hino, nlink, op, clearing>>
              \/ /\ fsState' = "up" /\ op' = NoOp /\ (medium = "nand" => clearing' = {})
                 /\ nlink' = Links(log) /\ HighestVer(log, hv') /\ HighestIno(log, hino')
                 /\ \E x, late, dest, dups : MountedAs(x, late, dest, dups)
<1> DEFINE sobs == {p \in Of(log, "dirent") : p # Newest(log, Dirents(log, At(log, p).name))}
           links == [i \in Inos |-> Cardinality({n \in Names : Shown(log)[n] = i})]
           bobs == {p \in Of(log, "dirent") \ sobs :
                       At(log, p).ino # 0 /\ InodeNodes(log, At(log, p).ino) = {}}
                   \cup {p \in Of(log, "inode") : links[At(log, p).ino] = 0}
           part == {b \in Blocks : log[b] # <<>> /\ Len(log[b]) < NSlots /\ Used(log, b, {}) # {}}
           vers == {At(log, p).version : p \in Of(log, "dirent") \ (sobs \cup bobs)}
           inos == {At(log, p).ino : p \in Of(log, "inode")}
           nbs == IF part = {} THEN Blocks ELSE {b \in part : \A c \in part : Len(log[b]) <= Len(log[c])}
           refuses(sl) == /\ \E b \in Blocks : sl[b] = "erase_pending"
                          /\ Of(log, "dirent") = {}
                          /\ medium = "nand" \/ \A b \in Blocks : sl[b] # "free"
                          /\ \E b \in Blocks : log[b] # <<>>
           refused == fsState' = "refused" /\ UNCHANGED <<obs, list, hv, hino, nlink, op, clearing>>
           lates(nb) == {b \in Blocks \ {nb} : log[b] # <<>> /\ Used(log, b, sobs) = {}}
           mounts(sl, dest, dups) ==
              /\ fsState' = "up"
              /\ obs' = sobs \cup bobs \cup dups
              /\ list' = Refile(sl, log, obs', bobs \cup dups, FALSE, 0, dest)
              /\ hv' = IF vers = {} THEN 0 ELSE CHOOSE v \in vers : \A u \in vers : u <= v
              /\ hino' = IF inos = {} THEN 1 ELSE CHOOSE i \in inos : \A j \in inos : j <= i
              /\ nlink' = links
              /\ op' = NoOp
              /\ clearing' = IF medium = "nor" THEN dups ELSE {}
<1>1. \E nb \in nbs, late \in SUBSET Blocks, dest \in Dest, dups \in SUBSET (Of(log, "inode") \ bobs) :
        LET sl == ScanList(sobs, IF part = {} THEN "" ELSE nb, late)
        IN
        /\ late \subseteq lates(nb)
        /\ \A i \in inos : links[i] > 0 => Cardinality(InodeNodes(log, i) \ dups) = 1
        /\ IF refuses(sl) THEN refused ELSE mounts(sl, dest, dups)
  BY DEF Mount
<1>2. UNCHANGED <<medium, log, wbuf, cuts, losses>> /\ fsState = "down"
  BY DEF Mount, flashVars
<1>3. sobs = Superseded(log) /\ links = Links(log)
  BY DEF Superseded, Links
<1>4. bobs = Unbuilt(log)
  BY DEF Unbuilt, Superseded, Links
<1>5. \A nb, late : late \subseteq lates(nb) => \A b \in late \cap Blocks : Used(log, b, sobs) = {}
  OBVIOUS
<1>6. \A dups : dups \subseteq Of(log, "inode") \ bobs
                /\ (\A i \in inos : links[i] > 0 => Cardinality(InodeNodes(log, i) \ dups) = 1)
                => Copies(log, dups)
  <2> HIDE DEF links, bobs
  <2> QED BY <1>3, <1>4 DEF Copies
<1>7. ASSUME NEW sl, NEW dest, NEW dups, mounts(sl, dest, dups)
      PROVE  /\ fsState' = "up" /\ op' = NoOp /\ (medium = "nand" => clearing' = {})
             /\ obs' = Superseded(log) \cup Unbuilt(log) \cup dups
             /\ list' = Refile(sl, log, obs', Unbuilt(log) \cup dups, FALSE, 0, dest)
             /\ nlink' = Links(log) /\ HighestVer(log, hv') /\ HighestIno(log, hino')
  <2>1. HighestVer(log, hv') /\ HighestIno(log, hino')
    <3> HIDE DEF sobs, bobs, links
    <3> QED BY <1>3, <1>4, <1>7 DEF HighestVer, HighestIno
  <2> HIDE DEF sobs, bobs, links, vers, inos
  <2> QED BY <1>3, <1>4, <1>7, <2>1
<1>12. Blocks # {}
  <2>1. nbs \subseteq Blocks
    OBVIOUS
  <2> HIDE DEF nbs
  <2> QED BY <1>1, <2>1
<1> HIDE DEF sobs, links, bobs, part, vers, inos, nbs, refuses, lates, mounts, refused
<1>8. PICK nb \in nbs, late \in SUBSET Blocks, dest \in Dest, dups \in SUBSET (Of(log, "inode") \ bobs) :
        LET sl == ScanList(sobs, IF part = {} THEN "" ELSE nb, late)
        IN
        /\ late \subseteq lates(nb)
        /\ \A i \in inos : links[i] > 0 => Cardinality(InodeNodes(log, i) \ dups) = 1
        /\ IF refuses(sl) THEN refused ELSE mounts(sl, dest, dups)
  BY <1>1
<1>9. PICK x : x = IF part = {} THEN "" ELSE nb
  OBVIOUS
<1>10. CASE refused
  BY <1>2, <1>10, <1>12 DEF refused
<1>11. CASE mounts(ScanList(sobs, x, late), dest, dups)
  <2>1. Copies(log, dups) /\ \A b \in late \cap Blocks : Used(log, b, Superseded(log)) = {}
    BY <1>3, <1>5, <1>6, <1>8
  <2>2. /\ fsState' = "up" /\ op' = NoOp /\ (medium = "nand" => clearing' = {})
        /\ obs' = Superseded(log) \cup Unbuilt(log) \cup dups
        /\ list' = Refile(ScanList(sobs, x, late), log, obs', Unbuilt(log) \cup dups, FALSE, 0, dest)
        /\ nlink' = Links(log) /\ HighestVer(log, hv') /\ HighestIno(log, hino')
    BY <1>7, <1>11
  <2>3. MountedAs(x, late, dest, dups)
    BY <1>3, <2>1, <2>2 DEF MountedAs
  <2> QED BY <1>2, <1>12, <2>2, <2>3
<1> QED BY <1>8, <1>9, <1>10, <1>11

\* A flash that entries have inodes on is mounted, or the mount is refused.
LEMMA MountInv ==
    ASSUME medium = "nand", NandType, Distinct(log), wbuf = 0, Good(log, Places(log)), Mount
    PROVE  NandInv'
<1>0. log \in Logs
  BY DEF NandType
<1>1. UNCHANGED <<medium, log, wbuf>>
  BY MountFacts
<1>2. Distinct(log') /\ Good(log', Places(log')) /\ wbuf' = 0
  BY <1>1
<1>3. CASE fsState' = "refused" /\ UNCHANGED <<obs, hv, hino, nlink, op, clearing>>
  <2>1. NandType'
    BY <1>1, <1>3 DEF NandType
  <2> QED BY <1>2, <1>3, <2>1 DEF NandInv
<1>4. CASE /\ fsState' = "up" /\ op' = NoOp /\ clearing' = {}
           /\ nlink' = Links(log) /\ HighestVer(log, hv') /\ HighestIno(log, hino')
           /\ \E x, late, dest, dups : MountedAs(x, late, dest, dups)
  <2>0. PICK x, late, dest, dups : MountedAs(x, late, dest, dups)
    BY <1>4
  <2>1. /\ \A b \in late \cap Blocks : Used(log, b, Superseded(log)) = {}
        /\ Copies(log, dups) /\ dest \in Dest
        /\ obs' = Superseded(log) \cup Unbuilt(log) \cup dups
        /\ list' = Refile(ScanList(Superseded(log), x, late), log, obs', Unbuilt(log) \cup dups, FALSE, 0, dest)
    BY <2>0 DEF MountedAs
  <2>2. obs' = Dropped(log, dups)
    BY <2>1 DEF Dropped
  <2>3. /\ EntriesOK(log, obs', hv') /\ obs' \subseteq Places(log) /\ nlink' \in [Inos -> Nat]
        /\ LinksOK(DirOf(log, obs'), NoOp, nlink', hino')
    BY <1>0, <1>4, <2>1, <2>2, MountedEntries
  <2>4. hv' \in 0..MaxVer /\ hino' \in Nat \ {0}
    BY <1>0, <1>4, HighestFacts
  <2> DEFINE sobs == Superseded(log)
             old == Unbuilt(log) \cup dups
             s == ScanList(sobs, x, late)
  <2>5. s \in [Blocks -> Lists] /\ Blank(log, sobs, s) /\ \A b \in Blocks : s[b] = "next" => b = x
    BY <1>0, <2>1, Scanned
  <2>6. Blank(log, sobs \cup old, s)
    BY <1>0, <2>5, UsedLess DEF Blank
  <2>7. obs' = sobs \cup old /\ list' = Refile(s, log, obs', old, FALSE, 0, dest)
    BY <2>1
  <2> HIDE DEF sobs, old, s
  <2>z. PICK z \in Nat : z = 0
    OBVIOUS
  <2>8. Refiles(s, list', log, sobs \cup old, old, z, z, dest) /\ dest \in Dest
    BY <2>1, <2>7, <2>z DEF Refile, Refiles
  <2>9. Grows(log, log)
    BY DEF Grows
  <2>10. /\ list' \in [Blocks -> Lists] /\ (\A b \in Blocks : list'[b] = "next" <=> s[b] = "next")
         /\ Blank(log, sobs \cup old, list')
    <3>1. s \in [Blocks -> Lists] /\ Blank(log, sobs, s)
      BY <2>5
    <3>2. Blank(log, sobs \cup old, list')
      BY ONLY <1>0, <2>6, <2>8, <2>9, <3>1, z \in Nat, Refiled
    <3>3. list' \in [Blocks -> Lists]
      BY ONLY <1>0, <2>6, <2>8, <2>9, <3>1, <3>2, z \in Nat, Refiled
    <3>4. \A b \in Blocks : list'[b] = "next" <=> s[b] = "next"
      BY <2>7, <2>8 DEF Refile, Dest
    <3> QED BY <3>2, <3>3, <3>4
  <2>11. BlocksOK(log, obs', list', 0)
    <3>1. \A b \in Blocks : Len(log[b]) \in Nat
      BY <1>0 DEF Logs
    <3>2. \A b, c \in Blocks : list'[b] = "next" /\ list'[c] = "next" => b = c
      BY <2>5, <2>10
    <3>3. BlocksOK(log, sobs \cup old, list', 0)
      BY <2>10, <3>1, <3>2 DEF BlocksOK
    <3> QED BY <2>7, <3>3
  <2>12. FlashOK(log, obs', list', 0)
    BY <1>0, <2>3, WrittenFlash
  <2>13. OpOK(DirOf(log, obs'), Living(log, obs'), op', nlink')
    BY <1>4 DEF OpOK
  <2>14. op' \in Ops
    BY <1>4 DEF Ops, NoOp, Calls
  <2>15. NandType'
    BY <1>0, <1>1, <1>4, <2>3, <2>4, <2>14 DEF NandType
  <2>16. UpOK'
    BY <1>1, <1>4, <2>3, <2>11, <2>12, <2>13 DEF UpOK
  <2> QED BY <1>2, <1>4, <2>15, <2>16 DEF NandInv
<1> QED BY <1>3, <1>4, MountFacts

(***************************************************************************)
(* The theorems.                                                           *)
(***************************************************************************)

\* A fresh flash.
LEMMA NandInit ==
    ASSUME Init
    PROVE  NandInv
<1>1. log \in Logs /\ Places(log) = {}
  <2>1. \A b \in Blocks : log[b] = <<>>
    BY DEF Init
  <2>2. log \in Logs
    BY DEF Init, Logs
  <2>3. \A p \in Places(log) : FALSE
    <3> SUFFICES ASSUME NEW p \in Places(log) PROVE FALSE
      OBVIOUS
    <3>1. p[1] \in Blocks /\ p[2] \in 1..Len(log[p[1]])
      BY <2>2, PlaceFacts
    <3>2. Len(log[p[1]]) = 0
      BY <2>1, <3>1
    <3> QED BY <3>1, <3>2
  <2> QED BY <2>2, <2>3
<1>2. Of(log, "dirent") = {}
  BY <1>1 DEF Of
<1>3. Distinct(log) /\ Good(log, Places(log))
  BY <1>2 DEF Distinct, Good
<1>4. NandType
  <2>1. op \in Ops
    BY DEF Init, NoOp, Ops, Calls
  <2> QED BY <1>1, <2>1, Jffs2Assumption DEF Init, NandType
<1> QED BY <1>3, <1>4 DEF NandInv, Init

\* A step of a mounted file system.
LEMMA UpNext ==
    ASSUME Up, Next
    PROVE  NandInv'
<1>0. medium = "nand" /\ fsState = "up" /\ clearing = {}
  BY DEF Up, NandType
<1>1. ASSUME Up' PROVE NandInv'
  BY <1>1 DEF Up, NandInv
<1>2. CASE \E n \in Names : Create(n) \/ Unlink(n) \/ \E m \in Names : Link(m, n) \/ Rename(m, n)
  BY <1>1, <1>2, CreateInv, RenamingInv
<1>3. CASE Reserve
  BY <1>1, <1>3, ReserveInv
<1>4. CASE OpWrite
  BY <1>1, <1>4, OpWriteInv
<1>5. CASE OpFails
  BY <1>1, <1>5, OpFailsInv
<1>6. CASE OpWriteFails \/ GcMoveFails \/ Obliterate \/ Mount
  BY <1>0, <1>6 DEF OpWriteFails, GcMoveFails, Obliterate, Mount
<1>7. CASE \E i \in Inos : ClearInode(i)
  BY <1>1, <1>7, ClearInodeInv
<1>8. CASE GcPick \/ GcEraseIt \/ TakeErasable \/ MarkErased
  BY <1>1, <1>8, CollectorListsInv
<1>9. CASE GcMove
  BY <1>1, <1>9, GcMoveInv
<1>10. CASE GcDrop
  BY <1>1, <1>10, GcDropInv
<1>11. CASE Flush \/ CloseNext
  BY <1>1, <1>11, FlushInv
<1>12. CASE TakeFree
  BY <1>1, <1>12, TakeFreeInv
<1>13. CASE Erase
  BY <1>1, <1>13, EraseInv
<1>14. CASE PowerCut
  BY <1>14, PowerCutInv DEF NandInv
<1> QED BY <1>2, <1>3, <1>4, <1>5, <1>6, <1>7, <1>8, <1>9, <1>10, <1>11, <1>12, <1>13, <1>14 DEF Next

\* The only step of a file system that is not mounted is Mount.
LEMMA DownNext ==
    ASSUME fsState # "up", Next
    PROVE  Mount
BY DEF Next, Create, Unlink, Link, Rename, MayBegin, Idle, Reserve, OpWrite, OpFails, OpWriteFails, ClearInode,
       GcPick, GcEraseIt, GcMove, GcMoveFails, GcDrop, CloseNext, TakeFree, TakeErasable, WantsRoom,
       Erase, MarkErased, Flush, Obliterate, PowerCut

\* Which medium it is never changes.
LEMMA SameMedium ==
    ASSUME Next
    PROVE  medium' = medium
BY DEF Next, Create, Unlink, Link, Rename, Begin, Reserve, OpWrite, OpFails, OpWriteFails, ClearInode,
       GcPick, GcEraseIt, GcMove, GcMoveFails, GcDrop, CloseNext, TakeFree, TakeErasable,
       Erase, MarkErased, Flush, Obliterate, PowerCut, Mount

\* Every step keeps the invariant.
LEMMA NandNext ==
    ASSUME NandInv, [Next]_vars
    PROVE  NandInv'
<1>1. CASE UNCHANGED vars
  <2>1. UNCHANGED <<medium, log, wbuf, fsState, obs, list, hv, hino, nlink, op, clearing>>
    BY <1>1 DEF vars, flashVars, coreVars
  <2> QED BY <2>1 DEF NandInv, NandType, UpOK
<1>2. CASE Next /\ medium # "nand"
  BY <1>2, SameMedium DEF NandInv
<1>3. CASE Next /\ medium = "nand" /\ fsState = "up"
  <2>1. Up
    BY <1>3 DEF NandInv, Up
  <2> QED BY <1>3, <2>1, UpNext
<1>4. CASE Next /\ medium = "nand" /\ fsState # "up"
  <2>1. Mount
    BY <1>4, DownNext
  <2>2. NandType /\ Distinct(log) /\ wbuf = 0 /\ Good(log, Places(log))
    BY <1>4 DEF NandInv
  <2> QED BY <1>4, <2>1, <2>2, MountInv
<1> QED BY <1>1, <1>2, <1>3, <1>4

\* The log, the lists of blocks, the entries in core and nlink agree at every moment,
\* through every write, collection, erase, power cut and mount.
THEOREM NandInvariant == Spec => []NandInv
BY NandInit, NandNext, PTL DEF Spec

\* A power cut after the write buffer is out loses nothing: jffs2_build_filesystem finds
\* the directory that was in core.
THEOREM MountShowsDirectory == Spec => []RemountShowsDirectory
<1>1. ASSUME NandInv PROVE RemountShowsDirectory
  <2> SUFFICES ASSUME fsState = "up", medium = "nand" PROVE Shown(log) = Dir
    BY DEF RemountShowsDirectory, Remounts
  <2>1. Up
    BY <1>1 DEF NandInv, Up
  <2>2. log \in Logs /\ EntriesOK(log, obs, hv) /\ Distinct(log) /\ Dir = DirOf(log, obs)
    BY <2>1, OpFacts DEF Up, NandType, UpOK
  <2> QED BY <2>2, ShownIsDir
<1> QED BY <1>1, NandInvariant, PTL

\* Wherever the write buffer is cut off, jffs2_build_inode_pass1 finds the inode of the
\* newest entry of each name.
THEOREM NewestHasInode == Spec => []EntriesHaveInodes
<1>1. ASSUME NandInv PROVE EntriesHaveInodes
  <2>1. SUFFICES ASSUME medium = "nand", NEW j \in 0..wbuf, NEW n \in Names,
                        Dirents(Flashed(j), n) # {},
                        At(Flashed(j), Newest(Flashed(j), Dirents(Flashed(j), n))).ino # 0
                 PROVE  InodeNodes(Flashed(j), At(Flashed(j), Newest(Flashed(j), Dirents(Flashed(j), n))).ino) # {}
    BY DEF EntriesHaveInodes
  <2> DEFINE F == Flashed(j)
             p == Newest(F, Dirents(F, n))
  <2>2. log \in Logs /\ wbuf \in Nat
    BY <1>1, <2>1 DEF NandInv, NandType
  <2>3. F \in Logs /\ Good(F, Places(F))
    <3>1. CASE fsState # "up"
      <4>1. wbuf = 0 /\ Good(log, Places(log))
        BY <1>1, <2>1, <3>1 DEF NandInv
      <4>2. F = log
        BY <4>1 DEF Flashed
      <4> QED BY <2>2, <4>1, <4>2
    <3>2. CASE fsState = "up"
      <4>1. BlocksOK(log, obs, list, wbuf) /\ FlashOK(log, obs, list, wbuf) /\ Distinct(log)
        BY <1>1, <2>1, <3>2 DEF NandInv, UpOK
      <4>2. /\ F \in Logs /\ Places(F) = Cut(log, list, wbuf, j, {}) /\ Places(F) \subseteq Places(log)
            /\ \A q \in Places(F) : At(F, q) = At(log, q)
        BY <2>2, <4>1, FlashedNow
      <4>3. Good(log, Places(F))
        <5>1. {} \in SUBSET Doomed(log, obs, list)
          OBVIOUS
        <5> QED BY <4>1, <4>2, <5>1 DEF FlashOK
      <4> HIDE DEF F
      <4> QED BY <2>2, <4>1, <4>2, <4>3, LessGood
    <3> QED BY <3>1, <3>2
  <2> HIDE DEF F
  <2>4. p \in Dirents(F, n) /\ \A q \in Dirents(F, n) : At(F, q).version <= At(F, p).version
    BY <2>1, <2>3, NewestFacts DEF F
  <2> HIDE DEF p
  <2>5. p \in Of(F, "dirent") /\ p \in Places(F) /\ At(F, p).name = n
    BY <2>3, <2>4, EntryFacts
  <2>6. NewestIn(F, Places(F), p)
    BY <2>4, <2>5 DEF NewestIn
  <2>7. At(F, p).ino # 0
    BY <2>1 DEF F, p
  <2>8. InodeNodes(F, At(F, p).ino) # {}
    BY <2>3, <2>5, <2>6, <2>7 DEF Good
  <2> QED BY <2>8 DEF F, p
<1> QED BY <1>1, NandInvariant, PTL

(***************************************************************************)
(* Space, on either medium: what is a sequence, and how many slots there   *)
(* are.                                                                    *)
(***************************************************************************)

IsSeq(s) == \E S : s \in Seq(S)

\* What is appended to, cut off or overwritten stays a sequence.
LEMMA SeqFacts ==
    ASSUME NEW s, IsSeq(s)
    PROVE  /\ Len(s) \in Nat /\ DOMAIN s = 1..Len(s)
           /\ \A x : /\ IsSeq(Append(s, x)) /\ Len(Append(s, x)) = Len(s) + 1
                     /\ \A k \in 1..Len(s) : Append(s, x)[k] = s[k]
           /\ \A n \in 0..Len(s) : IsSeq(SubSeq(s, 1, n)) /\ Len(SubSeq(s, 1, n)) = n
           /\ \A f : f = [k \in DOMAIN s |-> f[k]] => IsSeq(f) /\ Len(f) = Len(s)
<1>1. PICK S : s \in Seq(S)
  BY DEF IsSeq
<1>2. Len(s) \in Nat /\ DOMAIN s = 1..Len(s)
  BY <1>1
<1>3. ASSUME NEW x
      PROVE  /\ IsSeq(Append(s, x)) /\ Len(Append(s, x)) = Len(s) + 1
             /\ \A k \in 1..Len(s) : Append(s, x)[k] = s[k]
  <2>1. s \in Seq(S \cup {x})
    BY <1>1
  <2>2. Append(s, x) \in Seq(S \cup {x})
    BY <2>1
  <2> QED BY <1>1, <2>1, <2>2 DEF IsSeq
<1>4. ASSUME NEW n \in 0..Len(s)
      PROVE  IsSeq(SubSeq(s, 1, n)) /\ Len(SubSeq(s, 1, n)) = n
  <2>1. SubSeq(s, 1, n) \in Seq(S)
    BY <1>1, <1>2
  <2> QED BY <1>1, <1>2, <2>1 DEF IsSeq
<1>5. ASSUME NEW f, f = [k \in DOMAIN s |-> f[k]]
      PROVE  IsSeq(f) /\ Len(f) = Len(s)
  <2> DEFINE T == {f[k] : k \in DOMAIN s}
  <2>1. \A k \in 1..Len(s) : f[k] \in T
    BY <1>2
  <2>2. f = [k \in 1..Len(s) |-> f[k]]
    BY <1>2, <1>5
  <2> HIDE DEF T
  <2>3. f \in [1..Len(s) -> T]
    BY <2>1, <2>2
  <2>4. f \in Seq(T)
    BY <1>2, <2>3
  <2>5. Len(f) \in Nat /\ 1..Len(f) = 1..Len(s)
    BY <2>2, <2>4
  <2>6. \A a, c \in Nat : 1..a = 1..c => a <= c
    <3> SUFFICES ASSUME NEW a \in Nat, NEW c \in Nat, 1..a = 1..c, a > c PROVE FALSE
      OBVIOUS
    <3>1. a \in 1..a /\ a \notin 1..c
      OBVIOUS
    <3> QED BY <3>1
  <2>7. Len(f) <= Len(s) /\ Len(s) <= Len(f)
    BY <1>2, <2>5, <2>6
  <2>8. Len(f) = Len(s)
    BY <1>2, <2>5, <2>7
  <2> QED BY <2>4, <2>8 DEF IsSeq
<1> QED BY <1>2, <1>3, <1>4, <1>5

\* The slots of the flash are finitely many, and those of a block are NSlots.
LEMMA SlotCount ==
    /\ IsFiniteSet(Blocks \X (1..NSlots)) /\ NSlots \in Nat \ {0}
    /\ \A b : IsFiniteSet({b} \X (1..NSlots)) /\ Cardinality({b} \X (1..NSlots)) = NSlots
<1>1. NSlots \in Nat \ {0} /\ IsFiniteSet(Blocks)
  BY Jffs2Assumption
<1>2. IsFiniteSet(1..NSlots) /\ Cardinality(1..NSlots) = NSlots
  BY <1>1, FS_Interval
<1>3. IsFiniteSet(Blocks \X (1..NSlots))
  BY <1>1, <1>2, FS_Product
<1>4. ASSUME NEW b
      PROVE  IsFiniteSet({b} \X (1..NSlots)) /\ Cardinality({b} \X (1..NSlots)) = NSlots
  <2>1. IsFiniteSet({b}) /\ Cardinality({b}) = 1
    BY FS_Singleton
  <2> QED BY <1>1, <1>2, <2>1, FS_Product
<1> QED BY <1>1, <1>3, <1>4

\* Slack is a finite set.
LEMMA SlackFinite == IsFiniteSet(Slack) /\ Cardinality(Slack) \in Nat
<1>1. Slack \in SUBSET (Blocks \X (1..NSlots))
  BY DEF Slack
<1> QED BY <1>1, SlotCount, FS_Subset, FS_CardinalityType

\* A used node of a block is in one of its slots, and no block has more than NSlots.
LEMMA UsedSlotsOf ==
    ASSUME NEW L, NEW b, NEW o, IsSeq(L[b]), Len(L[b]) <= NSlots
    PROVE  /\ Used(L, b, o) \subseteq 1..Len(L[b]) /\ Used(L, b, o) \subseteq 1..NSlots
           /\ Cardinality(Used(L, b, o)) = NSlots => Len(L[b]) = NSlots
<1>1. Len(L[b]) \in Nat /\ DOMAIN L[b] = 1..Len(L[b]) /\ NSlots \in Nat
  BY SeqFacts, Jffs2Assumption
<1>2. Used(L, b, o) \in SUBSET (1..Len(L[b]))
  BY <1>1 DEF Used
<1>3. IsFiniteSet(1..Len(L[b])) /\ Cardinality(1..Len(L[b])) = Len(L[b])
  BY <1>1, FS_Interval
<1>4. Cardinality(Used(L, b, o)) <= Len(L[b])
  BY <1>2, <1>3, FS_Subset
<1> QED BY <1>1, <1>2, <1>4

\* Of two sets of slots: what losing one slot, and gaining one for it, does to their number.
LEMMA SlotsCompared ==
    ASSUME NEW A \in SUBSET (Blocks \X (1..NSlots)), NEW B \in SUBSET (Blocks \X (1..NSlots)), NEW x
    PROVE  /\ Cardinality(A) \in Nat /\ Cardinality(B) \in Nat
           /\ A \subseteq B => Cardinality(A) <= Cardinality(B)
           /\ A \ {x} \subseteq B => Cardinality(A) <= Cardinality(B) + 1
           /\ \A y \in B \ A : A \ {x} \subseteq B => Cardinality(A) <= Cardinality(B)
<1>1. IsFiniteSet(A) /\ IsFiniteSet(B) /\ Cardinality(A) \in Nat /\ Cardinality(B) \in Nat
  BY SlotCount, FS_Subset, FS_CardinalityType
<1>2. A \subseteq B => Cardinality(A) <= Cardinality(B)
  BY <1>1, FS_Subset
<1>3. IsFiniteSet(A \ {x}) /\ Cardinality(A) <= Cardinality(A \ {x}) + 1 /\ Cardinality(A \ {x}) \in Nat
  <2>1. IsFiniteSet(A \ {x}) /\ Cardinality(A \ {x}) = IF x \in A THEN Cardinality(A) - 1 ELSE Cardinality(A)
    BY <1>1, FS_RemoveElement
  <2>2. Cardinality(A \ {x}) \in Nat
    BY <2>1, FS_CardinalityType
  <2> QED BY <1>1, <2>1, <2>2
<1>4. A \ {x} \subseteq B => Cardinality(A) <= Cardinality(B) + 1
  <2>1. A \ {x} \subseteq B => Cardinality(A \ {x}) <= Cardinality(B)
    BY <1>1, FS_Subset
  <2> QED BY <1>1, <1>3, <2>1
<1>5. ASSUME NEW y \in B \ A, A \ {x} \subseteq B
      PROVE  Cardinality(A) <= Cardinality(B)
  <2>1. A \ {x} \in SUBSET (B \ {y})
    BY <1>5
  <2>2. IsFiniteSet(B \ {y}) /\ Cardinality(B \ {y}) = Cardinality(B) - 1
    BY <1>1, <1>5, FS_RemoveElement
  <2>3. Cardinality(A \ {x}) <= Cardinality(B \ {y})
    BY <2>1, <2>2, FS_Subset
  <2> QED BY <1>1, <1>3, <2>2, <2>3
<1> QED BY <1>1, <1>2, <1>4, <1>5

\* Every block holds a sequence of at most NSlots nodes.
Rows(L) == /\ L = [b \in Blocks |-> L[b]]
           /\ \A b \in Blocks : IsSeq(L[b]) /\ Len(L[b]) <= NSlots

\* Erased blocks are empty, erasable ones have no used nodes, and there is at most one
\* c->nextblock and one c->gcblock.
Filed(L, o, l) ==
    /\ l \in [Blocks -> Lists]
    /\ \A b \in Blocks : l[b] \in {"erasable", "erasable_pending_wbuf"} => Used(L, b, o) = {}
    /\ \A b \in Blocks : l[b] \in {"free", "erase_complete"} => L[b] = <<>>
    /\ \A b, c \in Blocks : l[b] = l[c] /\ l[b] \in {"next", "gc"} => b = c

\* The write buffer's nodes are c->nextblock's last, and blocks wait for it only while it
\* has any.
Buffered(L, l, w) ==
    /\ w > 0 => \E b \in Blocks : l[b] = "next"
    /\ \A b \in Blocks : l[b] = "next" => w <= Len(L[b])
    /\ \A b \in Blocks : l[b] = "erasable_pending_wbuf" => w > 0

Mounted == wbuf \in Nat /\ Rows(log) /\ Filed(log, obs, list) /\ Buffered(log, list, wbuf)

SpaceInv ==
    /\ wbuf \in Nat /\ Rows(log) /\ "held" \in DOMAIN op
    /\ fsState = "up" => Filed(log, obs, list) /\ Buffered(log, list, wbuf)
    /\ fsState # "up" => wbuf = 0

\* The slots that are or will be free, of a log L, obsolete nodes o and lists l.
Spare == {"free", "erase_pending", "erase_complete", "erasable", "erasable_pending_wbuf"}
FreeSlot(L, o, l, b, k) ==
    \/ l[b] \in Spare
    \/ l[b] = "next" /\ k > Len(L[b])
    \/ l[b] = "gc" /\ k \notin Used(L, b, o)
SlackOf(L, o, l) == {s \in Blocks \X (1..NSlots) : FreeSlot(L, o, l, s[1], s[2])}

\* These are the slots of Slack.
LEMMA SlackFacts ==
    /\ Slack = SlackOf(log, obs, list) /\ Slack' = SlackOf(log', obs', list')
    /\ Slack \in SUBSET (Blocks \X (1..NSlots)) /\ Slack' \in SUBSET (Blocks \X (1..NSlots))
<1>1. Slack = SlackOf(log, obs, list)
  BY DEF Slack, SlackOf, FreeSlot, Spare
<1>2. Slack' = SlackOf(log', obs', list')
  BY DEF Slack, SlackOf, FreeSlot, Spare
<1> QED BY <1>1, <1>2 DEF SlackOf

\* Refiling keeps the lists right and loses no slot.
LEMMA RefiledSpace ==
    ASSUME NEW L, NEW o, NEW l, Filed(L, o, l), NEW w \in Nat, NEW old, NEW e \in Nat,
           NEW dest \in Dest, NEW m, Refiles(l, m, L, o, old, w, e, dest),
           w > 0 => \E b \in Blocks : l[b] = "next",
           \A b \in Blocks : l[b] = "next" => w <= Len(L[b]),
           w = e => \A b \in Blocks : l[b] = "erasable_pending_wbuf" => w > 0
    PROVE  /\ Filed(L, o, m) /\ Buffered(L, m, w)
           /\ SlackOf(L, o, l) \subseteq SlackOf(L, o, m)
           /\ \A b \in Blocks : l[b] = "gc" => m[b] = "gc" \/ m[b] \in Spare
<1>1. /\ m = [b \in Blocks |-> m[b]] /\ l \in [Blocks -> Lists]
      /\ \A b \in Blocks :
                \/ m[b] = l[b] /\ ~(w # e /\ l[b] = "erasable_pending_wbuf")
                \/ w # e /\ l[b] = "erasable_pending_wbuf" /\ m[b] \in Dest
                \/ /\ l[b] \in {"closed", "gc"} /\ Used(L, b, o) = {}
                   /\ m[b] = IF w > 0 THEN "erasable_pending_wbuf" ELSE dest
  BY DEF Filed, Refiles
<1>0. m \in [Blocks -> Lists]
  <2>1. \A b \in Blocks : m[b] \in Lists
    BY <1>1 DEF Lists, Dest
  <2> QED BY <1>1, <2>1
<1>2. \A b \in Blocks : /\ m[b] = "next" <=> l[b] = "next"
                        /\ m[b] = "gc" => l[b] = "gc"
                        /\ m[b] \in {"free", "erase_complete"} => m[b] = l[b]
                        /\ m[b] = "erasable_pending_wbuf" => w > 0
                        /\ l[b] \in Spare => m[b] \in Spare
                        /\ l[b] = "gc" => m[b] = "gc" \/ m[b] \in Spare
  BY <1>1 DEF Dest, Spare
<1>3. \A b \in Blocks : m[b] \in {"erasable", "erasable_pending_wbuf"} => Used(L, b, o) = {}
  BY <1>1 DEF Filed, Dest
<1>4. Filed(L, o, m)
  BY <1>0, <1>2, <1>3 DEF Filed
<1>5. Buffered(L, m, w)
  BY <1>2 DEF Buffered
<1>6. SlackOf(L, o, l) \subseteq SlackOf(L, o, m)
  BY <1>2 DEF SlackOf, FreeSlot
<1> QED BY <1>2, <1>4, <1>5, <1>6

\* Nodes made obsolete are not used.
LEMMA UsedFewer ==
    ASSUME NEW L, NEW b, NEW o, NEW old
    PROVE  Used(L, b, o \cup old) \subseteq Used(L, b, o)
BY DEF Used

\* Store takes one slot of c->nextblock, wasting it if the write failed, and gives back those
\* of the block being collected whose nodes it obsoletes.
LEMMA StoreSpace ==
    ASSUME Mounted, NEW node, NEW old, Store(node, old)
    PROVE  /\ Mounted'
           /\ node = Dead => Slack \subseteq Slack' \cup Wasted
           /\ \E np : /\ Slack \ {np} \subseteq Slack'
                      /\ \A c \in Blocks : \A k \in Used(log, c, obs) :
                            list[c] = "gc" /\ <<c, k>> \in old => <<c, k>> \in Slack' \ Slack
<1>1. PICK b \in On("next"), dest \in Dest,
           w \in IF medium = "nor" THEN {0} ELSE {0, 1, wbuf + 1} :
        LET L    == [log EXCEPT ![b] = Append(@, node)]
            full == Cardinality(Used(L, b, obs)) = NSlots
            left == IF full THEN 0 ELSE w
            l    == IF full THEN [list EXCEPT ![b] = "closed"] ELSE list
        IN  /\ Len(log[b]) < NSlots
            /\ log' = L
            /\ wbuf' = left
            /\ obs' = obs \cup old
            /\ list' = Refile(l, L, obs \cup old, old, left # wbuf + 1, left, dest)
            /\ clearing' = (IF medium = "nor" THEN old ELSE {})
            /\ UNCHANGED marked
  BY Zenon DEF Store
<1> DEFINE L == [log EXCEPT ![b] = Append(@, node)]
           full == Cardinality(Used(L, b, obs)) = NSlots
           left == IF full THEN 0 ELSE w
           l == IF full THEN [list EXCEPT ![b] = "closed"] ELSE list
           o == obs \cup old
           np == <<b, Len(log[b]) + 1>>
<1>2. /\ Len(log[b]) < NSlots /\ log' = L /\ wbuf' = left /\ obs' = o
      /\ list' = Refile(l, L, o, old, left # wbuf + 1, left, dest)
  BY <1>1
<1>3. /\ wbuf \in Nat /\ Rows(log) /\ Filed(log, obs, list) /\ Buffered(log, list, wbuf)
      /\ b \in Blocks /\ list[b] = "next" /\ list \in [Blocks -> Lists] /\ NSlots \in Nat
  BY <1>1, Jffs2Assumption DEF Mounted, On, Filed
<1>4. /\ L = [c \in Blocks |-> L[c]] /\ IsSeq(L[b]) /\ Len(L[b]) = Len(log[b]) + 1 /\ Len(log[b]) \in Nat
      /\ \A c \in Blocks \ {b} : L[c] = log[c]
  <2>1. L[b] = Append(log[b], node) /\ IsSeq(log[b]) /\ \A c \in Blocks \ {b} : L[c] = log[c]
    BY <1>3 DEF Rows
  <2>2. L = [c \in Blocks |-> L[c]]
    BY <1>3 DEF Rows
  <2> HIDE DEF L
  <2> QED BY <2>1, <2>2, SeqFacts
<1>5. Len(L[b]) <= NSlots /\ (full => Len(L[b]) = NSlots)
  <2>1. Len(L[b]) <= NSlots
    BY <1>2, <1>3, <1>4
  <2> HIDE DEF L
  <2> QED BY <1>4, <2>1, UsedSlotsOf
<1>6. Rows(L)
  <2> HIDE DEF L
  <2> QED BY <1>3, <1>4, <1>5 DEF Rows
<1>7. left \in {0, 1, wbuf + 1} /\ (left > 0 => ~full) /\ left \in Nat
  BY <1>1, <1>3
<1>8. /\ l \in [Blocks -> Lists] /\ l[b] \in {"next", "closed"} /\ (full => l[b] = "closed") /\ (~full => l[b] = "next")
      /\ \A c \in Blocks \ {b} : l[c] = list[c]
  <2> HIDE DEF full
  <2>1. [list EXCEPT ![b] = "closed"] \in [Blocks -> Lists]
    BY <1>3 DEF Lists
  <2> QED BY <1>3, <2>1
<1> HIDE DEF L, full, left, l, o
<1>9. \A c \in Blocks \ {b} : Used(L, c, o) \subseteq Used(log, c, obs)
  BY <1>4 DEF Used, o
<1>10. Filed(L, o, l)
  <2>1. \A c \in Blocks : l[c] \in {"erasable", "erasable_pending_wbuf"} => Used(L, c, o) = {}
    BY <1>3, <1>8, <1>9 DEF Filed
  <2>2. \A c \in Blocks : l[c] \in {"free", "erase_complete"} => L[c] = <<>>
    BY <1>3, <1>4, <1>8 DEF Filed
  <2>3. \A c, d \in Blocks : l[c] = l[d] /\ l[c] \in {"next", "gc"} => c = d
    BY <1>3, <1>8 DEF Filed
  <2> QED BY <1>8, <2>1, <2>2, <2>3 DEF Filed
<1>11. /\ left > 0 => \E c \in Blocks : l[c] = "next"
       /\ \A c \in Blocks : l[c] = "next" => left <= Len(L[c])
       /\ ~(left # wbuf + 1) => \A c \in Blocks : l[c] = "erasable_pending_wbuf" => left > 0
  <2>1. left > 0 => \E c \in Blocks : l[c] = "next"
    BY <1>3, <1>7, <1>8
  <2>2. \A c \in Blocks : l[c] = "next" => c = b
    BY <1>3, <1>8 DEF Filed
  <2>3. wbuf <= Len(log[b])
    BY <1>3 DEF Buffered
  <2>4. left <= Len(L[b])
    BY <1>3, <1>4, <1>7, <2>3
  <2> QED BY <1>3, <1>7, <2>1, <2>2, <2>4
<1>12. /\ Filed(L, o, list') /\ Buffered(L, list', left)
       /\ SlackOf(L, o, l) \subseteq SlackOf(L, o, list')
  <2>1. PICK e \in Nat : e = wbuf + 1
    BY <1>3
  <2>2. Refiles(l, list', L, o, old, left, e, dest)
    BY <1>2, <2>1 DEF Refile, Refiles
  <2>3. left = e => \A c \in Blocks : l[c] = "erasable_pending_wbuf" => left > 0
    BY <1>11, <2>1
  <2> QED BY ONLY <1>7, <1>10, <1>11, <2>2, <2>3, dest \in Dest, e \in Nat, RefiledSpace
<1>13. Mounted'
  BY <1>2, <1>6, <1>7, <1>12 DEF Mounted
<1>14. SlackOf(log, obs, list) \ {np} \subseteq SlackOf(L, o, l)
  <2> SUFFICES ASSUME NEW c \in Blocks, NEW k \in 1..NSlots, <<c, k>> # np, FreeSlot(log, obs, list, c, k)
               PROVE  FreeSlot(L, o, l, c, k)
    BY DEF SlackOf
  <2>1. CASE c = b
    BY <1>3, <1>4, <1>5, <1>8, <2>1 DEF FreeSlot, Spare
  <2>2. CASE c # b
    BY <1>4, <1>8, <1>9, <2>2 DEF FreeSlot
  <2> QED BY <2>1, <2>2
<1>15. ASSUME NEW c \in Blocks, NEW k \in Used(log, c, obs), list[c] = "gc", <<c, k>> \in old
       PROVE  <<c, k>> \in SlackOf(L, o, l) \ SlackOf(log, obs, list)
  <2>1. k \in 1..NSlots
    BY <1>3, <1>15, UsedSlotsOf DEF Rows
  <2>2. c # b /\ l[c] = "gc"
    BY <1>3, <1>8, <1>15
  <2>3. k \notin Used(L, c, o)
    BY <1>15 DEF Used, o
  <2>4. FreeSlot(L, o, l, c, k) /\ ~FreeSlot(log, obs, list, c, k)
    BY <1>15, <2>2, <2>3 DEF FreeSlot, Spare
  <2> QED BY <2>1, <2>4 DEF SlackOf
<1>16. Slack = SlackOf(log, obs, list) /\ Slack' = SlackOf(L, o, list')
  BY <1>2, SlackFacts
<1>17. Slack \ {np} \subseteq Slack'
  BY <1>12, <1>14, <1>16
<1>18. \A c \in Blocks : \A k \in Used(log, c, obs) :
          list[c] = "gc" /\ <<c, k>> \in old => <<c, k>> \in Slack' \ Slack
  BY <1>12, <1>15, <1>16
<1>19. ASSUME node = Dead PROVE Slack \subseteq Slack' \cup Wasted
  <2> SUFFICES ASSUME np \in Slack \ Slack' PROVE np \in Wasted
    BY <1>17
  <2>1. np[1] = b /\ np[2] = Len(log[b]) + 1 /\ list[np[1]] = "next"
    BY <1>3
  <2>2. L[b] = Append(log[b], node) /\ IsSeq(log[b])
    BY <1>3 DEF L, Rows
  <2>3. L[b][Len(log[b]) + 1] = Dead
    BY <1>19, <2>2 DEF IsSeq
  <2>4. log'[np[1]][np[2]] = Dead
    BY <1>2, <2>1, <2>3
  <2> HIDE DEF np
  <2> QED BY <2>1, <2>4 DEF Wasted
<1> QED BY <1>13, <1>17, <1>18, <1>19

\* Steps that leave log, obsolete nodes, lists and write buffer alone.
LEMMA OpSpace ==
    ASSUME Mounted, UNCHANGED <<log, wbuf, obs, list>>
    PROVE  Mounted' /\ Slack' = Slack
BY DEF Mounted, Slack

\* Filing one block elsewhere.
LEMMA RelistSpace ==
    ASSUME Mounted, UNCHANGED <<log, wbuf, obs>>, NEW b \in Blocks, NEW t \in Lists,
           list' = [list EXCEPT ![b] = t],
           \/ list[b] = "closed" /\ t = "gc" /\ On("gc") = {}
           \/ list[b] = "erasable" /\ t = "gc" /\ On("gc") = {}
           \/ list[b] = "gc" /\ t = "erase_pending"
           \/ list[b] = "free" /\ t = "next" /\ On("next") = {}
           \/ list[b] = "erasable" /\ t = "erase_pending"
           \/ list[b] = "erase_complete" /\ t = "free"
    PROVE  Mounted' /\ Slack \subseteq Slack'
<1>1. /\ wbuf \in Nat /\ Rows(log) /\ Filed(log, obs, list) /\ Buffered(log, list, wbuf)
      /\ list \in [Blocks -> Lists]
  BY DEF Mounted, Filed
<1>2. list' \in [Blocks -> Lists] /\ list'[b] = t /\ \A c \in Blocks \ {b} : list'[c] = list[c]
  BY <1>1
<1>3. t = "next" => wbuf = 0 /\ \A c \in Blocks : list[c] # "next"
  BY <1>1 DEF Buffered, On
<1>4. t = "gc" => \A c \in Blocks : list[c] # "gc"
  BY DEF On
<1>5. /\ list[b] = "erasable" => Used(log, b, obs) = {}
      /\ list[b] \in {"free", "erase_complete"} => log[b] = <<>> /\ Len(log[b]) = 0
  BY <1>1 DEF Filed
<1>6. Filed(log, obs, list')
  <2>1. \A c \in Blocks : list'[c] \in {"erasable", "erasable_pending_wbuf"} => Used(log, c, obs) = {}
    BY <1>1, <1>2 DEF Filed
  <2>2. \A c \in Blocks : list'[c] \in {"free", "erase_complete"} => log[c] = <<>>
    BY <1>1, <1>2, <1>5 DEF Filed
  <2>3. \A c, d \in Blocks : list'[c] = list'[d] /\ list'[c] \in {"next", "gc"} => c = d
    BY <1>1, <1>2, <1>3, <1>4 DEF Filed
  <2> QED BY <1>2, <2>1, <2>2, <2>3 DEF Filed
<1>7. Buffered(log, list', wbuf)
  <2>1. wbuf > 0 => \E c \in Blocks : list'[c] = "next"
    <3> SUFFICES ASSUME wbuf > 0 PROVE \E c \in Blocks : list'[c] = "next"
      OBVIOUS
    <3>1. PICK c \in Blocks : list[c] = "next"
      BY <1>1 DEF Buffered
    <3> QED BY <1>2, <3>1
  <2>2. \A c \in Blocks : Len(log[c]) \in Nat
    BY <1>1, SeqFacts DEF Rows
  <2>3. \A c \in Blocks : list'[c] = "next" => wbuf <= Len(log[c])
    BY <1>1, <1>2, <1>3, <2>2 DEF Buffered
  <2>4. \A c \in Blocks : list'[c] = "erasable_pending_wbuf" => wbuf > 0
    BY <1>1, <1>2 DEF Buffered
  <2> QED BY <2>1, <2>3, <2>4 DEF Buffered
<1>8. Mounted'
  BY <1>1, <1>6, <1>7 DEF Mounted
<1>9. SlackOf(log, obs, list) \subseteq SlackOf(log, obs, list')
  <2> SUFFICES ASSUME NEW c \in Blocks, NEW k \in 1..NSlots, FreeSlot(log, obs, list, c, k)
               PROVE  FreeSlot(log, obs, list', c, k)
    BY DEF SlackOf
  <2>1. CASE c # b
    BY <1>2, <2>1 DEF FreeSlot
  <2>2. CASE c = b
    BY <1>2, <1>5, <2>2 DEF FreeSlot, Spare
  <2> QED BY <2>1, <2>2
<1> QED BY <1>8, <1>9, SlackFacts

\* jffs2_find_gc_block, the lists of blocks to erase, and a new c->nextblock.
LEMMA FilingSpace ==
    ASSUME Mounted, GcPick \/ GcEraseIt \/ TakeFree \/ TakeErasable \/ MarkErased
    PROVE  Mounted' /\ Slack \subseteq Slack'
<1>1. UNCHANGED <<log, wbuf, obs>>
  BY DEF GcPick, GcEraseIt, TakeFree, TakeErasable, MarkErased, flashVars
<1>2. CASE GcPick
  <2>1. PICK b \in On("closed") \cup On("erasable") : list' = [list EXCEPT ![b] = "gc"]
    BY <1>2 DEF GcPick
  <2>2. b \in Blocks /\ list[b] \in {"closed", "erasable"} /\ On("gc") = {} /\ "gc" \in Lists
    BY <1>2, <2>1 DEF GcPick, On, Lists
  <2> QED BY <1>1, <2>1, <2>2, RelistSpace
<1>3. CASE GcEraseIt
  <2>1. PICK b \in On("gc") : list' = [list EXCEPT ![b] = "erase_pending"]
    BY <1>3 DEF GcEraseIt
  <2>2. b \in Blocks /\ list[b] = "gc" /\ "erase_pending" \in Lists
    BY <2>1 DEF On, Lists
  <2> QED BY <1>1, <2>1, <2>2, RelistSpace
<1>4. CASE TakeFree
  <2>1. PICK b \in On("free") : list' = [list EXCEPT ![b] = "next"]
    BY <1>4 DEF TakeFree
  <2>2. b \in Blocks /\ list[b] = "free" /\ On("next") = {} /\ "next" \in Lists
    BY <1>4, <2>1 DEF TakeFree, On, Lists
  <2> QED BY <1>1, <2>1, <2>2, RelistSpace
<1>5. CASE TakeErasable
  <2>1. PICK b \in On("erasable") : list' = [list EXCEPT ![b] = "erase_pending"]
    BY <1>5 DEF TakeErasable
  <2>2. b \in Blocks /\ list[b] = "erasable" /\ "erase_pending" \in Lists
    BY <2>1 DEF On, Lists
  <2> QED BY <1>1, <2>1, <2>2, RelistSpace
<1>6. CASE MarkErased
  <2>1. PICK b \in On("erase_complete") : list' = [list EXCEPT ![b] = "free"]
    BY <1>6 DEF MarkErased
  <2>2. b \in Blocks /\ list[b] = "erase_complete" /\ "free" \in Lists
    BY <2>1 DEF On, Lists
  <2> QED BY <1>1, <2>1, <2>2, RelistSpace
<1> QED BY <1>2, <1>3, <1>4, <1>5, <1>6

\* jffs2_mark_node_obsolete only frees slots.
LEMMA ObsoleteSpace ==
    ASSUME Mounted, NEW old, MarkObsolete(old), UNCHANGED <<log, wbuf>>
    PROVE  Mounted' /\ Slack \subseteq Slack'
<1>1. /\ wbuf \in Nat /\ Rows(log) /\ Filed(log, obs, list) /\ Buffered(log, list, wbuf)
  BY DEF Mounted
<1>2. PICK dest \in Dest : list' = Refile(list, log, obs \cup old, old, FALSE, wbuf, dest)
  BY DEF MarkObsolete
<1>3. obs' = obs \cup old
  BY DEF MarkObsolete
<1>4. Filed(log, obs \cup old, list)
  BY <1>1, UsedFewer DEF Filed
<1>5. Refiles(list, list', log, obs \cup old, old, wbuf, wbuf, dest)
  BY <1>2 DEF Refile, Refiles
<1>6. /\ wbuf > 0 => \E b \in Blocks : list[b] = "next"
      /\ \A b \in Blocks : list[b] = "next" => wbuf <= Len(log[b])
      /\ \A b \in Blocks : list[b] = "erasable_pending_wbuf" => wbuf > 0
  BY <1>1 DEF Buffered
<1>7. /\ Filed(log, obs \cup old, list') /\ Buffered(log, list', wbuf)
      /\ SlackOf(log, obs \cup old, list) \subseteq SlackOf(log, obs \cup old, list')
  BY ONLY <1>1, <1>4, <1>5, <1>6, dest \in Dest, RefiledSpace
<1>8. SlackOf(log, obs, list) \subseteq SlackOf(log, obs \cup old, list)
  BY UsedFewer DEF SlackOf, FreeSlot
<1>9. Mounted'
  BY <1>1, <1>3, <1>7 DEF Mounted
<1> QED BY <1>3, <1>7, <1>8, <1>9, SlackFacts

\* Padded or not, what holds nodes is a sequence.
LEMMA PaddedRow ==
    ASSUME NEW L, Rows(L), NEW b \in Blocks, NEW n \in Nat,
           n <= NSlots - Len(L[b]) \/ n = 0
    PROVE  /\ Rows(Pad(L, b, n)) /\ \A c \in Blocks \ {b} : Pad(L, b, n)[c] = L[c]
           /\ \A k \in Nat : k > Len(L[b]) =>
                 k > Len(Pad(L, b, n)[b]) \/ Pad(L, b, n)[b][k] = Dead
<1>0. PICK M : M = Pad(L, b, n)
  OBVIOUS
<1>1. /\ M = [c \in Blocks |-> M[c]] /\ M[b] = L[b] \o [k \in 1..n |-> Dead]
      /\ \A c \in Blocks \ {b} : M[c] = L[c]
  BY <1>0 DEF Pad, Rows
<1>2. Len(L[b]) \in Nat /\ Len(L[b]) <= NSlots /\ NSlots \in Nat
  BY SeqFacts, Jffs2Assumption DEF Rows
<1>3. PICK S : L[b] \in Seq(S)
  BY DEF Rows, IsSeq
<1>4. PICK s \in Seq(S) : s = L[b]
  BY <1>3
<1>5. PICK t : t = M[b]
  OBVIOUS
<1>6. t = s \o [k \in 1..n |-> Dead]
  BY <1>1, <1>4, <1>5
<1>7. /\ t \in Seq(S \cup {Dead}) /\ Len(t) = Len(s) + n
      /\ \A k \in (Len(s) + 1)..(Len(s) + n) : t[k] = Dead
  BY ONLY <1>6, s \in Seq(S), n \in Nat, PaddedSeq
<1>8. IsSeq(M[b]) /\ Len(M[b]) <= NSlots
  BY <1>2, <1>4, <1>5, <1>7 DEF IsSeq
<1>9. Rows(M)
  BY <1>1, <1>8 DEF Rows
<1>10. ASSUME NEW k \in Nat, k > Len(L[b]), ~(k > Len(M[b])) PROVE M[b][k] = Dead
  <2>1. k \in (Len(s) + 1)..(Len(s) + n)
    BY <1>2, <1>4, <1>5, <1>7, <1>10
  <2> QED BY <1>5, <1>7, <2>1
<1> QED BY <1>0, <1>1, <1>9, <1>10

\* __jffs2_flush_wbuf, for c->nextblock to stay or to be filed away: the slots it loses are
\* padding, or the end of the block that is skipped.
LEMMA FlushSpace ==
    ASSUME Mounted, NEW nl \in {"next", "closed"}, FlushTo(nl), UNCHANGED obs
    PROVE  Mounted' /\ Slack \subseteq Slack' \cup Wasted
<1>1. /\ wbuf \in Nat /\ Rows(log) /\ Filed(log, obs, list) /\ list \in [Blocks -> Lists]
      /\ \A b \in Blocks : Len(log[b]) \in Nat
  BY SeqFacts DEF Mounted, Filed, Rows
<1>2. wbuf' = 0 /\ \E b \in On("next"), dest \in Dest, n \in Nat :
        /\ n <= NSlots - Len(log[b]) \/ n = 0
        /\ log' = Pad(log, b, n)
        /\ list' = Refile([list EXCEPT ![b] = nl], log, obs, {}, TRUE, 0, dest)
  BY <1>1, FlushPads
<1>3. PICK b \in On("next"), dest \in Dest, n \in Nat :
        /\ n <= NSlots - Len(log[b]) \/ n = 0
        /\ log' = Pad(log, b, n)
        /\ list' = Refile([list EXCEPT ![b] = nl], log, obs, {}, TRUE, 0, dest)
  BY <1>2
<1>4. b \in Blocks /\ list[b] = "next"
  BY <1>3 DEF On
<1>5. /\ Rows(log') /\ (\A c \in Blocks \ {b} : log'[c] = log[c])
      /\ \A k \in Nat : k > Len(log[b]) => k > Len(log'[b]) \/ log'[b][k] = Dead
  BY <1>1, <1>3, <1>4, PaddedRow
<1> DEFINE l == [list EXCEPT ![b] = nl]
<1>6. l \in [Blocks -> Lists] /\ l[b] = nl /\ \A c \in Blocks \ {b} : l[c] = list[c]
  BY <1>1, <1>4 DEF Lists
<1>7. PICK z \in Nat : z = 0
  OBVIOUS
<1>8. PICK e \in Nat : e = 1
  OBVIOUS
<1>9. list' = Refile(l, log, obs, {}, TRUE, 0, dest)
  BY <1>3
<1> HIDE DEF l
<1>10. Refiles(l, list', log, obs, {}, z, e, dest)
  BY <1>7, <1>8, <1>9 DEF Refile, Refiles
<1>11. Filed(log, obs, l)
  BY <1>1, <1>4, <1>6 DEF Filed
<1>12. /\ z > 0 => \E c \in Blocks : l[c] = "next"
       /\ \A c \in Blocks : l[c] = "next" => z <= Len(log[c])
       /\ z = e => \A c \in Blocks : l[c] = "erasable_pending_wbuf" => z > 0
  BY <1>1, <1>7, <1>8
<1>13. /\ Filed(log, obs, list') /\ Buffered(log, list', z)
       /\ SlackOf(log, obs, l) \subseteq SlackOf(log, obs, list')
  BY ONLY <1>10, <1>11, <1>12, z \in Nat, e \in Nat, dest \in Dest, RefiledSpace
<1>14. list'[b] = nl
  BY <1>4, <1>6, <1>10 DEF Refiles
<1>15. Filed(log', obs, list')
  <2>1. \A c \in Blocks \ {b} : Used(log', c, obs) = Used(log, c, obs)
    BY <1>5 DEF Used
  <2> QED BY <1>5, <1>13, <1>14, <2>1 DEF Filed
<1>16. Buffered(log', list', 0)
  <2>1. \A c \in Blocks : Len(log'[c]) \in Nat
    BY <1>5, SeqFacts DEF Rows
  <2> QED BY <1>7, <1>13, <2>1 DEF Buffered
<1>17. Mounted'
  BY <1>2, <1>5, <1>15, <1>16 DEF Mounted
<1>18. ASSUME NEW s \in Slack, s \notin Slack' PROVE s \in Wasted
  <2>1. /\ s[1] \in Blocks /\ s[2] \in 1..NSlots /\ s = <<s[1], s[2]>>
        /\ FreeSlot(log, obs, list, s[1], s[2]) /\ ~FreeSlot(log', obs, list', s[1], s[2])
    BY <1>18, SlackFacts DEF SlackOf
  <2>2. s[1] = b
    <3> SUFFICES ASSUME s[1] # b PROVE FALSE
      OBVIOUS
    <3>1. FreeSlot(log, obs, l, s[1], s[2])
      BY <1>6, <2>1 DEF FreeSlot
    <3>2. FreeSlot(log, obs, list', s[1], s[2])
      BY <1>13, <2>1, <3>1 DEF SlackOf
    <3>3. Used(log', s[1], obs) = Used(log, s[1], obs)
      BY <1>5, <2>1 DEF Used
    <3> QED BY <1>5, <2>1, <3>2, <3>3 DEF FreeSlot
  <2>3. s[2] > Len(log[b])
    BY <1>4, <2>1, <2>2 DEF FreeSlot, Spare
  <2>4. s[2] > Len(log'[b]) \/ log'[b][s[2]] = Dead
    BY <1>5, <2>1, <2>3, Jffs2Assumption
  <2> QED BY <1>4, <1>18, <2>2, <2>4 DEF Wasted
<1> QED BY <1>17, <1>18

\* jffs2_erase_pending_blocks erases a block.
LEMMA EraseSpace ==
    ASSUME Mounted, Erase
    PROVE  Mounted' /\ Slack \subseteq Slack'
<1>1. /\ wbuf \in Nat /\ Rows(log) /\ Filed(log, obs, list) /\ Buffered(log, list, wbuf)
      /\ list \in [Blocks -> Lists]
  BY DEF Mounted, Filed
<1>2. PICK b \in On("erase_pending") :
        /\ log' = [log EXCEPT ![b] = <<>>] /\ obs' = {p \in obs : p[1] # b}
        /\ list' = [list EXCEPT ![b] = "erase_complete"]
  BY DEF Erase
<1>3. b \in Blocks /\ list[b] = "erase_pending" /\ wbuf' = wbuf
  BY <1>2 DEF On, Erase
<1>4. /\ log' = [c \in Blocks |-> log'[c]] /\ log'[b] = <<>> /\ \A c \in Blocks \ {b} : log'[c] = log[c]
  BY <1>1, <1>2, <1>3 DEF Rows
<1>5. list' \in [Blocks -> Lists] /\ list'[b] = "erase_complete" /\ \A c \in Blocks \ {b} : list'[c] = list[c]
  BY <1>1, <1>2, <1>3 DEF Lists
<1>6. \A c \in Blocks \ {b} : Used(log', c, obs') = Used(log, c, obs)
  <2> SUFFICES ASSUME NEW c \in Blocks \ {b} PROVE Used(log', c, obs') = Used(log, c, obs)
    OBVIOUS
  <2>1. \A k : <<c, k>> \in obs' <=> <<c, k>> \in obs
    BY <1>2
  <2> QED BY <1>4, <2>1 DEF Used
<1>7. Rows(log')
  <2>1. IsSeq(<<>>) /\ Len(<<>>) = 0
    <3>1. <<>> \in Seq({})
      OBVIOUS
    <3> QED BY <3>1 DEF IsSeq
  <2> QED BY <1>1, <1>4, <2>1, Jffs2Assumption DEF Rows
<1>8. Filed(log', obs', list')
  <2>1. \A c \in Blocks : list'[c] \in {"erasable", "erasable_pending_wbuf"} => Used(log', c, obs') = {}
    BY <1>1, <1>5, <1>6 DEF Filed
  <2>2. \A c \in Blocks : list'[c] \in {"free", "erase_complete"} => log'[c] = <<>>
    BY <1>1, <1>4, <1>5 DEF Filed
  <2>3. \A c, d \in Blocks : list'[c] = list'[d] /\ list'[c] \in {"next", "gc"} => c = d
    BY <1>1, <1>5 DEF Filed
  <2> QED BY <1>5, <2>1, <2>2, <2>3 DEF Filed
<1>9. Buffered(log', list', wbuf)
  <2>1. \A c \in Blocks : list'[c] = "next" <=> list[c] = "next"
    BY <1>3, <1>5
  <2> QED BY <1>1, <1>3, <1>4, <1>5, <2>1 DEF Buffered
<1>10. Mounted'
  BY <1>1, <1>3, <1>7, <1>8, <1>9 DEF Mounted
<1>11. SlackOf(log, obs, list) \subseteq SlackOf(log', obs', list')
  <2> SUFFICES ASSUME NEW c \in Blocks, NEW k \in 1..NSlots, FreeSlot(log, obs, list, c, k)
               PROVE  FreeSlot(log', obs', list', c, k)
    BY DEF SlackOf
  <2>1. CASE c = b
    BY <1>5, <2>1 DEF FreeSlot, Spare
  <2>2. CASE c # b
    BY <1>4, <1>5, <1>6, <2>2 DEF FreeSlot
  <2> QED BY <2>1, <2>2
<1> QED BY <1>10, <1>11, SlackFacts

\* jffs2_mark_node_obsolete clears bits on the flash.
LEMMA ObliterateSpace ==
    ASSUME Mounted, Obliterate
    PROVE  Mounted' /\ Slack \subseteq Slack'
<1>1. /\ wbuf \in Nat /\ Rows(log) /\ Filed(log, obs, list) /\ Buffered(log, list, wbuf)
  BY DEF Mounted
<1>2. /\ log' = [b \in Blocks |-> [k \in DOMAIN log[b] |->
                    IF <<b, k>> \in clearing THEN Dead ELSE log[b][k]]]
      /\ obs' = obs \ clearing /\ UNCHANGED <<list, wbuf>>
  BY DEF Obliterate
<1>3. ASSUME NEW b \in Blocks PROVE log'[b] = [k \in DOMAIN log[b] |-> log'[b][k]] /\ Used(log', b, obs') \subseteq Used(log, b, obs)
  <2>1. log'[b] = [k \in DOMAIN log[b] |-> IF <<b, k>> \in clearing THEN Dead ELSE log[b][k]]
    BY <1>2
  <2>2. \A k \in DOMAIN log[b] : log'[b][k] = IF <<b, k>> \in clearing THEN Dead ELSE log[b][k]
    BY <2>1
  <2>3. DOMAIN log'[b] = DOMAIN log[b]
    BY <2>1
  <2>4. Used(log', b, obs') \subseteq Used(log, b, obs)
    BY <1>2, <2>2, <2>3 DEF Used
  <2> QED BY <2>1, <2>4
<1>4. \A b \in Blocks : IsSeq(log'[b]) /\ Len(log'[b]) = Len(log[b])
  <2> SUFFICES ASSUME NEW b \in Blocks PROVE IsSeq(log'[b]) /\ Len(log'[b]) = Len(log[b])
    OBVIOUS
  <2>1. IsSeq(log[b])
    BY <1>1 DEF Rows
  <2> QED BY <1>3, <2>1, SeqFacts
<1>5. Rows(log')
  <2>1. log' = [b \in Blocks |-> log'[b]]
    BY <1>2
  <2> QED BY <1>1, <1>4, <2>1 DEF Rows
<1>6. Filed(log', obs', list')
  <2>1. ASSUME NEW b \in Blocks, log[b] = <<>> PROVE log'[b] = <<>>
    <3>1. IsSeq(log'[b]) /\ Len(log'[b]) = 0
      BY <1>4, <2>1
    <3> QED BY <3>1 DEF IsSeq
  <2> QED BY <1>1, <1>2, <1>3, <2>1 DEF Filed
<1>7. Buffered(log', list', wbuf)
  BY <1>1, <1>2, <1>4 DEF Buffered
<1>8. Mounted'
  BY <1>1, <1>2, <1>5, <1>6, <1>7 DEF Mounted
<1>9. SlackOf(log, obs, list) \subseteq SlackOf(log', obs', list')
  BY <1>2, <1>3, <1>4 DEF SlackOf, FreeSlot
<1> QED BY <1>8, <1>9, SlackFacts

\* What a power cut leaves of each block, a torn node included, fits.
LEMMA PowerCutSpace ==
    ASSUME Mounted, PowerCut
    PROVE  Rows(log') /\ wbuf' = 0 /\ fsState' = "down" /\ op' = NoOp
<1>1. /\ wbuf \in Nat /\ Rows(log) /\ Filed(log, obs, list) /\ Buffered(log, list, wbuf) /\ NSlots \in Nat
  BY Jffs2Assumption DEF Mounted
<1>2. PICK j \in 0..wbuf, torn \in BOOLEAN :
        /\ torn => j < wbuf \/ Room
        /\ log' = [b \in Blocks |-> IF torn /\ list[b] = "next" THEN Append(Flashed(j)[b], Dead) ELSE Flashed(j)[b]]
  BY DEF PowerCut
<1>3. ASSUME NEW b \in Blocks
      PROVE  /\ IsSeq(Flashed(j)[b]) /\ Len(Flashed(j)[b]) <= Len(log[b])
             /\ list[b] = "next" /\ j < wbuf => Len(Flashed(j)[b]) < Len(log[b])
  <2>0. IsSeq(log[b]) /\ Len(log[b]) \in Nat
    BY <1>1, SeqFacts DEF Rows
  <2>1. CASE j = wbuf
    BY <2>0, <2>1 DEF Flashed
  <2>2. CASE j # wbuf
    <3>1. j < wbuf /\ wbuf > 0
      BY <1>1, <1>2, <2>2
    <3>2. PICK c \in Blocks : list[c] = "next"
      BY <1>1, <3>1 DEF Buffered
    <3>3. \A d \in Blocks : list[d] = "next" => d = c
      BY <1>1, <3>2 DEF Filed
    <3>4. (CHOOSE d \in Blocks : list[d] = "next") = c
      BY <3>2, <3>3
    <3>5. Flashed(j) = [log EXCEPT ![c] = SubSeq(@, 1, Len(@) - wbuf + j)]
      BY <2>2, <3>4 DEF Flashed
    <3>6. CASE b = c
      <4>1. wbuf <= Len(log[b])
        BY <1>1, <3>2, <3>6 DEF Buffered
      <4>2. Flashed(j)[b] = SubSeq(log[b], 1, Len(log[b]) - wbuf + j)
        BY <1>1, <3>5, <3>6 DEF Rows
      <4>3. Len(log[b]) - wbuf + j \in 0..Len(log[b]) /\ Len(log[b]) - wbuf + j < Len(log[b])
        BY <1>1, <1>2, <2>0, <3>1, <4>1
      <4> QED BY <2>0, <4>2, <4>3, SeqFacts
    <3>7. CASE b # c
      <4>1. Flashed(j)[b] = log[b] /\ list[b] # "next"
        BY <1>1, <3>3, <3>5, <3>7 DEF Rows
      <4> QED BY <2>0, <4>1
    <3> QED BY <3>6, <3>7
  <2> QED BY <2>1, <2>2
<1>4. ASSUME NEW b \in Blocks PROVE IsSeq(log'[b]) /\ Len(log'[b]) <= NSlots
  <2>0. Len(log[b]) <= NSlots /\ Len(log[b]) \in Nat /\ Len(Flashed(j)[b]) \in Nat
    BY <1>1, <1>3, SeqFacts DEF Rows
  <2>1. CASE torn /\ list[b] = "next"
    <3>1. log'[b] = Append(Flashed(j)[b], Dead)
      BY <1>2, <2>1
    <3>2. IsSeq(log'[b]) /\ Len(log'[b]) = Len(Flashed(j)[b]) + 1
      BY <1>3, <3>1, SeqFacts
    <3>3. Room => Len(log[b]) < NSlots
      BY <1>1, <2>1 DEF Room, On, Filed
    <3> QED BY <1>1, <1>2, <1>3, <2>0, <2>1, <3>2, <3>3
  <2>2. CASE ~(torn /\ list[b] = "next")
    <3>1. log'[b] = Flashed(j)[b]
      BY <1>2, <2>2
    <3> QED BY <1>1, <1>3, <2>0, <3>1
  <2> QED BY <2>1, <2>2
<1>5. log' = [b \in Blocks |-> log'[b]]
  BY <1>2
<1>6. wbuf' = 0 /\ fsState' = "down" /\ op' = NoOp
  BY DEF PowerCut, NoCore
<1> QED BY <1>4, <1>5, <1>6 DEF Rows

MountsAs(s, x, late, old, dest) ==
    list' = Refile(ScanList(s, x, late), log, obs', old, FALSE, 0, dest)

\* How a mount files the blocks.
LEMMA MountLists ==
    ASSUME Mount
    PROVE  /\ UNCHANGED <<log, wbuf, cuts, losses>> /\ fsState = "down" /\ Blocks # {}
           /\ \/ fsState' = "refused" /\ UNCHANGED op
              \/ /\ fsState' = "up" /\ op' = NoOp
                 /\ \E s, x, late, old : \E dest \in Dest : MountsAs(s, x, late, old, dest)
<1>1. \A x, late, dest, dups : MountedAs(x, late, dest, dups) =>
         dest \in Dest /\ MountsAs(Superseded(log), x, late, Unbuilt(log) \cup dups, dest)
  BY DEF MountedAs, MountsAs
<1> QED BY <1>1, MountFacts

\* A mount files the blocks by what it finds in them.
LEMMA MountSpace ==
    ASSUME SpaceInv, Mount
    PROVE  SpaceInv'
<1>1. /\ UNCHANGED <<log, wbuf, cuts, losses>> /\ fsState = "down" /\ Blocks # {}
      /\ Rows(log) /\ wbuf = 0 /\ NSlots \in Nat \ {0}
  BY MountLists, Jffs2Assumption DEF SpaceInv
<1>2. CASE fsState' = "refused" /\ UNCHANGED op
  BY <1>1, <1>2 DEF SpaceInv
<1>3. CASE /\ fsState' = "up" /\ op' = NoOp
           /\ \E s, x, late, old : \E dest \in Dest : MountsAs(s, x, late, old, dest)
  <2>1. PICK s, x, late, old : \E dest \in Dest : MountsAs(s, x, late, old, dest)
    BY <1>3
  <2>2. PICK dest \in Dest : list' = Refile(ScanList(s, x, late), log, obs', old, FALSE, 0, dest)
    BY <2>1 DEF MountsAs
  <2> DEFINE l == ScanList(s, x, late)
  <2>3. ASSUME NEW b \in Blocks
        PROVE  /\ l[b] \in {"free", "erase_pending", "next", "closed"} /\ (l[b] = "next" => b = x)
               /\ l[b] = "free" => log[b] = <<>>
    BY DEF ScanList
  <2>4. l = [b \in Blocks |-> l[b]]
    BY DEF ScanList
  <2> HIDE DEF l
  <2>5. l \in [Blocks -> Lists]
    BY <2>3, <2>4 DEF Lists
  <2>6. Filed(log, obs', l)
    BY <2>3, <2>5 DEF Filed
  <2>7. PICK z \in Nat : z = 0
    OBVIOUS
  <2>8. Refiles(l, list', log, obs', old, z, z, dest)
    BY <2>2, <2>7 DEF Refile, Refiles, l
  <2>9. /\ z > 0 => \E b \in Blocks : l[b] = "next"
        /\ \A b \in Blocks : l[b] = "next" => z <= Len(log[b])
        /\ \A b \in Blocks : l[b] = "erasable_pending_wbuf" => z > 0
    <3>1. \A b \in Blocks : Len(log[b]) \in Nat
      BY <1>1, SeqFacts DEF Rows
    <3> QED BY <2>3, <2>7, <3>1
  <2>10. Filed(log, obs', list') /\ Buffered(log, list', z)
    BY ONLY <2>6, <2>8, <2>9, z \in Nat, dest \in Dest, RefiledSpace
  <2>11. "held" \in DOMAIN NoOp /\ NoOp.held = FALSE
    BY DEF NoOp
  <2> QED BY <1>1, <1>3, <2>7, <2>10, <2>11 DEF SpaceInv
<1> QED BY <1>2, <1>3, MountLists

\* What is owed is there, or has just been wasted.
Covered == Cardinality(Slack') + Cardinality(Wasted) >= Owed'

\* How many slots that is.
LEMMA CoveredFacts ==
    /\ Slack \in SUBSET (Blocks \X (1..NSlots)) /\ Slack' \cup Wasted \in SUBSET (Blocks \X (1..NSlots))
    /\ Cardinality(Slack' \cup Wasted) >= Owed' => Covered
    /\ Owed = NSlots + (IF op.held THEN 1 ELSE 0) /\ Owed' = NSlots + (IF op'.held THEN 1 ELSE 0)
<1>1. /\ Slack \in SUBSET (Blocks \X (1..NSlots)) /\ Slack' \in SUBSET (Blocks \X (1..NSlots))
      /\ Wasted \in SUBSET (Blocks \X (1..NSlots))
  BY SlackFacts DEF Wasted
<1>2. IsFiniteSet(Slack') /\ IsFiniteSet(Wasted)
  BY <1>1, SlotCount, FS_Subset
<1>3. /\ Cardinality(Slack') \in Nat /\ Cardinality(Wasted) \in Nat
      /\ Cardinality(Slack' \cap Wasted) \in Nat
  BY <1>2, FS_CardinalityType, FS_Intersection
<1>4. Cardinality(Slack' \cup Wasted) = Cardinality(Slack') + Cardinality(Wasted) - Cardinality(Slack' \cap Wasted)
  BY <1>2, FS_Union
<1>5. Owed = NSlots + (IF op.held THEN 1 ELSE 0) /\ Owed' = NSlots + (IF op'.held THEN 1 ELSE 0)
  BY DEF Owed
<1>6. Owed' \in Nat
  BY <1>5, Jffs2Assumption
<1>7. Cardinality(Slack' \cup Wasted) >= Owed' => Covered
  BY <1>3, <1>4, <1>6 DEF Covered
<1>8. Slack' \cup Wasted \in SUBSET (Blocks \X (1..NSlots))
  BY <1>1
<1> QED BY <1>1, <1>5, <1>7, <1>8

\* When the reserve stays, but for what is wasted.
LEMMA ReserveStays ==
    ASSUME ReserveHeld
    PROVE  /\ Slack \subseteq Slack' \cup Wasted /\ (op' = op \/ ~op'.held) => Covered
           /\ \A np : Slack \ {np} \subseteq Slack' /\ op.held /\ ~op'.held => Covered
           /\ \A np : \A y \in Slack' \ Slack :
                 Slack \ {np} \subseteq Slack' /\ op' = op => Covered
<1> DEFINE h == IF op.held THEN 1 ELSE 0
           g == IF op'.held THEN 1 ELSE 0
           A == Slack
           B == Slack' \cup Wasted
<1>1. A \in SUBSET (Blocks \X (1..NSlots)) /\ B \in SUBSET (Blocks \X (1..NSlots)) /\ NSlots \in Nat
  BY CoveredFacts, Jffs2Assumption
<1>2. Cardinality(A) >= NSlots + h /\ (Cardinality(B) >= NSlots + g => Covered)
  BY CoveredFacts DEF ReserveHeld
<1>3. h \in {0, 1} /\ g \in {0, 1} /\ (op.held => h = 1) /\ (~op'.held => g = 0) /\ (op' = op => g = h)
  OBVIOUS
<1>4. Slack' \subseteq B /\ A \cap Slack = A /\ Wasted \subseteq A
  BY DEF Wasted
<1> HIDE DEF A, B, h, g
<1>5. /\ Cardinality(A) \in Nat /\ Cardinality(B) \in Nat /\ (A \subseteq B => Cardinality(A) <= Cardinality(B))
      /\ \A np : A \ {np} \subseteq B => Cardinality(A) <= Cardinality(B) + 1
      /\ \A np : \A y \in B \ A : A \ {np} \subseteq B => Cardinality(A) <= Cardinality(B)
  BY <1>1, SlotsCompared
<1>6. A \subseteq B /\ (op' = op \/ ~op'.held) => Covered
  BY <1>1, <1>2, <1>3, <1>5
<1>7. ASSUME NEW np, A \ {np} \subseteq B, op.held, ~op'.held PROVE Covered
  <2>1. h = 1
    BY <1>3, <1>7, Zenon
  <2>2. g = 0
    BY <1>3, <1>7, Zenon
  <2>3. Cardinality(A) <= Cardinality(B) + 1
    BY <1>5, <1>7
  <2>4. Cardinality(B) >= NSlots + g
    BY <1>1, <1>2, <1>5, <2>1, <2>2, <2>3
  <2> QED BY <1>2, <2>4
<1>8. ASSUME NEW np, NEW y \in B \ A, A \ {np} \subseteq B, op' = op PROVE Covered
  BY <1>1, <1>2, <1>3, <1>5, <1>8
<1> QED BY <1>4, <1>6, <1>7, <1>8 DEF A, B

\* jffs2_reserve_space lets nobody through unless two blocks are free or being erased.
LEMMA ReserveSpace ==
    ASSUME Mounted, Reserve, "held" \in DOMAIN op
    PROVE  Mounted' /\ Covered /\ "held" \in DOMAIN op'
<1>1. /\ Mounted' /\ Slack' = Slack /\ op' = [op EXCEPT !.held = TRUE] /\ Admitted
      /\ UNCHANGED <<log, wbuf, obs, list>>
  <2>1. UNCHANGED <<log, wbuf, obs, list>> /\ op' = [op EXCEPT !.held = TRUE] /\ Admitted
    BY DEF Reserve, flashVars
  <2> QED BY <2>1, OpSpace
<1> DEFINE F == On("free")
           E == On("erase_pending") \cup On("erase_complete")
<1>2. IsFiniteSet(F) /\ IsFiniteSet(E) /\ Cardinality(F) \in Nat /\ Cardinality(E) \in Nat
  <2>1. F \in SUBSET Blocks /\ E \in SUBSET Blocks /\ IsFiniteSet(Blocks)
    BY Jffs2Assumption DEF On
  <2>2. IsFiniteSet(F) /\ IsFiniteSet(E)
    BY <2>1, FS_Subset
  <2> QED BY <2>2, FS_CardinalityType
<1>3. Cardinality(F) + Cardinality(E) >= 2
  <2>1. Enough(ResvWrite) \/ Enough(ResvDeletion)
    BY <1>1 DEF Admitted
  <2>2. ResvWrite \in Nat /\ ResvDeletion \in Nat /\ ResvWrite >= 2 /\ ResvDeletion >= 2
    BY Jffs2Assumption
  <2> QED BY <1>2, <2>1, <2>2 DEF Enough, Erasing
<1>4. F \cap E = {} /\ Cardinality(F \cap E) = 0
  <2>1. F \cap E = {}
    BY DEF On
  <2> QED BY <2>1, FS_EmptySet
<1>5. IsFiniteSet(F \cup E) /\ Cardinality(F \cup E) >= 2
  <2>1. IsFiniteSet(F \cup E) /\ Cardinality(F \cup E) = Cardinality(F) + Cardinality(E) - Cardinality(F \cap E)
    BY <1>2, FS_Union
  <2> QED BY <1>2, <1>3, <1>4, <2>1
<1>6. \A b \in F \cup E : b \in Blocks /\ list[b] \in Spare
  BY DEF On, Spare
<1> HIDE DEF F, E
<1>7. PICK b : b \in F \cup E
  BY <1>5, FS_EmptySet
<1>8. PICK c \in F \cup E : c # b
  <2>1. F \cup E # {b}
    BY <1>5, FS_Singleton
  <2> QED BY <1>7, <2>1
<1> DEFINE X == {b} \X (1..NSlots)
           y == <<c, 1>>
<1>9. IsFiniteSet(X) /\ Cardinality(X) = NSlots /\ NSlots \in Nat \ {0}
  BY SlotCount
<1>10. y \notin X /\ X \cup {y} \in SUBSET Slack
  <2>1. b \in Blocks /\ c \in Blocks /\ list[b] \in Spare /\ list[c] \in Spare /\ 1 \in 1..NSlots
    BY <1>6, <1>7, <1>8, <1>9
  <2> QED BY <1>8, <2>1, SlackFacts DEF SlackOf, FreeSlot
<1> HIDE DEF X, y
<1>11. IsFiniteSet(X \cup {y}) /\ Cardinality(X \cup {y}) = NSlots + 1
  BY <1>9, <1>10, FS_AddElement
<1>12. Cardinality(Slack) >= NSlots + 1
  <2>1. Cardinality(X \cup {y}) <= Cardinality(Slack)
    BY <1>10, SlackFinite, FS_Subset
  <2> QED BY <1>9, <1>11, <2>1, SlackFinite
<1>13. Covered
  <2>1. Wasted = {} /\ Slack' \cup Wasted = Slack
    BY <1>1 DEF Wasted
  <2>2. Owed' = NSlots \/ Owed' = NSlots + 1
    BY CoveredFacts, Jffs2Assumption
  <2>3. Cardinality(Slack' \cup Wasted) >= Owed'
    BY <1>9, <1>12, <2>1, <2>2, SlackFinite
  <2> QED BY <2>3, CoveredFacts
<1> QED BY <1>1, <1>13

\* What the collector looks at is a used node of its block.
LEMMA GcSlot ==
    ASSUME Mounted, NEW b \in Blocks, Used(log, b, obs) # {}
    PROVE  \E k \in Used(log, b, obs) : GcNode(b) = <<b, k>>
<1> DEFINE U == Used(log, b, obs)
<1>1. U \in SUBSET Nat
  BY UsedSlotsOf DEF Mounted, Rows
<1>2. \E k \in U : \A j \in U : k <= j
  BY <1>1, LeastNumber
<1> QED BY <1>2 DEF GcNode

\* What a step of a mounted file system must keep.
Keeps == /\ Mounted' /\ "held" \in DOMAIN op'
         /\ ReserveHeld \/ (~op.held /\ op'.held) => Covered

\* A step that takes no slot but wastes it, and leaves no new reservation.
LEMMA KeepsSlack ==
    ASSUME Mounted', Slack \subseteq Slack' \cup Wasted, "held" \in DOMAIN op',
           op' = op \/ ~op'.held
    PROVE  Keeps
BY ReserveStays DEF Keeps

\* The next node of an operation is written, or that fails: the slot it reserved is taken.
LEMMA WriterKeeps ==
    ASSUME Mounted, "held" \in DOMAIN op, OpWrite \/ OpWriteFails
    PROVE  Keeps
<1>1. op.held /\ \E node, old : Store(node, old)
  <2>1. CASE OpWrite
    BY <2>1 DEF OpWrite
  <2>2. CASE OpWriteFails
    BY <2>2 DEF OpWriteFails
  <2> QED BY <2>1, <2>2
<1>2. PICK node, old : Store(node, old)
  BY <1>1
<1>3. Mounted' /\ \E np : Slack \ {np} \subseteq Slack'
  BY <1>2, StoreSpace
<1>4. ~op'.held /\ "held" \in DOMAIN op'
  <2>1. ~NoOp.held /\ "held" \in DOMAIN NoOp
    BY DEF NoOp
  <2>2. CASE OpWrite
    BY <2>1, <2>2 DEF OpWrite
  <2>3. CASE OpWriteFails
    BY <2>1, <2>3 DEF OpWriteFails, GiveUp
  <2> QED BY <2>2, <2>3
<1>5. ReserveHeld => Covered
  BY <1>1, <1>3, <1>4, ReserveStays
<1> QED BY <1>3, <1>4, <1>5 DEF Keeps

\* A node is moved: the collector gets back the slot it takes.
LEMMA GcMoveKeeps ==
    ASSUME Mounted, "held" \in DOMAIN op, GcMove
    PROVE  Keeps
<1>1. PICK b \in On("gc") : /\ Used(log, b, obs) # {}
                           /\ \E node : Store(node, {GcNode(b)})
  BY DEF GcMove
<1>2. PICK node : Store(node, {GcNode(b)})
  BY <1>1
<1>3. b \in Blocks /\ list[b] = "gc" /\ op' = op
  BY <1>1 DEF On, GcMove
<1>4. PICK k \in Used(log, b, obs) : GcNode(b) = <<b, k>>
  BY <1>1, <1>3, GcSlot
<1>5. Mounted' /\ \E np : Slack \ {np} \subseteq Slack' /\ <<b, k>> \in Slack' \ Slack
  <2>1. <<b, k>> \in {GcNode(b)}
    BY <1>4
  <2> QED BY <1>2, <1>3, <1>4, <2>1, StoreSpace
<1>6. ReserveHeld => Covered
  BY <1>3, <1>5, ReserveStays
<1> QED BY <1>3, <1>5, <1>6 DEF Keeps

\* A copy fails, and the slot is wasted.
LEMMA GcMoveFailsKeeps ==
    ASSUME Mounted, "held" \in DOMAIN op, GcMoveFails
    PROVE  Keeps
<1>1. Store(Dead, {}) /\ op' = op
  BY DEF GcMoveFails
<1>2. Mounted' /\ Slack \subseteq Slack' \cup Wasted
  BY <1>1, StoreSpace
<1> QED BY <1>1, <1>2, KeepsSlack

\* Steps of a mounted file system.
LEMMA UpSpace ==
    ASSUME SpaceInv, fsState = "up", Next
    PROVE  (Keeps /\ fsState' = "up") \/ PowerCut
<1>0. Mounted /\ "held" \in DOMAIN op
  BY DEF SpaceInv, Mounted
<1>n. ~NoOp.held /\ "held" \in DOMAIN NoOp
  BY DEF NoOp
<1> DEFINE Stays == fsState' = "up"
<1>1. CASE \E n \in Names : Create(n) \/ Unlink(n) \/ \E m \in Names : Link(m, n) \/ Rename(m, n)
  <2>1. PICK call, ino, todo : Begin(call, ino, todo)
    BY <1>1 DEF Create, Unlink, Link, Rename
  <2>2. UNCHANGED <<log, wbuf, obs, list>> /\ Stays
    BY <2>1 DEF Begin, flashVars
  <2>3. "held" \in DOMAIN op' /\ ~op'.held
    BY <2>1 DEF Begin, NoOp
  <2> QED BY <1>0, <2>2, <2>3, OpSpace, KeepsSlack
<1>2. CASE Reserve
  <2>1. Keeps
    BY <1>0, <1>2, ReserveSpace DEF Keeps
  <2> QED BY <1>2, <2>1 DEF Reserve
<1>3. CASE OpWrite \/ OpWriteFails
  <2>1. Stays
    BY <1>3 DEF OpWrite, OpWriteFails
  <2> QED BY <1>0, <1>3, <2>1, WriterKeeps
<1>4. CASE OpFails
  <2>1. UNCHANGED <<log, wbuf, obs, list>> /\ op' = NoOp /\ Stays
    BY <1>4 DEF OpFails, GiveUp, flashVars
  <2>2. "held" \in DOMAIN op' /\ ~op'.held
    BY <1>n, <2>1
  <2> QED BY <1>0, <2>1, <2>2, OpSpace, KeepsSlack
<1>5. CASE (\E i \in Inos : ClearInode(i)) \/ GcDrop
  <2>1. PICK old : MarkObsolete(old)
    BY <1>5 DEF ClearInode, GcDrop
  <2>2. UNCHANGED <<log, wbuf, op>> /\ Stays
    BY <1>5 DEF ClearInode, GcDrop, flashVars
  <2> QED BY <1>0, <2>1, <2>2, ObsoleteSpace, KeepsSlack
<1>6. CASE GcPick \/ GcEraseIt \/ TakeFree \/ TakeErasable \/ MarkErased
  <2>1. op' = op /\ Stays
    BY <1>6 DEF GcPick, GcEraseIt, TakeFree, TakeErasable, MarkErased
  <2> QED BY <1>0, <1>6, <2>1, FilingSpace, KeepsSlack
<1>7. CASE GcMove
  <2>1. Stays
    BY <1>7 DEF GcMove
  <2> QED BY <1>0, <1>7, <2>1, GcMoveKeeps
<1>8. CASE GcMoveFails
  <2>1. Stays
    BY <1>8 DEF GcMoveFails
  <2> QED BY <1>0, <1>8, <2>1, GcMoveFailsKeeps
<1>9. CASE Flush
  <2>1. FlushTo("next") /\ UNCHANGED <<obs, op>> /\ Stays
    BY <1>9 DEF Flush
  <2> QED BY <1>0, <2>1, FlushSpace, KeepsSlack
<1>10. CASE CloseNext
  <2>1. FlushTo("closed") /\ UNCHANGED <<obs, op>> /\ Stays
    BY <1>10 DEF CloseNext
  <2> QED BY <1>0, <2>1, FlushSpace, KeepsSlack
<1>11. CASE Erase
  <2>1. op' = op /\ Stays
    BY <1>11 DEF Erase
  <2> QED BY <1>0, <1>11, <2>1, EraseSpace, KeepsSlack
<1>12. CASE Obliterate
  <2>1. op' = op /\ Stays
    BY <1>12 DEF Obliterate
  <2> QED BY <1>0, <1>12, <2>1, ObliterateSpace, KeepsSlack
<1>13. CASE Mount
  <2>1. fsState = "down"
    BY <1>13, MountLists
  <2> QED BY <2>1
<1>14. CASE PowerCut
  BY <1>14
<1> QED BY <1>1, <1>2, <1>3, <1>4, <1>5, <1>6, <1>7, <1>8, <1>9, <1>10, <1>11, <1>12, <1>13, <1>14 DEF Next

\* A fresh flash.
LEMMA SpaceInit ==
    ASSUME Init
    PROVE  SpaceInv
<1>1. \A b \in Blocks : log[b] = <<>>
  BY DEF Init
<1>2. IsSeq(<<>>) /\ Len(<<>>) = 0
  <2>1. <<>> \in Seq({})
    OBVIOUS
  <2> QED BY <2>1 DEF IsSeq
<1>3. Rows(log)
  BY <1>1, <1>2, Jffs2Assumption DEF Init, Rows
<1>4. "held" \in DOMAIN op
  BY DEF Init, NoOp
<1> QED BY <1>3, <1>4 DEF Init, SpaceInv

\* Every step keeps it, and the reserve.
LEMMA SpaceNext ==
    ASSUME SpaceInv, [Next]_vars
    PROVE  /\ SpaceInv'
           /\ fsState = "up" /\ fsState' = "up" /\ (ReserveHeld \/ (~op.held /\ op'.held)) =>
                 Covered \/ UNCHANGED vars
<1>1. CASE UNCHANGED vars
  <2>1. UNCHANGED <<log, wbuf, fsState, obs, list, op>>
    BY <1>1 DEF vars, flashVars, coreVars
  <2> QED BY <1>1, <2>1 DEF SpaceInv
<1>2. CASE Next /\ fsState = "up"
  <2>1. CASE Keeps /\ fsState' = "up"
    BY <2>1 DEF Keeps, Mounted, SpaceInv
  <2>2. CASE PowerCut
    <3>1. Mounted
      BY <1>2 DEF SpaceInv, Mounted
    <3>2. Rows(log') /\ wbuf' = 0 /\ fsState' = "down" /\ op' = NoOp
      BY <2>2, <3>1, PowerCutSpace
    <3>3. "held" \in DOMAIN NoOp
      BY DEF NoOp
    <3> QED BY <3>2, <3>3 DEF SpaceInv
  <2> QED BY <1>2, <2>1, <2>2, UpSpace
<1>3. CASE Next /\ fsState # "up"
  <2>1. Mount
    BY <1>3, DownNext
  <2> QED BY <1>3, <2>1, MountSpace
<1> QED BY <1>1, <1>2, <1>3

\* The lists are right at every moment on either medium, however much was padded, skipped or
\* lost: no block holds more than fits, blocks to take are erased, blocks to erase unused,
\* there is one c->nextblock with the write buffer's nodes, and blocks wait for it only
\* while it has any.
THEOREM SpaceInvariant == Spec => []SpaceInv
BY SpaceInit, SpaceNext, PTL DEF Spec

\* No step of a mounted file system eats into what jffs2_reserve_space holds back, except for
\* the slots that it wastes: by padding, skipping the end of a block or failing to write.
THEOREM ReserveIsKept == Spec => ReserveKept
<1>1. SpaceInv /\ [Next]_vars =>
        [fsState = "up" /\ fsState' = "up" /\ (ReserveHeld \/ (~op.held /\ op'.held))
           => Cardinality(Slack') + Cardinality(Wasted) >= Owed']_vars
  BY SpaceNext DEF Covered
<1> QED BY <1>1, SpaceInvariant, PTL DEF Spec, ReserveKept

\* With the reserve there, jffs2_do_reserve_space finds a block: the slots it counts cannot
\* all be in the one block that is being collected, which has a used node or is not enough.
LEMMA RoomFound ==
    ASSUME SpaceInv
    PROVE  NeverOutOfRoom
<1>1. SUFFICES ASSUME ReserveHeld, WantsRoom, On("next") = {},
                      On("free") \cup On("erase_pending") \cup On("erase_complete") \cup On("erasable") = {}
               PROVE  FALSE
  BY DEF NeverOutOfRoom
<1>2. fsState = "up" /\ Filed(log, obs, list) /\ Buffered(log, list, wbuf) /\ Rows(log) /\ NSlots \in Nat
  BY <1>1, Jffs2Assumption DEF WantsRoom, Idle, SpaceInv
<1>3. \A b \in Blocks : list[b] \notin Spare \cup {"next"}
  <2>1. \A b \in Blocks : list[b] # "next"
    BY <1>1 DEF On
  <2>2. \A b \in Blocks : list[b] # "erasable_pending_wbuf"
    BY <1>2, <2>1 DEF Buffered
  <2>3. \A b \in Blocks : list[b] \notin {"free", "erase_pending", "erase_complete", "erasable"}
    BY <1>1 DEF On
  <2> QED BY <2>1, <2>2, <2>3 DEF Spare
<1>4. \A s \in Slack : s[1] \in Blocks /\ s[2] \in 1..NSlots /\ s = <<s[1], s[2]>>
                       /\ list[s[1]] = "gc" /\ s[2] \notin Used(log, s[1], obs)
  BY <1>3, SlackFacts DEF SlackOf, FreeSlot
<1>5. Slack # {}
  <2>1. Cardinality(Slack) >= NSlots
    BY <1>1, <1>2, SlackFinite DEF ReserveHeld, Owed
  <2>2. Cardinality(Slack) # 0
    BY <2>1, Jffs2Assumption
  <2> QED BY <2>2, FS_EmptySet
<1>6. PICK b \in Blocks : list[b] = "gc"
  BY <1>4, <1>5
<1>7. \A c \in Blocks : list[c] = "gc" => c = b
  BY <1>2, <1>6 DEF Filed
<1> DEFINE R == {b} \X (1..NSlots)
<1>8. IsFiniteSet(R) /\ Cardinality(R) = NSlots
  BY SlotCount
<1>9. Slack \in SUBSET R /\ \A k \in Used(log, b, obs) : <<b, k>> \notin Slack
  BY <1>4, <1>7
<1>10. CASE op.held
  <2>1. Cardinality(Slack) >= NSlots + 1
    BY <1>1, <1>10 DEF ReserveHeld, Owed
  <2>2. Cardinality(Slack) <= NSlots
    BY <1>8, <1>9, FS_Subset
  <2> QED BY <1>2, <2>1, <2>2, SlackFinite
<1>11. CASE ~op.held
  <2>1. Used(log, b, obs) # {}
    BY <1>1, <1>7, <1>11 DEF WantsRoom, On
  <2>2. PICK k : k \in Used(log, b, obs)
    BY <2>1
  <2>3. k \in 1..NSlots
    BY <1>2, <2>2, UsedSlotsOf DEF Rows
  <2>4. <<b, k>> \in R /\ <<b, k>> \notin Slack
    BY <1>9, <2>2, <2>3
  <2>5. Cardinality(Slack) <= NSlots /\ Cardinality(Slack) # NSlots
    BY <1>8, <1>9, <2>4, FS_Subset
  <2>6. Cardinality(Slack) >= NSlots
    BY <1>1, <1>2, SlackFinite DEF ReserveHeld, Owed
  <2> QED BY <1>2, <2>5, <2>6, SlackFinite
<1> QED BY <1>10, <1>11

\* jffs2_do_reserve_space has a block to take or to erase as long as the reserve is there.
THEOREM RoomWhileReserved == Spec => []NeverOutOfRoom
BY RoomFound, SpaceInvariant, PTL

(***************************************************************************)
(* Crash safety: JFFS2 on NAND implements DurableDir.                      *)
(***************************************************************************)

\* What a mount shows of a name: the inode of the entry that P shows, if there is one.
LEMMA ShownOf ==
    ASSUME NEW L \in Logs, Distinct(L), NEW P, P \subseteq Places(L), Good(L, P),
           NEW F, Holds(F, L, P), NEW n \in Names
    PROVE  /\ \A p \in Dirents(L, n) : Shows(L, P, p) => Shown(F)[n] = At(L, p).ino
           /\ (\A p \in Dirents(L, n) : ~Shows(L, P, p)) => Shown(F)[n] = 0
<1> DEFINE D == Dirents(F, n)
           q == Newest(F, D)
<1>0. /\ F \in Logs /\ P \subseteq Places(F) /\ (\A p \in P : At(F, p) = At(L, p))
      /\ \A p \in Places(F) \ P : At(F, p) = Dead
  BY DEF Holds
<1>1. Distinct(F) /\ Good(F, Places(F))
  BY <1>0, LessGood
<1>2. \A p : p \in D <=> p \in P /\ p \in Dirents(L, n)
  BY <1>0 DEF Dirents, Of, Dead
<1>3. Shown(F)[n] = IF D = {} \/ InodeNodes(F, At(F, q).ino) = {} THEN 0 ELSE At(F, q).ino
  BY DEF Shown
<1>4. InodeNodes(F, 0) = {}
  <2>1. 0 \notin Inos
    BY Jffs2Assumption DEF Inos
  <2> QED BY <1>0, <2>1, EntryFacts
<1>5. ASSUME NEW p \in Dirents(L, n), Shows(L, P, p) PROVE Shown(F)[n] = At(L, p).ino
  <2>1. p \in P /\ NewestIn(L, P, p) /\ At(L, p).ino # 0 /\ At(L, p).name = n /\ p \in D
    BY <1>2, <1>5, EntryFacts DEF Shows
  <2>2. p \in Of(F, "dirent") /\ At(F, p) = At(L, p)
    BY <1>0, <2>1, EntryFacts
  <2>3. NewestIn(F, Places(F), p)
    BY <1>0, <1>2, <2>1, <2>2 DEF NewestIn
  <2>4. q = p
    BY <1>0, <1>1, <2>1, <2>2, <2>3, NewestIsIt
  <2>5. InodeNodes(F, At(F, p).ino) # {}
    BY <1>0, <1>1, <2>1, <2>2, <2>3 DEF Good
  <2> HIDE DEF q
  <2> QED BY <1>3, <2>1, <2>2, <2>4, <2>5
<1>6. ASSUME \A p \in Dirents(L, n) : ~Shows(L, P, p) PROVE Shown(F)[n] = 0
  <2>1. CASE D = {}
    BY <1>3, <2>1
  <2>2. CASE D # {}
    <3>1. q \in D /\ \A r \in D : At(F, r).version <= At(F, q).version
      BY <1>0, <2>2, NewestFacts
    <3> HIDE DEF q
    <3>2. q \in P /\ q \in Dirents(L, n) /\ At(F, q) = At(L, q) /\ At(L, q).name = n
      BY <1>0, <1>2, <3>1, EntryFacts
    <3>3. NewestIn(L, P, q)
      BY <1>0, <1>2, <3>1, <3>2 DEF NewestIn
    <3>4. At(F, q).ino = 0
      BY <1>6, <3>2, <3>3 DEF Shows
    <3> QED BY <1>3, <1>4, <3>4
  <2> QED BY <2>1, <2>2
<1> QED BY <1>5, <1>6

\* Logs that show the same entries show the same directory.
LEMMA ShownSame ==
    ASSUME NEW L \in Logs, Distinct(L), NEW P, P \subseteq Places(L), Good(L, P),
           NEW Q, Q \subseteq Places(L), Good(L, Q), Alike(L, P, Q),
           NEW F, Holds(F, L, P), NEW G, Holds(G, L, Q)
    PROVE  Shown(F) = Shown(G)
<1>1. ASSUME NEW n \in Names PROVE Shown(F)[n] = Shown(G)[n]
  <2>1. \A p \in Dirents(L, n) : Shows(L, P, p) <=> Shows(L, Q, p)
    BY EntryFacts DEF Alike
  <2>2. CASE \E p \in Dirents(L, n) : Shows(L, P, p)
    <3>1. PICK p \in Dirents(L, n) : Shows(L, P, p) /\ Shows(L, Q, p)
      BY <2>1, <2>2
    <3>2. Shown(F)[n] = At(L, p).ino
      BY <3>1, ShownOf
    <3>3. Shown(G)[n] = At(L, p).ino
      BY <3>1, ShownOf
    <3> QED BY <3>2, <3>3
  <2>3. CASE \A p \in Dirents(L, n) : ~Shows(L, P, p)
    <3>1. Shown(F)[n] = 0
      BY <2>3, ShownOf
    <3>2. Shown(G)[n] = 0
      BY <2>1, <2>3, ShownOf
    <3> QED BY <3>1, <3>2
  <2> QED BY <2>2, <2>3
<1> QED BY <1>1 DEF Shown

\* Recoverable, of a log L, lists l and w nodes in the write buffer.
RecOf(L, l, w) == [j \in 1..(w + 1) |-> Shown(FlashedOf(L, l, w, j - 1))]

\* The last of the directories is the one of the whole log, the only one when the write
\* buffer is empty.
LEMMA RecFacts ==
    ASSUME NEW L, NEW l, NEW w \in Nat
    PROVE  /\ IsSeq(RecOf(L, l, w)) /\ Len(RecOf(L, l, w)) = w + 1
           /\ RecOf(L, l, w)[w + 1] = Shown(L)
           /\ \A j \in 0..w : RecOf(L, l, w)[j + 1] = Shown(FlashedOf(L, l, w, j))
           /\ w = 0 => RecOf(L, l, w) = <<Shown(L)>>
<1> DEFINE R == RecOf(L, l, w)
           T == {R[j] : j \in 1..(w + 1)}
<1>1. R = [j \in 1..(w + 1) |-> R[j]] /\ \A j \in 1..(w + 1) : R[j] = Shown(FlashedOf(L, l, w, j - 1))
  BY DEF RecOf
<1> HIDE DEF R
<1>2. R \in [1..(w + 1) -> T]
  BY <1>1
<1> HIDE DEF T
<1>3. R \in Seq(T) /\ w + 1 \in Nat
  BY <1>2
<1>4. Len(R) = w + 1
  <2>1. Len(R) \in Nat /\ 1..Len(R) = 1..(w + 1)
    BY <1>1, <1>3
  <2> QED BY <1>3, <2>1
<1>5. ASSUME NEW j \in 0..w PROVE R[j + 1] = Shown(FlashedOf(L, l, w, j))
  <2>1. j + 1 \in 1..(w + 1) /\ (j + 1) - 1 = j
    OBVIOUS
  <2> QED BY <1>1, <2>1
<1>6. FlashedOf(L, l, w, w) = L
  BY DEF FlashedOf
<1>7. R[w + 1] = Shown(L)
  BY <1>5, <1>6
<1>8. w = 0 => R = <<Shown(L)>>
  BY <1>1, <1>7
<1> QED BY <1>3, <1>4, <1>5, <1>7, <1>8 DEF R, IsSeq

\* What a cut of the write buffer leaves.
LEMMA FlashedHolds ==
    ASSUME NEW L \in Logs, NEW o, NEW l, NEW w \in Nat, BlocksOK(L, o, l, w), NEW j \in 0..w
    PROVE  Holds(FlashedOf(L, l, w, j), L, Cut(L, l, w, j, {})) /\ Cut(L, l, w, j, {}) \subseteq Places(L)
BY FlashedPlaces DEF Holds

\* If c->nextblock is the same, the directories are the same.
LEMMA RecSame ==
    ASSUME NEW L \in Logs, Distinct(L), NEW w \in Nat,
           NEW o, NEW l, BlocksOK(L, o, l, w), FlashOK(L, o, l, w),
           NEW u, NEW m, BlocksOK(L, u, m, w),
           w > 0 => \A c \in Blocks : m[c] = "next" <=> l[c] = "next"
    PROVE  RecOf(L, m, w) = RecOf(L, l, w)
<1>1. ASSUME NEW j \in 0..w PROVE Shown(FlashedOf(L, m, w, j)) = Shown(FlashedOf(L, l, w, j))
  <2>1. CASE j = w
    BY <2>1 DEF FlashedOf
  <2>2. CASE j # w
    <3> DEFINE P == Cut(L, l, w, j, {})
    <3>1. \A c \in Blocks : m[c] = "next" <=> l[c] = "next"
      BY <2>2
    <3>2. Cut(L, m, w, j, {}) = P
      BY <3>1, PlaceFacts DEF Cut, Whole
    <3>3. Good(L, P) /\ Alike(L, P, P)
      BY DEF FlashOK, Alike
    <3>4. Holds(FlashedOf(L, m, w, j), L, P) /\ Holds(FlashedOf(L, l, w, j), L, P) /\ P \subseteq Places(L)
      BY <3>2, FlashedHolds
    <3> HIDE DEF P
    <3> QED BY ONLY <3>3, <3>4, L \in Logs, Distinct(L), ShownSame
  <2> QED BY <2>1, <2>2
<1>2. \A j \in 1..(w + 1) : j - 1 \in 0..w
  OBVIOUS
<1> QED BY <1>1, <1>2 DEF RecOf

\* Erasing a block changes none of the directories.
LEMMA RecErased ==
    ASSUME NEW L \in Logs, Distinct(L), NEW w \in Nat,
           NEW o, NEW l, BlocksOK(L, o, l, w), FlashOK(L, o, l, w),
           NEW b \in Blocks, l[b] = "erase_pending",
           NEW u, Wipe(L, b) \in Logs, BlocksOK(Wipe(L, b), u, AsErased(l, b), w)
    PROVE  RecOf(Wipe(L, b), AsErased(l, b), w) = RecOf(L, l, w)
<1> DEFINE M == Wipe(L, b)
           m == AsErased(l, b)
<1>0. l \in [Blocks -> Lists] /\ Blank(L, o, l)
  BY DEF BlocksOK
<1>1. M[b] = <<>> /\ (\A c \in Blocks \ {b} : M[c] = L[c]) /\ \A c \in Blocks : m[c] = "next" <=> l[c] = "next"
  BY <1>0 DEF Wipe, AsErased, Logs
<1>2. {b} \in SUBSET Doomed(L, o, l) /\ {} \in SUBSET Doomed(L, o, l)
  BY <1>0 DEF Doomed, Blank, Lists
<1>3. M \in Logs /\ BlocksOK(M, u, m, w)
  OBVIOUS
<1> HIDE DEF M, m
<1>4. \A p : p \in Places(M) <=> p \in Places(L) /\ p[1] # b
  <2>1. ASSUME NEW p \in Places(M) PROVE p \in Places(L) /\ p[1] # b
    <3>1. p[1] \in Blocks /\ p[2] \in 1..Len(M[p[1]]) /\ p = <<p[1], p[2]>>
      BY <1>3, PlaceFacts
    <3>2. p[1] # b
      BY <1>1, <3>1
    <3> QED BY <1>1, <3>1, <3>2, PlaceFacts
  <2>2. ASSUME NEW p \in Places(L), p[1] # b PROVE p \in Places(M)
    <3>1. p[1] \in Blocks /\ p[2] \in 1..Len(L[p[1]]) /\ p = <<p[1], p[2]>>
      BY PlaceFacts
    <3> QED BY <1>1, <1>3, <2>2, <3>1, PlaceFacts
  <2> QED BY <2>1, <2>2
<1>5. \A p \in Places(M) : At(M, p) = At(L, p) /\ p[1] \in Blocks /\ M[p[1]] = L[p[1]]
  BY <1>1, <1>3, <1>4, PlaceFacts DEF At
<1>6. ASSUME NEW j \in 0..w PROVE Shown(FlashedOf(M, m, w, j)) = Shown(FlashedOf(L, l, w, j))
  <2> DEFINE P == Cut(M, m, w, j, {})
             Q == Cut(L, l, w, j, {})
  <2>1. P = Cut(L, l, w, j, {b})
    <3>1. \A p : p \in P <=> p \in Places(M) /\ (m[p[1]] = "next" => p[2] <= Len(M[p[1]]) - w + j)
      BY DEF Cut, Whole
    <3>2. \A p : p \in Cut(L, l, w, j, {b}) <=>
              p \in Places(L) /\ p[1] # b /\ (l[p[1]] = "next" => p[2] <= Len(L[p[1]]) - w + j)
      BY DEF Cut, Whole
    <3> HIDE DEF P
    <3>3. \A p : p \in P <=> p \in Cut(L, l, w, j, {b})
      BY <1>1, <1>4, <1>5, <3>1, <3>2
    <3> QED BY <3>3 DEF Cut, P
  <2>2. Good(L, P) /\ Alike(L, P, Q) /\ Good(L, Q)
    BY <1>2, <2>1 DEF FlashOK
  <2>3. Holds(FlashedOf(M, m, w, j), M, P) /\ P \subseteq Places(M)
    BY <1>3, FlashedHolds
  <2>4. Holds(FlashedOf(L, l, w, j), L, Q) /\ Q \subseteq Places(L)
    BY FlashedHolds
  <2> HIDE DEF P, Q
  <2>5. Holds(FlashedOf(M, m, w, j), L, P) /\ P \subseteq Places(L)
    BY <1>4, <1>5, <2>3 DEF Holds
  <2> QED BY ONLY <2>2, <2>4, <2>5, L \in Logs, Distinct(L), ShownSame
<1>7. \A j \in 1..(w + 1) : j - 1 \in 0..w
  OBVIOUS
<1>8. RecOf(M, m, w) = RecOf(L, l, w)
  BY <1>6, <1>7 DEF RecOf
<1> QED BY <1>8 DEF M, m

\* Writing a node adds a directory at the end and leaves the others, but those that have
\* become durable.
LEMMA RecStored ==
    ASSUME NEW L \in Logs, Distinct(L), NEW w \in Nat,
           NEW o, NEW l, BlocksOK(L, o, l, w), FlashOK(L, o, l, w),
           NEW b \in Blocks, l[b] = "next", NEW x \in Nodes, NEW M, M = Add(L, b, x),
           NEW k \in Nat, NEW e \in Nat, e + k = w + 1,
           NEW u, NEW m, BlocksOK(M, u, m, k), k > 0 => m[b] = "next", NEW j \in Nat, j < k
    PROVE  Shown(FlashedOf(M, m, k, j)) = Shown(FlashedOf(L, l, w, e + j))
<1> DEFINE i == e + j
           P == Cut(L, l, w, i, {})
<1>1. i \in 0..w /\ i \in Int /\ k > 0 /\ j \in 0..k
  OBVIOUS
<1>2. /\ M \in Logs /\ Places(M) = Places(L) \cup {Slot(L, b)} /\ Slot(L, b) \notin Places(L)
      /\ (\A p \in Places(L) : At(M, p) = At(L, p)) /\ Len(M[b]) = Len(L[b]) + 1
      /\ \A c \in Blocks \ {b} : M[c] = L[c]
  BY Appended
<1>3. \A c \in Blocks : (m[c] = "next" <=> c = b) /\ (l[c] = "next" <=> c = b)
  BY <1>1 DEF BlocksOK
<1>4. Len(L[b]) \in Nat
  BY DEF Logs
<1>5. \A p : p \in P <=> p \in Places(L) /\ (l[p[1]] = "next" => p[2] <= Len(L[p[1]]) - w + i)
  BY DEF Cut, Whole
<1>6. \A p : p \in Cut(M, m, k, j, {}) <=> p \in Places(M) /\ (m[p[1]] = "next" => p[2] <= Len(M[p[1]]) - k + j)
  BY DEF Cut, Whole
<1>7. Len(M[b]) - k + j = Len(L[b]) - w + i /\ ~(Len(L[b]) + 1 <= Len(L[b]) - w + i)
  <2>1. PICK z \in Nat : z = Len(L[b])
    BY <1>4
  <2>2. (z + 1) - k + j = z - w + i /\ ~(z + 1 <= z - w + i)
    BY <1>1
  <2> QED BY <1>2, <2>1, <2>2
<1> HIDE DEF P, i
<1>8. \A p : p \in Cut(M, m, k, j, {}) <=> p \in P
  <2> SUFFICES ASSUME NEW p PROVE p \in Cut(M, m, k, j, {}) <=> p \in P
    OBVIOUS
  <2>1. CASE p \in Places(L)
    <3>1. p[1] \in Blocks
      BY <2>1, PlaceFacts
    <3> QED BY <1>2, <1>3, <1>5, <1>6, <1>7, <2>1, <3>1
  <2>2. CASE p = Slot(L, b)
    <3>1. p[1] = b /\ p[2] = Len(L[b]) + 1
      BY <2>2 DEF Slot
    <3> QED BY <1>2, <1>3, <1>5, <1>6, <1>7, <2>2, <3>1
  <2>3. CASE p \notin Places(L) /\ p # Slot(L, b)
    BY <1>2, <1>5, <1>6, <2>3
  <2> QED BY <2>1, <2>2, <2>3
<1>9. Cut(M, m, k, j, {}) = P
  BY <1>8 DEF Cut, P
<1>10. Holds(FlashedOf(M, m, k, j), M, P)
  BY <1>1, <1>2, <1>9, FlashedHolds
<1>11. Holds(FlashedOf(L, l, w, i), L, P) /\ P \subseteq Places(L)
  BY <1>1, FlashedHolds DEF P
<1>12. Holds(FlashedOf(M, m, k, j), L, P)
  BY <1>2, <1>10, <1>11 DEF Holds
<1>13. Good(L, P) /\ Alike(L, P, P)
  <2>1. {} \in SUBSET Doomed(L, o, l)
    OBVIOUS
  <2> QED BY <1>1, <2>1 DEF FlashOK, P, Alike
<1>14. Shown(FlashedOf(M, m, k, j)) = Shown(FlashedOf(L, l, w, i))
  BY ONLY <1>11, <1>12, <1>13, L \in Logs, Distinct(L), ShownSame
<1> QED BY <1>14 DEF i

\* A node written changes what is shown of its own name only.
LEMMA OneName ==
    ASSUME NEW L \in Logs, Good(L, Places(L)), Distinct(L), NEW b \in Blocks, NEW x \in Nodes, x # Dead,
           NEW M, M = Add(L, b, x), NEW n \in Names, Shown(M)[n] # Shown(L)[n]
    PROVE  x.type = "dirent" /\ n = x.name
<1> SUFFICES ASSUME x.type = "dirent" => n # x.name PROVE FALSE
  OBVIOUS
<1> DEFINE D == Dirents(L, n)
           q == Newest(L, D)
<1>1. M \in Logs /\ \A p \in Places(L) : At(M, p) = At(L, p)
  BY Appended
<1>2. Dirents(M, n) = D /\ \A i : InodeNodes(L, i) \subseteq InodeNodes(M, i)
  <2>1. x.type \in {"inode", "dirent"}
    BY NodeKinds
  <2> QED BY <2>1, AppendKinds
<1>3. CASE D = {}
  BY <1>2, <1>3 DEF Shown
<1>4. CASE D # {}
  <2>1. \A p \in D : At(M, p) = At(L, p) /\ p \in Places(L)
    BY <1>1, EntryFacts
  <2>2. Newest(M, D) = q
    BY <2>1 DEF Newest
  <2>3. q \in D /\ \A r \in D : At(L, r).version <= At(L, q).version
    BY <1>4, NewestFacts
  <2>4. Shown(L)[n] = IF D = {} \/ InodeNodes(L, At(L, q).ino) = {} THEN 0 ELSE At(L, q).ino
    BY DEF Shown
  <2>5. Shown(M)[n] = IF D = {} \/ InodeNodes(M, At(M, q).ino) = {} THEN 0 ELSE At(M, q).ino
    BY <1>2, <2>2 DEF Shown
  <2> HIDE DEF q
  <2>6. At(L, q).ino # 0 => InodeNodes(L, At(L, q).ino) # {}
    <3>1. q \in Of(L, "dirent") /\ At(L, q).name = n /\ q \in Places(L)
      BY <2>3, EntryFacts
    <3>2. NewestIn(L, Places(L), q)
      BY <2>3, <3>1 DEF NewestIn
    <3> QED BY <3>1, <3>2 DEF Good
  <2>7. At(M, q) = At(L, q)
    BY <2>1, <2>3
  <2> HIDE DEF D
  <2> QED BY <1>2, <2>4, <2>5, <2>6, <2>7
<1> QED BY <1>3, <1>4

\* The sequence T begins with what R has from place e + 1 on, and has one thing more.
Follows(R, w, T, k, e) ==
    /\ w \in Nat /\ k \in Nat /\ e \in Nat /\ e + k = w + 1
    /\ IsSeq(R) /\ Len(R) = w + 1 /\ IsSeq(T) /\ Len(T) = k + 1
    /\ \A j \in Nat : j < k => T[j + 1] = R[e + j + 1]

\* T is the end of R with that appended.
LEMMA EndOfSeq ==
    ASSUME NEW R, NEW w, NEW T, NEW k, NEW e, Follows(R, w, T, k, e)
    PROVE  \E all \in {R, Append(R, T[Len(T)])} : \E i \in 1..Len(all) : T = SubSeq(all, i, Len(all))
<1>0. /\ w \in Nat /\ k \in Nat /\ e \in Nat /\ e + k = w + 1
      /\ IsSeq(R) /\ Len(R) = w + 1 /\ IsSeq(T) /\ Len(T) = k + 1
      /\ \A j \in Nat : j < k => T[j + 1] = R[e + j + 1]
  BY DEF Follows
<1> USE <1>0
<1>1. PICK S1 : R \in Seq(S1)
  BY DEF IsSeq
<1>2. PICK S2 : T \in Seq(S2)
  BY DEF IsSeq
<1>d. PICK d : d = T[k + 1]
  OBVIOUS
<1>a. PICK all : all = Append(R, d)
  OBVIOUS
<1> DEFINE S == S1 \cup S2
           U == SubSeq(all, e + 1, w + 2)
<1>3. R \in Seq(S) /\ T \in Seq(S) /\ d \in S
  BY <1>1, <1>2, <1>d
<1> HIDE DEF S
<1>4. /\ all \in Seq(S) /\ Len(all) = w + 2 /\ all[w + 2] = d
      /\ \A j \in 1..(w + 1) : all[j] = R[j]
  BY <1>3, <1>a
<1>5. e + 1 \in 1..(w + 2) /\ e + 1 \in Nat /\ (w + 2) - (e + 1) + 1 = k + 1
  OBVIOUS
<1>6. U \in Seq(S) /\ Len(U) = k + 1 /\ \A j \in 1..(k + 1) : U[j] = all[(e + 1) + j - 1]
  BY <1>4, <1>5
<1>7. ASSUME NEW j \in 1..(k + 1) PROVE U[j] = T[j]
  <2>1. U[j] = all[e + j] /\ e + j \in Nat
    <3>1. (e + 1) + j - 1 = e + j
      OBVIOUS
    <3> QED BY <1>6, <3>1
  <2> HIDE DEF U
  <2>2. CASE j = k + 1
    <3>1. e + j = w + 2
      BY <2>2
    <3> QED BY <1>4, <1>d, <2>1, <2>2, <3>1
  <2>3. CASE j # k + 1
    <3>1. PICK i \in Nat : i + 1 = j /\ i < k
      BY <2>3
    <3>2. T[i + 1] = R[e + i + 1] /\ e + i + 1 = e + j /\ e + j \in 1..(w + 1)
      BY <3>1
    <3> QED BY <1>4, <2>1, <3>1, <3>2
  <2> QED BY <2>2, <2>3
<1> HIDE DEF U
<1>8. U = T
  BY <1>3, <1>6, <1>7
<1>9. e + 1 \in 1..Len(all) /\ T = SubSeq(all, e + 1, Len(all))
  BY <1>4, <1>5, <1>8 DEF U
<1>10. all = Append(R, T[Len(T)])
  BY <1>a, <1>d
<1> QED BY <1>9, <1>10

\* Writing a node, as a step of DurableDir.
LEMMA Written ==
    ASSUME NEW R, NEW w, NEW T, NEW k, NEW e, Follows(R, w, T, k, e),
           \A m, n \in Names : T[k + 1][m] # R[w + 1][m] /\ T[k + 1][n] # R[w + 1][n] => m = n
    PROVE  Durable!Advances(R, T)
<1>4. \E all \in {R, Append(R, T[Len(T)])} : \E i \in 1..Len(all) : T = SubSeq(all, i, Len(all))
  BY EndOfSeq
<1>5. Len(R) = w + 1 /\ Len(T) = k + 1
  BY DEF Follows
<1> QED BY <1>4, <1>5 DEF Durable!Advances

\* Writing the buffer out and a power cut.
LEMMA WrittenOut ==
    ASSUME NEW R, IsSeq(R), NEW w \in Nat, Len(R) = w + 1
    PROVE  /\ Durable!Advances(R, <<R[w + 1]>>)
           /\ \A j \in 0..w : Durable!Cut(R, <<R[j + 1]>>)
<1>1. PICK S : R \in Seq(S)
  BY DEF IsSeq
<1>2. SubSeq(R, w + 1, w + 1) = <<R[w + 1]>> /\ w + 1 \in 1..Len(R)
  <2> DEFINE U == SubSeq(R, w + 1, w + 1)
  <2>1. U \in Seq(S) /\ Len(U) = 1 /\ U[1] = R[w + 1] /\ R[w + 1] \in S
    BY <1>1
  <2>2. <<R[w + 1]>> \in Seq(S) /\ Len(<<R[w + 1]>>) = 1 /\ <<R[w + 1]>>[1] = R[w + 1]
    BY <2>1
  <2> HIDE DEF U
  <2>3. U = <<R[w + 1]>>
    BY <2>1, <2>2
  <2> QED BY <2>3 DEF U
<1>3. Len(<<R[w + 1]>>) = 1 /\ <<R[w + 1]>>[1] = R[w + 1]
  OBVIOUS
<1>4. Durable!Advances(R, <<R[w + 1]>>)
  BY <1>2, <1>3 DEF Durable!Advances
<1>5. \A j \in 0..w : Durable!Cut(R, <<R[j + 1]>>)
  BY DEF Durable!Cut
<1> QED BY <1>4, <1>5

\* What Store writes, and how many nodes it leaves in the write buffer.
LEMMA StoreLeaves ==
    ASSUME Up, NEW node, NEW old, Store(node, old)
    PROVE  \E b \in Blocks : /\ list[b] = "next" /\ log' = Add(log, b, node) /\ wbuf' \in {0, 1, wbuf + 1}
                             /\ wbuf' > 0 => list'[b] = "next"
<1>0. wbuf \in Nat /\ medium = "nand" /\ list \in [Blocks -> Lists]
  BY DEF Up, NandType, UpOK, BlocksOK
<1>1. PICK b \in On("next"), dest \in Dest, w \in {0, 1, wbuf + 1} :
        LET L    == [log EXCEPT ![b] = Append(@, node)]
            full == Cardinality(Used(L, b, obs)) = NSlots
            left == IF full THEN 0 ELSE w
            l    == IF full THEN [list EXCEPT ![b] = "closed"] ELSE list
        IN  /\ log' = L
            /\ wbuf' = left
            /\ list' = Refile(l, L, obs \cup old, old, left # wbuf + 1, left, dest)
  BY <1>0 DEF Store
<1>2. b \in Blocks /\ list[b] = "next" /\ log' = Add(log, b, node)
  BY <1>1 DEF On, Add
<1> DEFINE full == Cardinality(Used(log', b, obs)) = NSlots
<1>3. wbuf' = IF full THEN 0 ELSE w
  BY <1>1
<1>4. ASSUME wbuf' > 0 PROVE list'[b] = "next"
  <2>1. ~full
    BY <1>3, <1>4
  <2>2. list' = Refile(list, log', obs \cup old, old, wbuf' # wbuf + 1, wbuf', dest)
    BY <1>1, <2>1
  <2> QED BY <1>2, <2>2 DEF Refile
<1> QED BY <1>0, <1>2, <1>3, <1>4

\* A node is written.
LEMMA StoredAdvances ==
    ASSUME NEW L \in Logs, Distinct(L), NEW w \in Nat, NEW o, NEW v, EntriesOK(L, o, v),
           NEW l, BlocksOK(L, o, l, w), FlashOK(L, o, l, w),
           NEW b \in Blocks, l[b] = "next", NEW x \in Nodes, x # Dead, NEW M, M = Add(L, b, x),
           NEW k \in Nat, k \in {0, 1, w + 1}, NEW u, NEW m, BlocksOK(M, u, m, k), k > 0 => m[b] = "next"
    PROVE  Durable!Advances(RecOf(L, l, w), RecOf(M, m, k))
<1>3. PICK e \in Nat : e + k = w + 1
  <2>1. k = 0 \/ k = 1 \/ k = w + 1
    OBVIOUS
  <2> QED BY <2>1
<1> DEFINE R == RecOf(L, l, w)
           T == RecOf(M, m, k)
<1>4. /\ IsSeq(R) /\ Len(R) = w + 1 /\ R[w + 1] = Shown(L)
      /\ \A j \in 0..w : R[j + 1] = Shown(FlashedOf(L, l, w, j))
  BY RecFacts
<1>5. /\ IsSeq(T) /\ Len(T) = k + 1 /\ T[k + 1] = Shown(M)
      /\ \A j \in 0..k : T[j + 1] = Shown(FlashedOf(M, m, k, j))
  BY RecFacts
<1> HIDE DEF R, T
<1>6. ASSUME NEW j \in Nat, j < k PROVE T[j + 1] = R[e + j + 1]
  <2>1. Shown(FlashedOf(M, m, k, j)) = Shown(FlashedOf(L, l, w, e + j))
    BY <1>3, <1>6, RecStored
  <2>2. j \in 0..k /\ e + j \in 0..w
    BY <1>3, <1>6
  <2> QED BY <1>4, <1>5, <2>1, <2>2
<1>7. Good(L, Places(L))
  <2>1. \A c \in {} \cap Blocks : Used(L, c, o) = {}
    OBVIOUS
  <2>2. Good(L, Whole(L, {}))
    BY <2>1, WholeGood
  <2>3. Whole(L, {}) = Places(L)
    BY DEF Whole
  <2> QED BY <2>2, <2>3
<1>8. ASSUME NEW n1 \in Names, NEW n2 \in Names, Shown(M)[n1] # Shown(L)[n1], Shown(M)[n2] # Shown(L)[n2]
      PROVE  n1 = n2
  <2>1. n1 = x.name
    BY <1>7, <1>8, OneName
  <2>2. n2 = x.name
    BY <1>7, <1>8, OneName
  <2> QED BY <2>1, <2>2
<1>9. \A n1, n2 \in Names : T[k + 1][n1] # R[w + 1][n1] /\ T[k + 1][n2] # R[w + 1][n2] => n1 = n2
  BY <1>4, <1>5, <1>8
<1>10. Follows(R, w, T, k, e)
  BY <1>3, <1>4, <1>5, <1>6 DEF Follows
<1>11. Durable!Advances(R, T)
  BY ONLY <1>9, <1>10, Written
<1> QED BY <1>11 DEF R, T

\* The directories that can be recovered, before and after a step.
LEMMA RecNow == /\ Recoverable = RecOf(log, list, wbuf)
                /\ Recoverable' = RecOf(log', list', wbuf')
BY DEF Recoverable, Flashed, RecOf, FlashedOf

\* A step that writes a node.
LEMMA StoreDurable ==
    ASSUME Up, Up', NEW node \in Nodes, node # Dead, NEW old, Store(node, old)
    PROVE  Durable!Advances(Recoverable, Recoverable')
<1>0. /\ log \in Logs /\ wbuf \in Nat /\ Distinct(log) /\ EntriesOK(log, obs, hv)
      /\ BlocksOK(log, obs, list, wbuf) /\ FlashOK(log, obs, list, wbuf)
  BY DEF Up, NandType, UpOK
<1>1. wbuf' \in Nat /\ BlocksOK(log', obs', list', wbuf')
  BY DEF Up, NandType, UpOK
<1>2. PICK b \in Blocks : /\ list[b] = "next" /\ log' = Add(log, b, node) /\ wbuf' \in {0, 1, wbuf + 1}
                          /\ wbuf' > 0 => list'[b] = "next"
  BY StoreLeaves
<1>3. Durable!Advances(RecOf(log, list, wbuf), RecOf(log', list', wbuf'))
  BY ONLY <1>0, <1>1, <1>2, node \in Nodes, node # Dead, StoredAdvances
<1> QED BY <1>3, RecNow

\* jffs2_write_dnode and jffs2_write_dirent.
LEMMA OpWriteDurable ==
    ASSUME Up, Up', OpWrite
    PROVE  Durable!Advances(Recoverable, Recoverable')
<1>0. hv \in Nat /\ MaxVer \in Nat /\ op \in Ops /\ OpOK(DirOf(log, obs), Living(log, obs), op, nlink) /\ op.held
  BY Jffs2Assumption DEF Up, NandType, UpOK, OpWrite
<1>1. op # NoOp
  BY <1>0 DEF NoOp
<1>2. Head(op.todo) \in Nodes /\ Head(op.todo).type \in {"inode", "dirent"}
  <2>1. \/ \E n \in Names, i \in Inos \cup {0} : Head(op.todo) = Dirent(n, i, 0)
        \/ \E i \in Inos : Head(op.todo) = Inode(i)
    BY <1>0, <1>1 DEF OpOK
  <2> QED BY <1>0, <2>1, EntryIsNode, InodeIsNode
<1> DEFINE x == Head(op.todo)
<1>3. CASE x.type = "inode"
  <2>1. Store(x, {})
    BY <1>3 DEF OpWrite
  <2>2. x # Dead
    BY <1>2, <1>3, NodeKinds
  <2> QED BY <1>2, <2>1, <2>2, StoreDurable
<1>4. CASE x.type # "inode"
  <2>1. Version <= MaxVer /\ Store([x EXCEPT !.version = Version], Dents(x.name))
    BY <1>4 DEF OpWrite
  <2>2. Version \in 0..MaxVer
    BY <1>0, <2>1 DEF Version
  <2>3. [x EXCEPT !.version = Version] = Dirent(x.name, x.ino, Version)
    BY <1>2, <1>4, <2>2, Reversioned
  <2>4. x.name \in Names /\ x.ino \in Inos \cup {0}
    BY <1>2, <1>4, NodeKinds
  <2>5. Dirent(x.name, x.ino, Version) \in Nodes /\ Dirent(x.name, x.ino, Version).type = "dirent"
    BY <2>2, <2>4, EntryIsNode
  <2>6. Dirent(x.name, x.ino, Version) # Dead
    BY <2>5, NodeKinds
  <2> QED BY <2>1, <2>3, <2>5, <2>6, StoreDurable
<1> QED BY <1>3, <1>4

\* jffs2_garbage_collect_dirent and the copying of inode nodes.
LEMMA GcMoveDurable ==
    ASSUME Up, Up', GcMove
    PROVE  Durable!Advances(Recoverable, Recoverable')
<1>0. log \in Logs /\ hv \in Nat /\ MaxVer \in Nat
  BY Jffs2Assumption DEF Up, NandType
<1>1. PICK b \in Blocks :
        /\ Used(log, b, obs) # {}
        /\ LET p == GcNode(b)  node == At(log, p)
           IN  IF node.type = "inode" THEN Store(node, {p})
               ELSE hv < MaxVer /\ Store([node EXCEPT !.version = hv + 1], {p})
  BY DEF GcMove, On
<1> DEFINE p == GcNode(b)
           x == At(log, p)
<1>2. x \in Nodes /\ x # Dead
  BY <1>0, <1>1, GcNodeUsed
<1>3. CASE x.type = "inode"
  BY <1>1, <1>2, <1>3, StoreDurable
<1>4. CASE x.type # "inode"
  <2>1. hv < MaxVer /\ Store([x EXCEPT !.version = hv + 1], {p})
    BY <1>1, <1>4
  <2> HIDE DEF p
  <2>2. hv + 1 \in 0..MaxVer /\ x.type = "dirent" /\ x.name \in Names /\ x.ino \in Inos \cup {0}
    BY <1>0, <1>2, <1>4, <2>1, NodeKinds
  <2>3. [x EXCEPT !.version = hv + 1] = Dirent(x.name, x.ino, hv + 1)
    BY <1>2, <2>2, Reversioned
  <2>4. Dirent(x.name, x.ino, hv + 1) \in Nodes /\ Dirent(x.name, x.ino, hv + 1).type = "dirent"
    BY <2>2, EntryIsNode
  <2>5. Dirent(x.name, x.ino, hv + 1) # Dead
    BY <2>4, NodeKinds
  <2> QED BY <2>1, <2>3, <2>4, <2>5, StoreDurable
<1> QED BY <1>3, <1>4

\* Steps that only change lists, and not c->nextblock.
LEMMA ListsDurable ==
    ASSUME Up, Up', UNCHANGED <<log, wbuf>>,
           wbuf > 0 => \A c \in Blocks : list'[c] = "next" <=> list[c] = "next"
    PROVE  Recoverable' = Recoverable
<1>0. /\ log \in Logs /\ wbuf \in Nat /\ Distinct(log)
      /\ BlocksOK(log, obs, list, wbuf) /\ FlashOK(log, obs, list, wbuf)
  BY DEF Up, NandType, UpOK
<1>1. BlocksOK(log, obs', list', wbuf)
  BY DEF Up, UpOK
<1>2. RecOf(log, list', wbuf) = RecOf(log, list, wbuf)
  BY ONLY <1>0, <1>1, wbuf > 0 => \A c \in Blocks : list'[c] = "next" <=> list[c] = "next", RecSame
<1> QED BY <1>2, RecNow

\* The collector's and the space's steps on lists.
LEMMA FilingDurable ==
    ASSUME Up, Up', GcPick \/ GcEraseIt \/ TakeErasable \/ MarkErased \/ TakeFree
    PROVE  Recoverable' = Recoverable
<1>0. list \in [Blocks -> Lists] /\ BlocksOK(log, obs, list, wbuf)
  BY DEF Up, UpOK, BlocksOK
<1>1. UNCHANGED <<log, wbuf>>
  BY DEF GcPick, GcEraseIt, TakeErasable, MarkErased, TakeFree, flashVars
<1>2. CASE GcPick \/ GcEraseIt \/ TakeErasable \/ MarkErased
  <2>1. \E b \in Blocks, t \in Lists : list[b] # "next" /\ t # "next" /\ list' = [list EXCEPT ![b] = t]
    BY <1>2 DEF GcPick, GcEraseIt, TakeErasable, MarkErased, On, Lists
  <2>2. \A c \in Blocks : list'[c] = "next" <=> list[c] = "next"
    BY <1>0, <2>1
  <2> QED BY <1>1, <2>2, ListsDurable
<1>3. CASE TakeFree
  <2>1. ~(wbuf > 0)
    BY <1>0, <1>3 DEF TakeFree, On, BlocksOK
  <2> QED BY <1>1, <2>1, ListsDurable
<1> QED BY <1>2, <1>3

\* Obsoleting nodes in core.
LEMMA ObsoleteDurable ==
    ASSUME Up, Up', NEW old, MarkObsolete(old), UNCHANGED <<log, wbuf>>
    PROVE  Recoverable' = Recoverable
<1>1. PICK dest \in Dest : list' = Refile(list, log, obs', old, FALSE, wbuf, dest)
  BY DEF MarkObsolete
<1>2. \A c \in Blocks : list'[c] = "next" <=> list[c] = "next"
  BY <1>1 DEF Refile, Dest
<1> QED BY <1>2, ListsDurable

\* jffs2_erase_pending_blocks
LEMMA EraseDurable ==
    ASSUME Up, Up', Erase
    PROVE  Recoverable' = Recoverable
<1>0. /\ log \in Logs /\ wbuf \in Nat /\ Distinct(log)
      /\ BlocksOK(log, obs, list, wbuf) /\ FlashOK(log, obs, list, wbuf)
  BY DEF Up, NandType, UpOK
<1>1. log' \in Logs /\ BlocksOK(log', obs', list', wbuf') /\ wbuf' = wbuf
  BY DEF Up, NandType, UpOK, Erase
<1>2. PICK b \in Blocks : list[b] = "erase_pending" /\ log' = Wipe(log, b) /\ list' = AsErased(list, b)
  BY DEF Erase, On, Wipe, AsErased
<1>3. Wipe(log, b) \in Logs /\ BlocksOK(Wipe(log, b), obs', AsErased(list, b), wbuf)
  BY <1>1, <1>2
<1>4. RecOf(Wipe(log, b), AsErased(list, b), wbuf) = RecOf(log, list, wbuf)
  BY ONLY <1>0, <1>2, <1>3, RecErased
<1> QED BY <1>1, <1>2, <1>4, RecNow

\* __jffs2_flush_wbuf
LEMMA FlushDurable ==
    ASSUME Up, Flush \/ CloseNext
    PROVE  Durable!Advances(Recoverable, Recoverable')
<1>0. log \in Logs /\ wbuf \in Nat /\ Distinct(log) /\ EntriesOK(log, obs, hv)
  BY DEF Up, NandType, UpOK
<1>1. wbuf' = 0 /\ Shown(log') = Shown(log)
  <2>1. wbuf' = 0 /\ Holds(log', log, Places(log)) /\ Holds(log, log, Places(log))
    BY <1>0, FlushInv DEF Holds
  <2>2. Places(log) = Whole(log, {})
    BY DEF Whole
  <2>3. Good(log, Places(log)) /\ Alike(log, Places(log), Places(log))
    BY <1>0, <2>2, WholeGood DEF Alike
  <2> QED BY ONLY <1>0, <2>1, <2>3, ShownSame
<1> DEFINE R == RecOf(log, list, wbuf)
<1>2. IsSeq(R) /\ Len(R) = wbuf + 1 /\ R[wbuf + 1] = Shown(log)
  BY <1>0, RecFacts
<1>3. RecOf(log', list', 0) = <<Shown(log)>>
  BY <1>1, RecFacts
<1> HIDE DEF R
<1>4. Durable!Advances(R, <<R[wbuf + 1]>>)
  BY <1>0, <1>2, WrittenOut
<1> QED BY <1>1, <1>2, <1>3, <1>4, RecNow DEF R

\* Power is lost: one of the directories is on the flash, torn node or not.
LEMMA PowerCutDurable ==
    ASSUME Up, PowerCut
    PROVE  Durable!Cut(Recoverable, Recoverable')
<1>0. /\ log \in Logs /\ wbuf \in Nat /\ Distinct(log) /\ BlocksOK(log, obs, list, wbuf)
      /\ FlashOK(log, obs, list, wbuf)
  BY DEF Up, NandType, UpOK
<1>1. PICK j \in 0..wbuf, torn \in BOOLEAN :
        log' = [b \in Blocks |-> IF torn /\ list[b] = "next" THEN Append(Flashed(j)[b], Dead)
                                 ELSE Flashed(j)[b]]
  BY DEF PowerCut
<1> DEFINE F == FlashedOf(log, list, wbuf, j)
           P == Cut(log, list, wbuf, j, {})
<1>2. Flashed(j) = F
  BY DEF Flashed, FlashedOf
<1>3. F \in Logs /\ Places(F) = P /\ P \subseteq Places(log) /\ \A p \in P : At(F, p) = At(log, p)
  BY <1>0, FlashedPlaces
<1>4. Good(log, P) /\ Alike(log, P, P)
  <2>1. {} \in SUBSET Doomed(log, obs, list)
    OBVIOUS
  <2> QED BY <1>0, <2>1 DEF FlashOK, Alike
<1> HIDE DEF F, P
<1>5. log' \in Logs /\ P \subseteq Places(log') /\ (\A p \in P : At(log', p) = At(F, p))
      /\ \A p \in Places(log') \ P : At(log', p) = Dead
  <2>0. \A b, c \in Blocks : list[b] = "next" /\ list[c] = "next" => b = c
    BY <1>0 DEF BlocksOK
  <2>1. CASE torn
    <3>1. log' = Tear(F, list)
      BY <1>1, <1>2, <2>1 DEF Tear
    <3> QED BY <1>3, <2>0, <3>1, Torn
  <2>2. CASE ~torn
    <3>1. log' = [b \in Blocks |-> F[b]]
      BY <1>1, <1>2, <2>2
    <3>2. log' = F
      BY <1>3, <3>1 DEF Logs
    <3> QED BY <1>3, <3>2
  <2> QED BY <2>1, <2>2
<1>6. Holds(log', log, P) /\ Holds(F, log, P)
  BY <1>3, <1>5 DEF Holds
<1>7. Shown(log') = Shown(F)
  BY ONLY <1>0, <1>3, <1>4, <1>6, ShownSame
<1> DEFINE R == RecOf(log, list, wbuf)
<1>8. IsSeq(R) /\ Len(R) = wbuf + 1 /\ R[j + 1] = Shown(F)
  BY <1>0, RecFacts DEF F
<1>9. wbuf' = 0 /\ RecOf(log', list', 0) = <<Shown(log')>>
  BY RecFacts DEF PowerCut
<1> HIDE DEF R
<1>10. Durable!Cut(R, <<R[j + 1]>>)
  BY <1>0, <1>8, WrittenOut
<1> QED BY <1>7, <1>8, <1>9, <1>10, RecNow DEF R

\* A step of a mounted file system.
LEMMA UpDurable ==
    ASSUME Up, NandInv', Next
    PROVE  \/ Recoverable' = Recoverable
           \/ Durable!Advances(Recoverable, Recoverable') \/ Durable!Cut(Recoverable, Recoverable')
<1>0. medium = "nand" /\ fsState = "up" /\ clearing = {}
  BY DEF Up, NandType
<1>1. ASSUME fsState' = "up" PROVE Up'
  BY <1>0, <1>1, SameMedium DEF NandInv, Up
<1>2. ASSUME UNCHANGED <<log, list, wbuf>> PROVE Recoverable' = Recoverable
  BY <1>2, RecNow
<1>3. CASE \E n \in Names : Create(n) \/ Unlink(n) \/ \E m \in Names : Link(m, n) \/ Rename(m, n)
  BY <1>2, <1>3 DEF Create, Unlink, Link, Rename, Begin, flashVars
<1>4. CASE Reserve \/ OpFails
  BY <1>2, <1>4 DEF Reserve, OpFails, flashVars
<1>5. CASE OpWrite
  BY <1>0, <1>1, <1>5, OpWriteDurable DEF OpWrite
<1>6. CASE OpWriteFails \/ GcMoveFails \/ Obliterate \/ Mount
  BY <1>0, <1>6 DEF OpWriteFails, GcMoveFails, Obliterate, Mount
<1>7. CASE \E i \in Inos : ClearInode(i)
  BY <1>0, <1>1, <1>7, ObsoleteDurable DEF ClearInode, flashVars
<1>8. CASE GcPick \/ GcEraseIt \/ TakeErasable \/ MarkErased \/ TakeFree
  BY <1>0, <1>1, <1>8, FilingDurable DEF GcPick, GcEraseIt, TakeErasable, MarkErased, TakeFree
<1>9. CASE GcMove
  BY <1>0, <1>1, <1>9, GcMoveDurable DEF GcMove
<1>10. CASE GcDrop
  BY <1>0, <1>1, <1>10, ObsoleteDurable DEF GcDrop, flashVars
<1>11. CASE Flush \/ CloseNext
  BY <1>11, FlushDurable
<1>12. CASE Erase
  BY <1>0, <1>1, <1>12, EraseDurable DEF Erase
<1>13. CASE PowerCut
  BY <1>13, PowerCutDurable
<1> QED BY <1>3, <1>4, <1>5, <1>6, <1>7, <1>8, <1>9, <1>10, <1>11, <1>12, <1>13 DEF Next

\* What DurableDir sees of the file system.
Seen == IF medium = "nand" THEN Recoverable ELSE <<[n \in Names |-> 0]>>

\* A fresh flash shows no names.
LEMMA DurableInit ==
    ASSUME Init
    PROVE  Durable!Init
<1>1. CASE medium = "nand"
  <2>1. wbuf = 0 /\ RecOf(log, list, 0) = <<Shown(log)>>
    BY RecFacts DEF Init
  <2>2. \A n \in Names : Dirents(log, n) = {}
    <3>1. \A b \in Blocks : DOMAIN log[b] = {}
      BY DEF Init
    <3> QED BY <3>1 DEF Dirents, Of, Places
  <2>3. Shown(log) = [n \in Names |-> 0]
    BY <2>2 DEF Shown
  <2> QED BY <1>1, <2>1, <2>3, RecNow DEF Durable!Init
<1>2. CASE medium # "nand"
  BY <1>2 DEF Durable!Init
<1> QED BY <1>1, <1>2

\* Every step is one of DurableDir, or changes none of the directories.
LEMMA DurableNext ==
    ASSUME NandInv, NandInv', [Next]_vars
    PROVE  [Durable!Next]_Seen
<1>1. CASE UNCHANGED vars
  BY <1>1, RecNow DEF vars, flashVars, coreVars, Seen
<1>2. CASE Next /\ medium # "nand"
  BY <1>2, SameMedium DEF Seen
<1>3. CASE Next /\ medium = "nand"
  <2>0. Seen = Recoverable /\ Seen' = Recoverable'
    BY <1>3, SameMedium DEF Seen
  <2>1. \/ Recoverable' = Recoverable
        \/ Durable!Advances(Recoverable, Recoverable') \/ Durable!Cut(Recoverable, Recoverable')
    <3>1. CASE fsState = "up"
      <4>1. Up
        BY <1>3, <3>1 DEF NandInv, Up
      <4> QED BY <1>3, <4>1, UpDurable
    <3>2. CASE fsState # "up"
      <4>1. UNCHANGED <<log, wbuf>> /\ wbuf = 0
        BY <1>3, <3>2, DownNext, MountFacts DEF NandInv
      <4>2. RecOf(log, list, 0) = <<Shown(log)>> /\ RecOf(log, list', 0) = <<Shown(log)>>
        BY RecFacts
      <4> QED BY <4>1, <4>2, RecNow
    <3> QED BY <3>1, <3>2
  <2>2. CASE Recoverable' = Recoverable
    BY <2>0, <2>2
  <2>3. CASE Durable!Advances(Seen, Seen') \/ Durable!Cut(Seen, Seen')
    BY <2>3 DEF Durable!Next, Seen
  <2> QED BY <2>0, <2>1, <2>2, <2>3
<1> QED BY <1>1, <1>2, <1>3

\* JFFS2 on NAND is crash safe: whatever is written, collected, erased and mounted, and
\* wherever power fails, the directory is what DurableDir lets it be.
THEOREM Jffs2CrashSafe == Spec => CrashSafe
<1>1. NandInv /\ NandInv' /\ [Next]_vars => [Durable!Next]_Seen
  BY DurableNext
<1> QED BY <1>1, DurableInit, NandInvariant, PTL DEF Spec, CrashSafe, Durable!Spec, Seen
=============================================================================
