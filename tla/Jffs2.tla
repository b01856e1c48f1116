------------------------------- MODULE Jffs2 -------------------------------
(***************************************************************************)
(* JFFS2, the file system kept with the NAND driver (14th_nand,            *)
(* mtd-utils-05.07.23/fs/jffs2): the log on the flash, the write buffer,   *)
(* garbage collection, erasing, and the scan that rebuilds the directory   *)
(* after power comes back.                                                 *)
(*                                                                         *)
(* One directory, the root, whose inode is always in core.  Every node     *)
(* takes one slot of an erase block.  A node is an inode node, a directory *)
(* entry (ino = 0: a deletion entry) or dead: padding, torn by a power cut,*)
(* or with its ACCURATE bit cleared.  On NAND no bit can be cleared and    *)
(* writes go through the write buffer; on NOR it is the other way round.   *)
(* How long a node is and how much of a page a flush has to pad is left    *)
(* open: a flush may pad any number of slots, and a node may be too long   *)
(* for what is left of a block, which is then wasted.                      *)
(* CRC checking of the nodes found by the scan is done here at mount; data *)
(* of files, bad blocks and failed writes of the write buffer are left out.*)
(***************************************************************************)
EXTENDS Integers, Sequences, FiniteSets

CONSTANTS Blocks,        \* the erase blocks
          NSlots,        \* nodes per erase block
          Names,         \* file names
          MaxIno,        \* bound: inode numbers 2..MaxIno (1 is the root)
          MaxVer,        \* bound: highest_version of the directory
          MaxCuts,       \* bound: power cuts
          MaxLosses,     \* bound: failed flash writes, paddings and skipped block ends
          ResvDeletion,  \* resv_blocks_deletion
          ResvWrite      \* resv_blocks_write

ASSUME Jffs2Assumption ==
    /\ NSlots \in Nat \ {0} /\ MaxIno \in Nat \ {0, 1}
    /\ {MaxVer, MaxCuts, MaxLosses} \subseteq Nat
    /\ ResvDeletion \in Nat \ {0, 1} /\ ResvWrite \in Nat /\ ResvWrite > ResvDeletion
    /\ IsFiniteSet(Names) /\ IsFiniteSet(Blocks)

VARIABLES
    medium,   \* "nand" or "nor"
    log,      \* block -> the nodes written to it, the write buffer's included
    marked,   \* blocks erased and given a clean marker, or written since
    wbuf,     \* how many of the last nodes of c->nextblock are only in the wbuf
    fsState,  \* "down", "up", or "refused": the mount failed
    obs,      \* places of nodes whose raw_node_ref is REF_OBSOLETE
    list,     \* block -> the list of jffs2_sb_info it is on
    hv,       \* highest_version of the directory
    hino,     \* c->highest_ino
    nlink,    \* inode number -> nlink of its inocache
    op,       \* the directory operation under way
    clearing, \* NOR: obsolete nodes whose ACCURATE bit is still to be cleared
    cuts,     \* power cuts so far
    losses    \* failed writes, paddings and skipped block ends so far

flashVars == <<log, marked, wbuf>>
coreVars  == <<fsState, obs, list, hv, hino, nlink, op, clearing>>
vars      == <<medium, flashVars, coreVars, cuts, losses>>

Inos == 2..MaxIno
Dead == [type |-> "dead"]
Inode(i) == [type |-> "inode", ino |-> i]
Dirent(n, i, v) == [type |-> "dirent", name |-> n, ino |-> i, version |-> v]
NoOp == [call |-> "none", todo |-> <<>>, ino |-> 0, held |-> FALSE, ver |-> 0, retried |-> FALSE]

(***************************************************************************)
(* What is on a flash L.                                                   *)
(***************************************************************************)
Places(L) == UNION {{<<b, k>> : k \in DOMAIN L[b]} : b \in Blocks}
At(L, p)  == L[p[1]][p[2]]
Of(L, type) == {p \in Places(L) : At(L, p).type = type}
Dirents(L, n) == {p \in Of(L, "dirent") : At(L, p).name = n}
InodeNodes(L, i) == {p \in Of(L, "inode") : At(L, p).ino = i}

\* jffs2_add_fd_to_list: of the entries of one name the highest version stays.
Newest(L, D) == CHOOSE p \in D : \A q \in D : At(L, q).version <= At(L, p).version

\* The directory a mount would show: the newest entry of each name, unless it
\* deletes the name or its inode does not exist (jffs2_build_inode_pass1).
Shown(L) == [n \in Names |->
    LET D == Dirents(L, n)
        i == At(L, Newest(L, D)).ino
    IN  IF D = {} \/ InodeNodes(L, i) = {} THEN 0 ELSE i]

\* What the flash holds if j of the nodes in the write buffer get there.
Flashed(j) ==
    IF j = wbuf THEN log
    ELSE [log EXCEPT ![CHOOSE b \in Blocks : list[b] = "next"] = SubSeq(@, 1, Len(@) - wbuf + j)]

(***************************************************************************)
(* What is in core.                                                        *)
(***************************************************************************)
On(l)   == {b \in Blocks : list[b] = l}
Used(L, b, o) == {k \in DOMAIN L[b] : L[b][k] # Dead /\ <<b, k>> \notin o}
Dents(n) == Dirents(log, n) \ obs
Dir     == [n \in Names |-> IF Dents(n) = {} THEN 0 ELSE At(log, CHOOSE p \in Dents(n) : TRUE).ino]
Room    == \E b \in On("next") : Len(log[b]) < NSlots
Idle    == fsState = "up" /\ clearing = {}

\* Mutant: a block is queued for erasing although its nodes' successors are only in
\* the write buffer.
Refile_NoWait(l, L, o, old, flushed, w, dest) == [b \in Blocks |->
    IF l[b] \in {"closed", "gc"} /\ (\E p \in old : p[1] = b) /\ Used(L, b, o) = {}
    THEN dest ELSE l[b]]

\* jffs2_refile_wbuf_blocks, when the buffer has been written (flushed), and the
\* refiling by jffs2_mark_node_obsolete of blocks whose last used node was among
\* `old'; L and o are the nodes and the obsolete ones then, w is what the buffer
\* still holds.  jiffies decides between the two lists `dest' may be.
Refile(l, L, o, old, flushed, w, dest) == [b \in Blocks |->
    IF flushed /\ l[b] = "erasable_pending_wbuf" THEN dest
    ELSE IF l[b] \in {"closed", "gc"} /\ (\E p \in old : p[1] = b) /\ Used(L, b, o) = {}
         THEN IF w > 0 THEN "erasable_pending_wbuf" ELSE dest
    ELSE l[b]]

Dest == {"erase_pending", "erasable"}

\* jffs2_mark_node_obsolete for the nodes `old'.  On NOR the flash follows.
MarkObsolete(old) ==
    /\ obs' = obs \cup old
    /\ \E dest \in Dest : list' = Refile(list, log, obs', old, FALSE, wbuf, dest)
    /\ clearing' = IF medium = "nor" THEN old ELSE {}

\* jffs2_flash_writev and jffs2_add_physical_node_ref: a node goes to c->nextblock,
\* filling a page of the write buffer or not, and obsoletes the nodes `old'.  A block
\* full of used nodes is closed at once.
Store(node, old) ==
    \E b \in On("next"), dest \in Dest,
       w \in IF medium = "nor" THEN {0} ELSE {0, 1, wbuf + 1} :
        LET L    == [log EXCEPT ![b] = Append(@, node)]
            full == Cardinality(Used(L, b, obs)) = NSlots
            left == IF full THEN 0 ELSE w
            l    == IF full THEN [list EXCEPT ![b] = "closed"] ELSE list
        IN  /\ Len(log[b]) < NSlots
            /\ log' = L
            /\ wbuf' = left
            /\ obs' = obs \cup old
            /\ list' = Refile(l, L, obs \cup old, old, left # wbuf + 1, left, dest)
            /\ clearing' = IF medium = "nor" THEN old ELSE {}
            /\ UNCHANGED marked

\* Block b with n slots of padding behind its nodes.
Padded(b, n) == [log EXCEPT ![b] = @ \o [k \in 1..n |-> Dead]]

\* How many slots a flush may pad: none if there is nothing in the buffer.
Padding(b) == 0..(IF wbuf = 0 THEN 0 ELSE NSlots - Len(log[b]))

\* The padding of n slots, and the end of the block when it is closed, are a loss.
Lose(b, n, nl) ==
    LET loss == n > 0 \/ (nl = "closed" /\ Len(log[b]) < NSlots)
    IN  /\ loss => losses < MaxLosses
        /\ losses' = IF loss THEN losses + 1 ELSE losses

\* Mutant: jffs2_refile_wbuf_blocks is forgotten.
FlushTo_NoRefile(nl) ==
    \E b \in On("next") : \E n \in Padding(b) :
        /\ Lose(b, n, nl)
        /\ log' = Padded(b, n)
        /\ wbuf' = 0
        /\ list' = [list EXCEPT ![b] = nl]

\* __jffs2_flush_wbuf, c->nextblock going to list nl.  The rest of the page, if there
\* is anything in the buffer, is padded.
FlushTo(nl) ==
    \E b \in On("next"), dest \in Dest : \E n \in Padding(b) :
        /\ Lose(b, n, nl)
        /\ log' = Padded(b, n)
        /\ wbuf' = 0
        /\ list' = Refile([list EXCEPT ![b] = nl], log, obs, {}, TRUE, 0, dest)

\* __jffs2_flush_wbuf for fsync or kupdate (jffs2_flush_wbuf_gc).
Flush ==
    /\ Idle /\ ~op.held /\ wbuf > 0
    /\ FlushTo("next")
    /\ UNCHANGED <<medium, marked, fsState, obs, hv, hino, nlink, op, clearing, cuts>>

\* jffs2_mark_node_obsolete clears the ACCURATE bit on the flash.
Obliterate ==
    /\ fsState = "up" /\ clearing # {}
    /\ log' = [b \in Blocks |-> [k \in DOMAIN log[b] |->
                  IF <<b, k>> \in clearing THEN Dead ELSE log[b][k]]]
    /\ obs' = obs \ clearing
    /\ clearing' = {}
    /\ UNCHANGED <<medium, marked, wbuf, fsState, list, hv, hino, nlink, op, cuts, losses>>

(***************************************************************************)
(* Garbage collection: jffs2_garbage_collect_pass, one node at a time, by  *)
(* the thread or by a writer short of space; alloc_sem keeps it out while  *)
(* a writer holds its reservation.                                         *)
(***************************************************************************)
GcNode(b) == LET U == Used(log, b, obs) IN <<b, CHOOSE k \in U : \A j \in U : k <= j>>

\* Mutant: a deletion entry is always dropped.
DeletionNeeded_Never(p) == FALSE

\* jffs2_garbage_collect_deletion_dirent: on NAND a deletion entry is needed while an
\* obsolete entry of its name, in another block, waits to be erased.
DeletionNeeded(p) ==
    /\ medium = "nand"
    /\ \E q \in Dirents(log, At(log, p).name) \cap obs : q[1] # p[1] /\ At(log, q).ino # 0

Moves(p) == LET node == At(log, p)
            IN  ~(node.type = "dirent" /\ node.ino = 0 /\ ~DeletionNeeded(p))

\* jffs2_find_gc_block: the lists' order and jiffies may choose any of these.
GcPick ==
    /\ Idle /\ ~op.held /\ On("gc") = {}
    /\ \E b \in On("closed") \cup On("erasable") : list' = [list EXCEPT ![b] = "gc"]
    /\ UNCHANGED <<medium, flashVars, fsState, obs, hv, hino, nlink, op, clearing, cuts, losses>>

GcEraseIt ==
    /\ Idle /\ ~op.held
    /\ \E b \in On("gc") : Used(log, b, obs) = {} /\ list' = [list EXCEPT ![b] = "erase_pending"]
    /\ UNCHANGED <<medium, flashVars, fsState, obs, hv, hino, nlink, op, clearing, cuts, losses>>

\* The node is copied; an entry gets a new version (jffs2_garbage_collect_dirent).
GcMove ==
    /\ Idle /\ ~op.held
    /\ \E b \in On("gc") :
        /\ Used(log, b, obs) # {}
        /\ LET p == GcNode(b)  node == At(log, p)
           IN  /\ Moves(p)
               /\ IF node.type = "inode" THEN hv' = hv /\ Store(node, {p})
                  ELSE /\ hv < MaxVer /\ hv' = hv + 1
                       /\ Store([node EXCEPT !.version = hv + 1], {p})
    /\ UNCHANGED <<medium, fsState, hino, nlink, op, cuts, losses>>

\* NOR: the copy's write fails; the slot is dirty and the node stays.
GcMoveFails ==
    /\ Idle /\ ~op.held /\ medium = "nor" /\ losses < MaxLosses
    /\ \E b \in On("gc") :
        /\ Used(log, b, obs) # {} /\ Moves(GcNode(b))
        /\ hv' = IF At(log, GcNode(b)).type = "inode" THEN hv ELSE hv + 1
    /\ hv < MaxVer
    /\ Store(Dead, {})
    /\ losses' = losses + 1
    /\ UNCHANGED <<medium, fsState, hino, nlink, op, cuts>>

GcDrop ==
    /\ Idle /\ ~op.held
    /\ \E b \in On("gc") :
        /\ Used(log, b, obs) # {} /\ ~Moves(GcNode(b))
        /\ MarkObsolete({GcNode(b)})
    /\ UNCHANGED <<medium, flashVars, fsState, hv, hino, nlink, op, cuts, losses>>

(***************************************************************************)
(* Space: jffs2_reserve_space and jffs2_do_reserve_space, in slots.        *)
(***************************************************************************)
Erasing == Cardinality(On("erase_pending") \cup On("erase_complete"))
UsedSlots(S) == Cardinality({p \in S \X (1..NSlots) : p[2] \in Used(log, p[1], obs)})
Enough(n) == Cardinality(On("free")) + Erasing >= n

\* dirty (unsigned: below zero it is huge) and avail fall short.
LittleToGain ==
    LET dirtied == UNION {On(l) : l \in {"closed", "gc", "erasable", "erasable_pending_wbuf"}}
        blank   == {b \in On("erase_pending") : log[b] = <<>>}
        dirty   == NSlots * (Cardinality(dirtied) - Cardinality(blank)) - UsedSlots(dirtied)
        avail   == NSlots * Cardinality(Blocks) - UsedSlots(Blocks \ On("next"))
                   - Cardinality({p \in Places(log) : p[1] \in On("next")})
    IN  dirty \in 0..NSlots \/ avail \div NSlots <= ResvWrite

\* ALLOC_DELETION
IsDeletion == LET node == Head(op.todo) IN node.type = "dirent" /\ node.ino = 0

\* Mutant: a deletion is let through without holding blocks back.
Admitted_Greedy == Enough(ResvWrite) \/ (LittleToGain /\ IsDeletion)

Admitted == Enough(ResvWrite) \/ (LittleToGain /\ IsDeletion /\ Enough(ResvDeletion))

Reserve ==
    /\ Idle /\ op.todo # <<>> /\ ~op.held
    /\ Admitted
    /\ op' = [op EXCEPT !.held = TRUE]
    /\ UNCHANGED <<medium, flashVars, fsState, obs, list, hv, hino, nlink, clearing, cuts, losses>>

\* A writer, or the collector, wants room for a node in c->nextblock.
WantsRoom == Idle /\
    (op.held \/ \E b \in On("gc") : Used(log, b, obs) # {} /\ Moves(GcNode(b)))

\* jffs2_do_reserve_space: when the node needs more than c->nextblock has left, the buffer
\* is flushed, the end of the block skipped and the block filed away ...
CloseNext ==
    /\ WantsRoom
    /\ \E b \in On("next"), minsize \in 1..NSlots : minsize > NSlots - Len(log[b])
    /\ FlushTo("closed")
    /\ UNCHANGED <<medium, marked, fsState, obs, hv, hino, nlink, op, clearing, cuts>>

\* ... and the next block comes off the free list, ...
TakeFree ==
    /\ WantsRoom /\ On("next") = {}
    /\ \E b \in On("free") : list' = [list EXCEPT ![b] = "next"]
    /\ UNCHANGED <<medium, flashVars, fsState, obs, hv, hino, nlink, op, clearing, cuts, losses>>

\* ... which an erasable block may have to be erased for.
TakeErasable ==
    /\ WantsRoom /\ On("next") \cup On("free") = {} /\ Erasing = 0
    /\ \E b \in On("erasable") : list' = [list EXCEPT ![b] = "erase_pending"]
    /\ UNCHANGED <<medium, flashVars, fsState, obs, hv, hino, nlink, op, clearing, cuts, losses>>

\* jffs2_erase_pending_blocks: the block's refs are freed and the block erased ...
Erase ==
    /\ Idle
    /\ \E b \in On("erase_pending") :
        /\ log' = [log EXCEPT ![b] = <<>>]
        /\ marked' = marked \ {b}
        /\ obs' = {p \in obs : p[1] # b}
        /\ list' = [list EXCEPT ![b] = "erase_complete"]
    /\ UNCHANGED <<medium, wbuf, fsState, hv, hino, nlink, op, clearing, cuts, losses>>

\* ... and jffs2_mark_erased_block writes the clean marker.
MarkErased ==
    /\ Idle
    /\ \E b \in On("erase_complete") :
        /\ marked' = marked \cup {b}
        /\ list' = [list EXCEPT ![b] = "free"]
    /\ UNCHANGED <<medium, log, wbuf, fsState, obs, hv, hino, nlink, op, clearing, cuts, losses>>

(***************************************************************************)
(* Directory operations, one at a time (the directory's i_sem): the nodes  *)
(* each has to write, the space for each of them reserved anew.            *)
(***************************************************************************)
MayBegin == Idle /\ op = NoOp /\ hv < MaxVer

Begin(call, ino, todo) ==
    /\ op' = [NoOp EXCEPT !.call = call, !.ino = ino, !.todo = todo]
    /\ UNCHANGED <<medium, flashVars, fsState, obs, list, hv, clearing, cuts, losses>>

\* Mutant: the entry goes to the flash before the inode it names.
Create_EntryFirst(n) ==
    /\ MayBegin /\ hino < MaxIno /\ Dir[n] = 0
    /\ hino' = hino + 1
    /\ nlink' = [nlink EXCEPT ![hino + 1] = 1]
    /\ Begin("create", hino + 1, <<Dirent(n, hino + 1, 0), Inode(hino + 1)>>)

\* jffs2_create: jffs2_do_new_inode gives the new inocache nlink 1.
Create(n) ==
    /\ MayBegin /\ hino < MaxIno /\ Dir[n] = 0
    /\ hino' = hino + 1
    /\ nlink' = [nlink EXCEPT ![hino + 1] = 1]
    /\ Begin("create", hino + 1, <<Inode(hino + 1), Dirent(n, hino + 1, 0)>>)

Link(m, n) ==
    /\ MayBegin /\ Dir[m] # 0 /\ Dir[n] = 0
    /\ Begin("link", Dir[m], <<Dirent(n, Dir[m], 0)>>)
    /\ UNCHANGED <<hino, nlink>>

Unlink(n) ==
    /\ MayBegin /\ Dir[n] # 0
    /\ Begin("unlink", Dir[n], <<Dirent(n, 0, 0)>>)
    /\ UNCHANGED <<hino, nlink>>

\* jffs2_rename: a hard link, then the unlinking of the old name.
Rename(m, n) ==
    /\ MayBegin /\ Dir[m] # 0 /\ Dir[m] # Dir[n]
    /\ Begin("rename", Dir[m], <<Dirent(n, Dir[m], 0), Dirent(m, 0, 0)>>)
    /\ UNCHANGED <<hino, nlink>>

\* nlink once the first node of op.todo is written: jffs2_link, jffs2_do_unlink (not
\* for a rename, whose dead_f is NULL) and the victim of jffs2_rename.
LinksAfter ==
    LET victim == Dir[Head(op.todo).name]
    IN  IF op.call = "link" THEN [nlink EXCEPT ![op.ino] = @ + 1]
        ELSE IF op.call = "unlink" THEN [nlink EXCEPT ![op.ino] = @ - 1]
        ELSE IF op.call = "rename" /\ Len(op.todo) = 2 /\ victim # 0
             THEN [nlink EXCEPT ![victim] = @ - 1]
        ELSE nlink

\* The version of the entry: a retried write keeps its own if it is still the highest.
Version == IF op.ver = hv /\ op.ver # 0 THEN hv ELSE hv + 1

\* jffs2_write_dnode or jffs2_write_dirent, jffs2_add_fd_to_list, and
\* jffs2_complete_reservation.
OpWrite ==
    /\ Idle /\ op.held
    /\ LET node == Head(op.todo)
       IN  IF node.type = "inode" THEN hv' = hv /\ Store(node, {})
           ELSE /\ Version <= MaxVer /\ hv' = Version
                /\ Store([node EXCEPT !.version = Version], Dents(node.name))
    /\ nlink' = LinksAfter
    /\ op' = IF Len(op.todo) = 1 THEN NoOp
             ELSE [op EXCEPT !.todo = Tail(@), !.held = FALSE, !.ver = 0, !.retried = FALSE]
    /\ UNCHANGED <<medium, fsState, hino, cuts, losses>>

\* An operation gives up.  jffs2_rename then counts its new link; jffs2_create leaves
\* the new inode's nlink at 1.
GiveUp ==
    /\ op' = NoOp
    /\ nlink' = IF op.call = "rename" /\ Len(op.todo) = 1 THEN [nlink EXCEPT ![op.ino] = @ + 1]
                ELSE nlink

\* No space, a signal while collecting, or no memory or no block after reserving.
OpFails ==
    /\ Idle /\ op.todo # <<>> /\ (op.held \/ ~Admitted)
    /\ GiveUp
    /\ UNCHANGED <<medium, flashVars, fsState, obs, list, hv, hino, clearing, cuts, losses>>

\* NOR: the write fails, leaving a dirty slot, and is retried once.
OpWriteFails ==
    /\ Idle /\ op.held /\ medium = "nor" /\ losses < MaxLosses /\ hv < MaxVer
    /\ hv' = IF Head(op.todo).type = "inode" THEN hv ELSE Version
    /\ Store(Dead, {})
    /\ losses' = losses + 1
    /\ IF op.retried THEN GiveUp
       ELSE /\ op' = [op EXCEPT !.held = FALSE, !.retried = TRUE,
                                !.ver = IF Head(op.todo).type = "inode" THEN 0 ELSE Version]
            /\ UNCHANGED nlink
    /\ UNCHANGED <<medium, fsState, hino, cuts>>

\* jffs2_do_clear_inode, after the last close of a file without names.
ClearInode(i) ==
    /\ Idle /\ nlink[i] = 0 /\ InodeNodes(log, i) \ obs # {}
    /\ MarkObsolete(InodeNodes(log, i) \ obs)
    /\ UNCHANGED <<medium, flashVars, fsState, hv, hino, nlink, op, cuts, losses>>

(***************************************************************************)
(* Power cuts and mounting.                                                *)
(***************************************************************************)
NoCore ==
    /\ obs' = {} /\ clearing' = {} /\ op' = NoOp
    /\ hv' = 0 /\ hino' = 1 /\ nlink' = [i \in Inos |-> 0]

\* j nodes of the write buffer get to the flash, and a write under way may be torn.
PowerCut ==
    /\ fsState = "up" /\ cuts < MaxCuts
    /\ \E j \in 0..wbuf, torn \in BOOLEAN :
        /\ torn => j < wbuf \/ (Room /\ (op.held \/ On("gc") # {}))
        /\ LET L == Flashed(j)
           IN  log' = [b \in Blocks |-> IF torn /\ list[b] = "next" THEN Append(L[b], Dead) ELSE L[b]]
    /\ fsState' = "down"
    /\ list' = [b \in Blocks |-> "none"]
    /\ NoCore
    /\ wbuf' = 0 /\ cuts' = cuts + 1
    /\ UNCHANGED <<medium, marked, losses>>

\* jffs2_scan_medium files each block; the order of the scan is left open, so a block
\* of which newer entries were found may have been filed before or after they were.
\* nb is c->nextblock, the one with most free space.
ScanList(sobs, nb, late) == [b \in Blocks |->
    IF log[b] = <<>> THEN IF b \in marked THEN "free" ELSE "erase_pending"
    ELSE IF Used(log, b, {}) = {} \/ (Used(log, b, sobs) = {} /\ b \in late) THEN "erase_pending"
    ELSE IF b = nb THEN "next" ELSE "closed"]

\* jffs2_do_mount_fs: the scan (in core only) obsoletes all but the newest entry of each
\* name (sobs), jffs2_build_filesystem the entries without inode and the inodes without
\* name (bobs), and the CRC check the second copies of an inode node (dups).
Mount ==
    LET sobs == {p \in Of(log, "dirent") : p # Newest(log, Dirents(log, At(log, p).name))}
        links == [i \in Inos |-> Cardinality({n \in Names : Shown(log)[n] = i})]
        bobs == {p \in Of(log, "dirent") \ sobs :
                    At(log, p).ino # 0 /\ InodeNodes(log, At(log, p).ino) = {}}
                \cup {p \in Of(log, "inode") : links[At(log, p).ino] = 0}
        part == {b \in Blocks : log[b] # <<>> /\ Len(log[b]) < NSlots /\ Used(log, b, {}) # {}}
        vers == {At(log, p).version : p \in Of(log, "dirent") \ (sobs \cup bobs)}
        inos == {At(log, p).ino : p \in Of(log, "inode")}
    IN
    /\ fsState = "down"
    /\ \E nb \in IF part = {} THEN Blocks
                 ELSE {b \in part : \A c \in part : Len(log[b]) <= Len(log[c])},
          late \in SUBSET Blocks, dest \in Dest,
          dups \in SUBSET (Of(log, "inode") \ bobs) :
        LET sl == ScanList(sobs, IF part = {} THEN "" ELSE nb, late)
        IN
        /\ late \subseteq {b \in Blocks \ {nb} : log[b] # <<>> /\ Used(log, b, sobs) = {}}
        /\ \A i \in inos : links[i] > 0 => Cardinality(InodeNodes(log, i) \ dups) = 1
        /\ IF /\ \E b \in Blocks : sl[b] = "erase_pending"
              /\ Of(log, "dirent") = {}
              /\ medium = "nand" \/ \A b \in Blocks : sl[b] # "free"
              /\ \E b \in Blocks : log[b] # <<>>
           THEN /\ fsState' = "refused"
                /\ UNCHANGED <<obs, list, hv, hino, nlink, op, clearing>>
           ELSE /\ fsState' = "up"
                /\ obs' = sobs \cup bobs \cup dups
                /\ list' = Refile(sl, log, obs', bobs \cup dups, FALSE, 0, dest)
                /\ hv' = IF vers = {} THEN 0 ELSE CHOOSE v \in vers : \A u \in vers : u <= v
                /\ hino' = IF inos = {} THEN 1 ELSE CHOOSE i \in inos : \A j \in inos : j <= i
                /\ nlink' = links
                /\ op' = NoOp
                /\ clearing' = IF medium = "nor" THEN dups ELSE {}
    /\ UNCHANGED <<medium, flashVars, cuts, losses>>

\* A flash fresh from flash_eraseall -j.
Init ==
    /\ medium \in {"nand", "nor"}
    /\ log = [b \in Blocks |-> <<>>] /\ marked = Blocks /\ wbuf = 0
    /\ fsState = "down" /\ obs = {} /\ list = [b \in Blocks |-> "none"]
    /\ hv = 0 /\ hino = 1 /\ nlink = [i \in Inos |-> 0] /\ op = NoOp /\ clearing = {}
    /\ cuts = 0 /\ losses = 0

Next ==
    \/ \E n \in Names : Create(n) \/ Unlink(n) \/ \E m \in Names : Link(m, n) \/ Rename(m, n)
    \/ Reserve \/ OpWrite \/ OpFails \/ OpWriteFails
    \/ \E i \in Inos : ClearInode(i)
    \/ GcPick \/ GcEraseIt \/ GcMove \/ GcMoveFails \/ GcDrop
    \/ CloseNext \/ TakeFree \/ TakeErasable
    \/ Erase \/ MarkErased \/ Flush \/ Obliterate
    \/ PowerCut \/ Mount

Spec == Init /\ [][Next]_vars

(***************************************************************************)
(* Properties.                                                             *)
(***************************************************************************)

Remounts(m) == fsState = "up" /\ medium = m => Shown(log) = Dir

\* On NAND, once the write buffer is out, a mount after a power cut shows exactly the
\* directory the kernel has in core: no deletion undone, no file lost, whatever
\* jffs2_garbage_collect_pass moved, dropped or erased in the meantime.
RemountShowsDirectory == Remounts("nand")

\* The same of NOR, where jffs2_garbage_collect_deletion_dirent drops deletion entries
\* because the entries they delete are "marked obsolete permanently" (gc.c, l. 800-805).
NorRemountShowsDirectory == Remounts("nor")

\* On NAND the newest entry of a name never names an inode without a node, wherever the
\* write buffer is cut off and whatever failed half way: jffs2_build_inode_pass1 never
\* finds a child that "doesn't exist", and no inode is cleared that is still named.
EntriesHaveInodes ==
    medium = "nand" => \A j \in 0..wbuf : \A n \in Names :
        LET L == Flashed(j)
            D == Dirents(L, n)
            i == At(L, Newest(L, D)).ino
        IN  D # {} /\ i # 0 => InodeNodes(L, i) # {}

\* The directories a cut could leave, from the one on the flash to the one in core.
Recoverable == [j \in 1..(wbuf + 1) |-> Shown(Flashed(j - 1))]

Durable == INSTANCE DurableDir WITH
    dirs <- IF medium = "nand" THEN Recoverable ELSE <<[n \in Names |-> 0]>>

\* On NAND the directory is crash safe: writing, collecting, erasing and mounting
\* implement DurableDir, so a power cut at any step loses only the latest changes of
\* names, those still in the write buffer, and never part of an earlier one.
CrashSafe == Durable!Spec

\* The slots that are or will be free: those of erased blocks and of blocks that wait to
\* be, the rest of c->nextblock, and what the block being collected does not use.
Slack == {s \in Blocks \X (1..NSlots) :
    \/ list[s[1]] \in {"free", "erase_pending", "erase_complete", "erasable", "erasable_pending_wbuf"}
    \/ list[s[1]] = "next" /\ s[2] > Len(log[s[1]])
    \/ list[s[1]] = "gc" /\ s[2] \notin Used(log, s[1], obs)}

\* A block's worth of them for the collector, and one for a writer with a reservation.
Owed == NSlots + (IF op.held THEN 1 ELSE 0)
ReserveHeld == Cardinality(Slack) >= Owed

\* The slots of c->nextblock that a step wastes: they are no longer to be had and hold no
\* node, but padding, a failed write or nothing, the block being closed.
Wasted == {s \in Slack \ Slack' :
    list[s[1]] = "next" /\ (s[2] > Len(log'[s[1]]) \/ log'[s[1]][s[2]] = Dead)}

\* What jffs2_reserve_space holds back is lost to nothing but waste: while the file system
\* is mounted neither the writes it admits, nor moving nodes, filing or erasing blocks eat
\* into the block that jffs2_garbage_collect_pass needs, except for the padding of
\* __jffs2_flush_wbuf, the end of a block that jffs2_do_reserve_space skips and a write that
\* fails; and whatever was wasted before, every reservation finds the block there.
ReserveKept ==
    [][fsState = "up" /\ fsState' = "up" /\ (ReserveHeld \/ (~op.held /\ op'.held))
       => Cardinality(Slack') + Cardinality(Wasted) >= Owed']_vars

\* As long as that is there, jffs2_do_reserve_space never has to say "No free space left
\* for GC": when c->nextblock has been closed there is a block to take or to erase.
NeverOutOfRoom ==
    ReserveHeld /\ WantsRoom /\ On("next") = {} =>
        On("free") \cup On("erase_pending") \cup On("erase_complete") \cup On("erasable") # {}
=============================================================================
