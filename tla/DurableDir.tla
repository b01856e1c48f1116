----------------------------- MODULE DurableDir -----------------------------
(***************************************************************************)
(* What a journalling directory promises across power cuts: the changes of *)
(* names become durable one by one, in the order they were made, and a cut *)
(* loses the last few and nothing else.                                    *)
(***************************************************************************)
EXTENDS Integers, Sequences

CONSTANT Names

VARIABLE dirs  \* the directory on the medium, and after each write not yet there

Init == dirs = <<[n \in Names |-> 0]>>

\* A write gives at most one name another inode or none; writes become durable.
Advances(old, new) ==
    LET last == old[Len(old)]
        d    == new[Len(new)]
    IN  /\ \A m, n \in Names : d[m] # last[m] /\ d[n] # last[n] => m = n
        /\ \E all \in {old, Append(old, d)} : \E k \in 1..Len(all) : new = SubSeq(all, k, Len(all))

\* A cut leaves one of the directories.
Cut(old, new) == \E k \in 1..Len(old) : new = <<old[k]>>

Next == \E old \in {dirs}, new \in {dirs'} : Advances(old, new) \/ Cut(old, new)

Spec == Init /\ [][Next]_dirs
=============================================================================
