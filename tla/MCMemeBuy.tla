----------------------------- MODULE MCMemeBuy -----------------------------
(* Three orders for one token, with every run they can have. *)
EXTENDS MemeBuy, TLC

CONSTANTS o1, o2, o3, t1

MCCaller == {o1, o2, o3} \X {"operator", "auto"}
MCTokenOf == [r \in MCCaller |-> t1]
MCWant == [o \in {o1, o2, o3} |-> 2]
MCSymmetry == Permutations({o1, o2, o3})

\* Bound: a save that no restart can read any more is not explored, nor the
\* load that would prepare it; and a configuration tool comes when the file
\* holds something to lose, a final decision.
SaveIsRead ==
    /\ crashes = MaxCrash => disk' = disk /\ copies' = {}
    /\ copies' # {} /\ copies = {} => \E o \in Order : disk.status[o] \in Final
=============================================================================
