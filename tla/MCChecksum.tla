----------------------------- MODULE MCChecksum -----------------------------
(* A few keys, two row contents, a sample of two: one newest, one spread.    *)
(* MySQL, whose session is pinned, is the source (the cfg's Pinned) or the   *)
(* target (Replica).                                                         *)
EXTENDS Checksum, TLC

Replica == INSTANCE Checksum WITH Pinned <- {"target"}, MaxWrites <- 1

VARIABLE mysql  \* the side that is MySQL

MCInit == Init /\ mysql \in Sides
MCNext == /\ \/ mysql = "source" /\ Next
             \/ mysql = "target" /\ Replica!Next
          /\ UNCHANGED mysql
MCSpec == MCInit /\ [][MCNext]_<<vars, mysql>>

MCKeys  == 1 .. 3
Contents == Permutations(Vals)
=============================================================================
